------------------------- MODULE CodeMetaDataProofs -------------------------
(***************************************************************************)
(* Proofs about the code metadata manager, for any code caches, methods    *)
(* and sizes of buckets and stores: chains never share memory, a search    *)
(* that overlaps an insertion is safe, every pc is answered with the       *)
(* method that contains it, and what was inserted can be removed.          *)
(***************************************************************************)
EXTENDS CodeMetaData, FiniteSetTheorems, SequenceTheorems, NaturalsInduction,
        WellFoundedInduction, TLAPS

-----------------------------------------------------------------------------
(***************************************************************************)
(* The inductive invariant                                                 *)
(***************************************************************************)

SlotType == [meta : Metas \cup {None}, tagged : BOOLEAN]
BucketType == [entry : SlotType, chain : Nat]
TableType(c) == [buckets : [0 .. DetermineBucket(c, c.end) -> BucketType],
                 slots : Seq(SlotType), currentAllocate : Nat]

\* A table has a store, closed by its terminator, and allocates from the last.
Shaped(t) ==
  /\ StoreSize + 1 =< Len(t.slots)
  /\ Len(t.slots) - StoreSize =< t.currentAllocate /\ t.currentAllocate =< Len(t.slots)
  /\ t.slots[Len(t.slots)] = Terminator

\* The slots from a to e are a chain.
Linked(t, a, e) ==
  /\ a \in Nat /\ e \in Nat /\ 1 =< a /\ a =< e /\ e < Len(t.slots)
  /\ t.slots[e].tagged
  /\ \A i \in a .. e : t.slots[i].meta # None /\ (i < e => ~t.slots[i].tagged)

\* Slot i is not in the free part of the last store.
Settled(t, i) == i > Len(t.slots) - StoreSize - 1 => i < t.currentAllocate

\* A chain has two entries at least, of different methods, in settled slots.
GoodChain(t, a, e) ==
  /\ Linked(t, a, e) /\ a < e /\ Settled(t, e)
  /\ \A i, j \in a .. e : t.slots[i].meta = t.slots[j].meta => i = j
ChainsGood(t) ==
  \A b \in ChainBuckets(t) : GoodChain(t, t.buckets[b].chain, ChainEnd(t, t.buckets[b].chain))

\* No two chains have a slot in common.
ChainsApart(t) ==
  \A b, d \in ChainBuckets(t) :
    b # d => SlotsOf(t, t.buckets[b].chain) \cap SlotsOf(t, t.buckets[d].chain) = {}

\* A bucket without a chain is empty or has a tagged entry.
GoodSingle(s) == s = Empty \/ (s.meta # None /\ s.tagged)
SinglesGood(t) ==
  \A b \in DOMAIN t.buckets : t.buckets[b].chain = 0 => GoodSingle(t.buckets[b].entry)

Sound(c, t) ==
  /\ t \in TableType(c) /\ Shaped(t)
  /\ ChainsGood(t) /\ ChainsApart(t) /\ SinglesGood(t)

\* The method that is being inserted.
Inserting == IF insertion = None THEN {} ELSE {insertion.meta}
Alive == registered \cup partial \cup Inserting

Types ==
  /\ DOMAIN tables \subseteq Caches
  /\ registered \subseteq Metas /\ partial \subseteq Metas
  /\ insertion = None
     \/ insertion \in [meta : Metas, bucket : Nat, prepared : BOOLEAN, chain : Int]
  /\ search = None \/ search \in [cache : Caches, pc : Nat, at : Nat, due : SUBSET Metas]
  /\ cachedPC \in Nat /\ retrieved \in Metas \cup {None}

TablesInv == \A c \in DOMAIN tables : Sound(c, tables[c])

\* The code of m lies in the cache c.
Lies(m, c) == InTable(c, m) /\ startPC[m] < endPC[m]

\* Methods whose code overlaps are never in the tables together.
AliveApart == \A m, n \in Alive : m # n => ~Overlap(m, n)

\* A registered method is in every bucket of its range.
RegisteredHeld ==
  \A m \in registered : \E c \in DOMAIN tables :
    Lies(m, c) /\ \A b \in BucketsOf(c, m) : Holds(tables[c], b, m)

\* A bucket holds what belongs there, and what it holds the buckets before it
\* hold too.
HeldAlive ==
  \A c \in DOMAIN tables : \A b \in 0 .. DetermineBucket(c, c.end), m \in Metas :
    Holds(tables[c], b, m) =>
      /\ m \in Alive /\ Lies(m, c) /\ b \in BucketsOf(c, m)
      /\ \A d \in BucketsOf(c, m) : d =< b => Holds(tables[c], d, m)

\* The remembered answer is in the bucket of the remembered pc.
CacheInv ==
  /\ cachedPC = 0 => cachedTable = None
  /\ cachedPC # 0 => /\ cachedTable \in DOMAIN tables
                     /\ cachedTable.start =< cachedPC /\ cachedPC < cachedTable.end
  /\ retrieved # None =>
       /\ cachedPC # 0 /\ Covers(retrieved, cachedPC)
       /\ Holds(tables[cachedTable], DetermineBucket(cachedTable, cachedPC), retrieved)

\* An insertion has entered its method in the buckets before the one it is at.
InsertionInv ==
  insertion # None =>
    /\ cachedPC # 0
    /\ insertion.meta \notin registered \cup partial
    /\ Lies(insertion.meta, cachedTable)
    /\ insertion.bucket \in BucketsOf(cachedTable, insertion.meta)
    /\ ~insertion.prepared => insertion.chain = 0
    /\ \A b \in BucketsOf(cachedTable, insertion.meta) :
         Holds(tables[cachedTable], b, insertion.meta) <=> b < insertion.bucket

\* What is prepared behind the write barrier is a chain which no bucket names,
\* or a second end of the bucket's chain, or nothing for an empty bucket.
FreshChain(t, b, m, n) ==
  LET k == Len(Entries(t, b))
  IN /\ t.buckets[b] # EmptyBucket
     /\ Linked(t, n, n + k) /\ Settled(t, n + k)
     /\ t.slots[n] = Slot(m, FALSE)
     /\ \A i \in 1 .. k : t.slots[n + i] = Entries(t, b)[i]
     /\ \A d \in ChainBuckets(t) : SlotsOf(t, t.buckets[d].chain) \cap (n .. n + k) = {}
SecondEnd(t, b, e) ==
  /\ b \in ChainBuckets(t) /\ e = ChainEnd(t, t.buckets[b].chain)
  /\ e + 1 < Len(t.slots) /\ Settled(t, e + 1)
  /\ t.slots[e + 1] = t.slots[e]
  /\ \A d \in ChainBuckets(t) : e + 1 \notin SlotsOf(t, t.buckets[d].chain)
PreparedInv ==
  insertion # None /\ insertion.prepared =>
    LET t == tables[cachedTable]
    IN /\ insertion.chain = 0 => Here = EmptyBucket
       /\ insertion.chain > 0 =>
            FreshChain(t, insertion.bucket, insertion.meta, insertion.chain)
       /\ insertion.chain < 0 => SecondEnd(t, insertion.bucket, -insertion.chain)

\* Method m is in one of the slots from a to e.
InSlots(t, a, e, m) == \E i \in a .. e : t.slots[i].meta = m

\* A search is in a chain, of a bucket or one that no bucket names any more,
\* and has the method it is to find before it.
SearchInv ==
  search # None =>
    /\ search.cache \in DOMAIN tables
    /\ \A m \in search.due : Covers(m, search.pc)
    /\ \E e \in Nat :
         /\ Linked(tables[search.cache], search.at, e) /\ Settled(tables[search.cache], e)
         /\ \A m \in search.due : InSlots(tables[search.cache], search.at, e, m)

Inv ==
  /\ Types
  /\ TablesInv
  /\ AliveApart
  /\ RegisteredHeld
  /\ HeldAlive
  /\ CacheInv
  /\ InsertionInv
  /\ PreparedInv
  /\ SearchInv

-----------------------------------------------------------------------------
(***************************************************************************)
(* Buckets and chains                                                      *)
(***************************************************************************)

\* Division by the size of a bucket.
LEMMA Division ==
    ASSUME NEW n \in Nat
    PROVE  /\ n \div BucketSize \in Nat
           /\ \A k \in Nat : k =< n => k \div BucketSize =< n \div BucketSize
  <1>1. BucketSize \in Nat /\ BucketSize > 0
    BY StoreAssumption
  <1>2. n \div BucketSize \in Nat
    BY <1>1, Z3
  <1>3. ASSUME NEW k \in Nat, k =< n PROVE k \div BucketSize =< n \div BucketSize
    <2> DEFINE p == k \div BucketSize
               q == n \div BucketSize
               B == BucketSize
    <2>1. /\ p \in Int /\ q \in Int /\ B \in Nat /\ B > 0
          /\ p * B =< k /\ k < p * B + B /\ q * B =< n /\ n < q * B + B
      BY <1>1, Z3
    <2> HIDE DEF p, q, B
    <2>2. SUFFICES ASSUME p > q PROVE FALSE
      BY <2>1 DEF p, q
    <2>3. p >= q + 1
      BY <2>1, <2>2
    <2>4. p * B >= (q + 1) * B
      BY <2>1, <2>3
    <2>5. (q + 1) * B = q * B + B
      BY <2>1
    <2> QED BY <1>3, <2>1, <2>4, <2>5
  <1> QED BY <1>2, <1>3

\* A method that lies in a cache has buckets there, and so has each pc of it.
LEMMA BucketRange ==
    ASSUME NEW c \in Caches, NEW m \in Metas, Lies(m, c)
    PROVE  /\ DetermineBucket(c, startPC[m]) \in Nat /\ DetermineBucket(c, endPC[m]) \in Nat
           /\ DetermineBucket(c, c.end) \in Nat
           /\ DetermineBucket(c, startPC[m]) =< DetermineBucket(c, endPC[m])
           /\ DetermineBucket(c, endPC[m]) =< DetermineBucket(c, c.end)
           /\ BucketsOf(c, m) \subseteq 0 .. DetermineBucket(c, c.end)
           /\ \A pc \in Nat : Covers(m, pc) => DetermineBucket(c, pc) \in BucketsOf(c, m)
  <1>1. /\ startPC[m] \in Nat /\ endPC[m] \in Nat /\ c.start \in Nat /\ c.end \in Nat
        /\ c.start =< startPC[m] /\ startPC[m] < endPC[m] /\ endPC[m] =< c.end
    BY CachesAssumption, MetasAssumption DEF Lies, InTable
  <1>2. /\ startPC[m] - c.start \in Nat /\ endPC[m] - c.start \in Nat /\ c.end - c.start \in Nat
        /\ startPC[m] - c.start =< endPC[m] - c.start /\ endPC[m] - c.start =< c.end - c.start
    BY <1>1
  <1>3. /\ DetermineBucket(c, startPC[m]) \in Nat /\ DetermineBucket(c, endPC[m]) \in Nat
        /\ DetermineBucket(c, c.end) \in Nat
        /\ DetermineBucket(c, startPC[m]) =< DetermineBucket(c, endPC[m])
        /\ DetermineBucket(c, endPC[m]) =< DetermineBucket(c, c.end)
    BY <1>2, Division DEF DetermineBucket
  <1>4. ASSUME NEW pc \in Nat, Covers(m, pc) PROVE DetermineBucket(c, pc) \in BucketsOf(c, m)
    <2>1. pc - c.start \in Nat /\ startPC[m] - c.start =< pc - c.start /\ pc - c.start =< endPC[m] - c.start
      BY <1>1, <1>4 DEF Covers
    <2>2. /\ DetermineBucket(c, pc) \in Nat
          /\ DetermineBucket(c, startPC[m]) =< DetermineBucket(c, pc)
          /\ DetermineBucket(c, pc) =< DetermineBucket(c, endPC[m])
      BY <1>2, <2>1, Division DEF DetermineBucket
    <2> QED BY <1>3, <2>2 DEF BucketsOf
  <1> QED BY <1>3, <1>4 DEF BucketsOf

\* The bucket of a pc of a cache is a bucket of its table.
LEMMA BucketOfPC ==
    ASSUME NEW c \in Caches, NEW pc \in Nat, c.start =< pc, pc < c.end
    PROVE  DetermineBucket(c, pc) \in 0 .. DetermineBucket(c, c.end)
  <1>1. pc - c.start \in Nat /\ c.end - c.start \in Nat /\ pc - c.start =< c.end - c.start
    BY CachesAssumption
  <1>2. /\ (pc - c.start) \div BucketSize \in Nat /\ (c.end - c.start) \div BucketSize \in Nat
        /\ (pc - c.start) \div BucketSize =< (c.end - c.start) \div BucketSize
    BY <1>1, Division
  <1> QED BY <1>2 DEF DetermineBucket

\* A chain has one end.
LEMMA EndOfChain ==
    ASSUME NEW t, NEW a, NEW e, Len(t.slots) \in Nat, Linked(t, a, e)
    PROVE  ChainEnd(t, a) = e
  <1> DEFINE End(i) == t.slots[i].tagged /\ \A j \in a .. i - 1 : ~t.slots[j].tagged
  <1>1. e \in a .. Len(t.slots) /\ End(e)
    BY DEF Linked
  <1>2. \A i \in a .. Len(t.slots) : End(i) => i = e
    <2> SUFFICES ASSUME NEW i \in a .. Len(t.slots), End(i), i # e PROVE FALSE
      OBVIOUS
    <2>0. a \in Nat /\ e \in Nat /\ i \in Nat
      BY DEF Linked
    <2>1. CASE i < e
      BY <1>1, <2>0, <2>1
    <2>2. CASE e < i
      BY <1>1, <2>0, <2>2
    <2> QED BY <2>0, <2>1, <2>2
  <1>3. ChainEnd(t, a) = CHOOSE i \in a .. Len(t.slots) : End(i)
    BY DEF ChainEnd
  <1> HIDE DEF End
  <1> QED BY <1>1, <1>2, <1>3

\* The i-th slot from a.
Nth(t, a, i) == t.slots[a + i - 1]

\* The entries of a chain are its slots.
LEMMA ChainEntries ==
    ASSUME NEW t, NEW b, NEW a, NEW e, t.slots \in Seq(SlotType),
           t.buckets[b].chain = a, a # 0, Linked(t, a, e)
    PROVE  /\ Entries(t, b) \in Seq(SlotType)
           /\ Len(Entries(t, b)) = e - a + 1
           /\ \A i \in 1 .. Len(Entries(t, b)) : Entries(t, b)[i] = Nth(t, a, i)
  <1> DEFINE s == t.slots
  <1>0. a \in Nat /\ e \in Nat /\ 1 =< a /\ a =< e /\ e < Len(s) /\ Len(s) \in Nat
    BY LenProperties DEF Linked
  <1>1. Entries(t, b) = SubSeq(s, a, e)
    BY <1>0, EndOfChain DEF Entries, Chain
  <1>2. /\ SubSeq(s, a, e) \in Seq(SlotType)
        /\ Len(SubSeq(s, a, e)) = e - a + 1
        /\ \A i \in 1 .. e - a + 1 : SubSeq(s, a, e)[i] = s[a + i - 1]
    <2>1. s \in Seq(SlotType) /\ a \in 1 .. Len(s) + 1 /\ e \in a - 1 .. Len(s)
      BY <1>0
    <2> HIDE DEF s
    <2> QED BY <2>1, <1>0, SubSeqProperties
  <1> QED BY <1>1, <1>2 DEF Nth

\* A bucket holds the methods in the slots of its chain.
LEMMA ChainHolds ==
    ASSUME NEW t, NEW b, NEW a, NEW e, NEW m, t.slots \in Seq(SlotType),
           t.buckets[b].chain = a, a # 0, Linked(t, a, e)
    PROVE  Holds(t, b, m) <=> InSlots(t, a, e, m)
  <1> DEFINE s == t.slots
             E == Entries(t, b)
  <1>0. a \in Nat /\ e \in Nat /\ 1 =< a /\ a =< e
    BY DEF Linked
  <1>1. Len(E) = e - a + 1 /\ \A i \in 1 .. Len(E) : E[i] = s[a + i - 1]
    <2>1. Len(E) = e - a + 1 /\ \A i \in 1 .. Len(E) : E[i] = Nth(t, a, i)
      BY ChainEntries, ZenonT(40)
    <2> QED BY <2>1 DEF Nth
  <1>2. Holds(t, b, m) <=> \E i \in 1 .. Len(E) : E[i].meta = m
    BY DEF Holds
  <1> HIDE DEF E, s
  <1>3. ASSUME NEW i \in 1 .. Len(E), E[i].meta = m PROVE \E j \in a .. e : s[j].meta = m
    <2>1. a + i - 1 \in a .. e /\ s[a + i - 1].meta = m
      BY <1>0, <1>1, <1>3
    <2> QED BY <2>1
  <1>4. ASSUME NEW j \in a .. e, s[j].meta = m PROVE \E i \in 1 .. Len(E) : E[i].meta = m
    <2>1. j - a + 1 \in 1 .. Len(E) /\ a + (j - a + 1) - 1 = j
      BY <1>0, <1>1
    <2>2. E[j - a + 1].meta = m
      BY <1>1, <1>4, <2>1
    <2> QED BY <2>1, <2>2
  <1>5. Holds(t, b, m) <=> \E i \in a .. e : s[i].meta = m
    BY <1>2, <1>3, <1>4
  <1> QED BY <1>5 DEF s, InSlots

\* A bucket without a chain has one entry.
LEMMA SingleEntry ==
    ASSUME NEW t, NEW b, t.buckets[b].chain = 0
    PROVE  /\ Entries(t, b) = << t.buckets[b].entry >> /\ Len(Entries(t, b)) = 1
           /\ Entries(t, b)[1] = t.buckets[b].entry
           /\ \A m : Holds(t, b, m) <=> t.buckets[b].entry.meta = m
  BY DEF Entries, Holds

\* What a table that is sound looks like, bucket by bucket.
LEMMA SoundFacts ==
    ASSUME NEW c \in Caches, NEW t, Sound(c, t)
    PROVE  /\ t \in TableType(c) /\ Shaped(t)
           /\ DOMAIN t.buckets = 0 .. DetermineBucket(c, c.end)
           /\ t.slots \in Seq(SlotType) /\ Len(t.slots) \in Nat /\ t.currentAllocate \in Nat
           /\ \A i \in 1 .. Len(t.slots) : t.slots[i] \in SlotType
           /\ \A b \in DOMAIN t.buckets :
                /\ t.buckets[b] \in BucketType
                /\ b \in ChainBuckets(t) <=> t.buckets[b].chain # 0
  <1>1. t \in TableType(c) /\ Shaped(t)
    BY DEF Sound
  <1>2. /\ t.buckets \in [0 .. DetermineBucket(c, c.end) -> BucketType]
        /\ t.slots \in Seq(SlotType) /\ t.currentAllocate \in Nat
    BY <1>1 DEF TableType
  <1>3. Len(t.slots) \in Nat /\ \A i \in 1 .. Len(t.slots) : t.slots[i] \in SlotType
    BY <1>2, LenProperties, ElementOfSeq
  <1> QED BY <1>1, <1>2, <1>3 DEF ChainBuckets

\* The same for the chain of a bucket.
LEMMA ChainFacts ==
    ASSUME NEW c \in Caches, NEW t, Sound(c, t), NEW b \in ChainBuckets(t)
    PROVE  LET a == t.buckets[b].chain
               e == ChainEnd(t, a)
           IN /\ b \in DOMAIN t.buckets /\ a # 0 /\ GoodChain(t, a, e) /\ Linked(t, a, e)
              /\ SlotsOf(t, a) = a .. e /\ a \in Nat /\ e \in Nat /\ 1 =< a /\ a < e
              /\ e < Len(t.slots)
              /\ Entries(t, b) \in Seq(SlotType) /\ Len(Entries(t, b)) = e - a + 1
              /\ \A i \in 1 .. Len(Entries(t, b)) : Entries(t, b)[i] = Nth(t, a, i)
              /\ \A m : Holds(t, b, m) <=> InSlots(t, a, e, m)
  <1> DEFINE a == t.buckets[b].chain
             e == ChainEnd(t, a)
  <1>1. b \in DOMAIN t.buckets /\ a # 0 /\ GoodChain(t, a, e)
    BY DEF Sound, ChainsGood, ChainBuckets
  <1>2. Linked(t, a, e) /\ a < e
    BY <1>1 DEF GoodChain
  <1>3. SlotsOf(t, a) = a .. e
    BY DEF SlotsOf
  <1>4. a \in Nat /\ e \in Nat /\ 1 =< a /\ e < Len(t.slots)
    BY <1>2 DEF Linked
  <1>5. t.slots \in Seq(SlotType)
    BY SoundFacts
  <1>a. t.buckets[b].chain = a
    OBVIOUS
  <1> HIDE DEF e, a
  <1>6. /\ Entries(t, b) \in Seq(SlotType) /\ Len(Entries(t, b)) = e - a + 1
        /\ \A i \in 1 .. Len(Entries(t, b)) : Entries(t, b)[i] = Nth(t, a, i)
    BY <1>a, <1>1, <1>2, <1>5, ChainEntries, ZenonT(40)
  <1>7. ASSUME NEW m PROVE Holds(t, b, m) <=> InSlots(t, a, e, m)
    BY <1>a, <1>1, <1>2, <1>5, ChainHolds
  <1> QED BY <1>1, <1>2, <1>3, <1>4, <1>6, <1>7 DEF e, a

\* A chain whose slots are left alone stays a chain.
LEMMA SameChain ==
    ASSUME NEW t, NEW u, NEW a, NEW e, Len(u.slots) \in Nat, Linked(t, a, e),
           e < Len(u.slots), \A i \in a .. e : u.slots[i] = t.slots[i]
    PROVE  Linked(u, a, e) /\ ChainEnd(u, a) = e
  <1>0. e \in a .. e
    BY DEF Linked
  <1>1. Linked(u, a, e)
    BY <1>0 DEF Linked
  <1> QED BY <1>1, EndOfChain

\* Nothing that is settled in t is unsettled in u.
KeepsSettled(t, u) ==
  /\ Len(t.slots) =< Len(u.slots)
  /\ \A i \in 1 .. Len(t.slots) - 1 : Settled(t, i) => Settled(u, i)

\* A bucket that is left alone, with the slots of its chain.
LEMMA SameBucket ==
    ASSUME NEW c \in Caches, NEW t, Sound(c, t), NEW u, u \in TableType(c),
           KeepsSettled(t, u), NEW b \in DOMAIN t.buckets, u.buckets[b] = t.buckets[b],
           b \in ChainBuckets(t) => \A i \in SlotsOf(t, t.buckets[b].chain) : u.slots[i] = t.slots[i]
    PROVE  /\ b \in ChainBuckets(u) <=> b \in ChainBuckets(t)
           /\ b \in ChainBuckets(t) =>
                /\ GoodChain(u, u.buckets[b].chain, ChainEnd(u, u.buckets[b].chain))
                /\ ChainEnd(u, u.buckets[b].chain) = ChainEnd(t, t.buckets[b].chain)
                /\ SlotsOf(u, u.buckets[b].chain) = SlotsOf(t, t.buckets[b].chain)
           /\ u.buckets[b].chain = 0 => GoodSingle(u.buckets[b].entry)
           /\ Entries(u, b) = Entries(t, b)
           /\ \A m : Holds(u, b, m) <=> Holds(t, b, m)
  <1>1. /\ DOMAIN u.buckets = DOMAIN t.buckets /\ u.slots \in Seq(SlotType)
        /\ Len(u.slots) \in Nat /\ Len(t.slots) \in Nat /\ Len(t.slots) =< Len(u.slots)
    BY SoundFacts, LenProperties DEF TableType, KeepsSettled
  <1>2. b \in ChainBuckets(u) <=> b \in ChainBuckets(t)
    BY <1>1 DEF ChainBuckets
  <1>3. u.buckets[b].chain = 0 => GoodSingle(u.buckets[b].entry)
    BY DEF Sound, SinglesGood
  <1> DEFINE a == t.buckets[b].chain
             e == ChainEnd(t, a)
  <1>4. ASSUME b \in ChainBuckets(t)
        PROVE  /\ GoodChain(u, a, ChainEnd(u, a)) /\ ChainEnd(u, a) = ChainEnd(t, a)
               /\ SlotsOf(u, a) = SlotsOf(t, a)
               /\ Entries(u, b) = Entries(t, b)
    <2>1. /\ GoodChain(t, a, e) /\ Linked(t, a, e) /\ SlotsOf(t, a) = a .. e /\ a # 0
          /\ a \in Nat /\ e \in Nat /\ 1 =< a /\ a < e /\ e < Len(t.slots)
          /\ Entries(t, b) \in Seq(SlotType) /\ Len(Entries(t, b)) = e - a + 1
          /\ \A i \in 1 .. Len(Entries(t, b)) : Entries(t, b)[i] = Nth(t, a, i)
      BY <1>4, ChainFacts
    <2>2. e < Len(u.slots) /\ \A i \in a .. e : u.slots[i] = t.slots[i]
      BY <1>1, <1>4, <2>1
    <2> HIDE DEF e
    <2>3. Linked(u, a, e) /\ ChainEnd(u, a) = e
      BY <1>1, <2>1, <2>2, SameChain
    <2>4. Settled(u, e)
      <3>1. e \in 1 .. Len(t.slots) - 1 /\ Settled(t, e)
        BY <1>1, <2>1 DEF GoodChain
      <3> QED BY <3>1 DEF KeepsSettled
    <2>5. GoodChain(u, a, e)
      BY <2>1, <2>2, <2>3, <2>4 DEF GoodChain
    <2>6. SlotsOf(u, a) = SlotsOf(t, a)
      BY <2>1, <2>3 DEF SlotsOf
    <2>7. /\ Entries(u, b) \in Seq(SlotType) /\ Len(Entries(u, b)) = e - a + 1
          /\ \A i \in 1 .. Len(Entries(u, b)) : Entries(u, b)[i] = Nth(u, a, i)
      <3>1. u.buckets[b].chain = a /\ a # 0 /\ u.slots \in Seq(SlotType)
        BY <1>1, <2>1
      <3> HIDE DEF a
      <3> QED BY ONLY <2>3, <3>1, ChainEntries
    <2>8. ASSUME NEW i \in 1 .. Len(Entries(u, b)) PROVE Entries(u, b)[i] = Entries(t, b)[i]
      <3>1. a + i - 1 \in a .. e
        BY <2>1, <2>7
      <3> QED BY <2>1, <2>2, <2>7, <3>1 DEF Nth
    <2>9. Entries(u, b) = Entries(t, b)
      <3> DEFINE x == Entries(u, b)
                 y == Entries(t, b)
      <3>1. x \in Seq(SlotType) /\ y \in Seq(SlotType) /\ Len(x) = Len(y)
            /\ \A i \in 1 .. Len(x) : x[i] = y[i]
        BY <2>1, <2>7, <2>8
      <3> HIDE DEF x, y
      <3>2. x = y
        BY <3>1, SeqEqual
      <3> QED BY <3>2 DEF x, y
    <2> QED BY <2>3, <2>5, <2>6, <2>9 DEF e
  <1>5. ASSUME b \notin ChainBuckets(t) PROVE Entries(u, b) = Entries(t, b)
    <2>1. t.buckets[b].chain = 0
      BY <1>5, SoundFacts
    <2> QED BY <2>1, SingleEntry
  <1>6. Entries(u, b) = Entries(t, b)
    BY <1>4, <1>5
  <1>7. \A m : Holds(u, b, m) <=> Holds(t, b, m)
    BY <1>6 DEF Holds
  <1> QED BY <1>2, <1>3, <1>4, <1>6, <1>7

\* A table stays sound if each bucket is left alone, or is a good one with
\* slots that no other chain has.
LEMMA StaysSound ==
    ASSUME NEW c \in Caches, NEW t, Sound(c, t), NEW u, u \in TableType(c), Shaped(u),
           KeepsSettled(t, u), NEW b \in DOMAIN t.buckets,
           \A d \in DOMAIN t.buckets : d # b => u.buckets[d] = t.buckets[d],
           \A d \in ChainBuckets(t) : d # b =>
             \A i \in SlotsOf(t, t.buckets[d].chain) : u.slots[i] = t.slots[i],
           b \in ChainBuckets(u) =>
             /\ GoodChain(u, u.buckets[b].chain, ChainEnd(u, u.buckets[b].chain))
             /\ \A d \in ChainBuckets(t) : d # b =>
                  SlotsOf(t, t.buckets[d].chain) \cap SlotsOf(u, u.buckets[b].chain) = {},
           u.buckets[b].chain = 0 => GoodSingle(u.buckets[b].entry)
    PROVE  /\ Sound(c, u)
           /\ \A d \in DOMAIN t.buckets : d # b => \A m : Holds(u, d, m) <=> Holds(t, d, m)
  <1>1. DOMAIN u.buckets = DOMAIN t.buckets
    BY SoundFacts DEF TableType
  <1>2. ASSUME NEW d \in DOMAIN t.buckets, d # b
        PROVE  /\ d \in ChainBuckets(u) <=> d \in ChainBuckets(t)
               /\ d \in ChainBuckets(t) =>
                    /\ GoodChain(u, u.buckets[d].chain, ChainEnd(u, u.buckets[d].chain))
                    /\ SlotsOf(u, u.buckets[d].chain) = SlotsOf(t, t.buckets[d].chain)
               /\ u.buckets[d].chain = 0 => GoodSingle(u.buckets[d].entry)
               /\ \A m : Holds(u, d, m) <=> Holds(t, d, m)
    BY <1>2, SameBucket
  <1>3. ChainsGood(u)
    <2> SUFFICES ASSUME NEW d \in ChainBuckets(u)
                 PROVE  GoodChain(u, u.buckets[d].chain, ChainEnd(u, u.buckets[d].chain))
      BY DEF ChainsGood
    <2>1. d \in DOMAIN t.buckets
      BY <1>1 DEF ChainBuckets
    <2> QED BY <1>2, <2>1
  <1>4. SinglesGood(u)
    BY <1>1, <1>2 DEF SinglesGood
  <1>5. ChainsApart(u)
    <2> SUFFICES ASSUME NEW d \in ChainBuckets(u), NEW f \in ChainBuckets(u), d # f
                 PROVE  SlotsOf(u, u.buckets[d].chain) \cap SlotsOf(u, u.buckets[f].chain) = {}
      BY DEF ChainsApart
    <2>1. d \in DOMAIN t.buckets /\ f \in DOMAIN t.buckets
      BY <1>1 DEF ChainBuckets
    <2>2. CASE d = b
      BY <1>2, <2>1, <2>2
    <2>3. CASE f = b
      BY <1>2, <2>1, <2>3
    <2>4. CASE d # b /\ f # b
      BY <1>2, <2>1, <2>4 DEF Sound, ChainsApart
    <2> QED BY <2>2, <2>3, <2>4
  <1> QED BY <1>2, <1>3, <1>4, <1>5 DEF Sound

-----------------------------------------------------------------------------
(***************************************************************************)
(* Storing behind the back of a search                                     *)
(***************************************************************************)

\* The slots in use keep their entries, and stay in use.
KeepsEntries(t, u) ==
  /\ Len(t.slots) =< Len(u.slots)
  /\ \A i \in 1 .. Len(t.slots) - 1 :
       Settled(t, i) =>
         Settled(u, i) /\ (t.slots[i].meta # None => u.slots[i] = t.slots[i])

\* The buckets and their chains are the same.
SameContent(t, u) ==
  /\ u.buckets = t.buckets /\ ChainBuckets(u) = ChainBuckets(t)
  /\ \A b \in ChainBuckets(t) :
       /\ ChainEnd(u, u.buckets[b].chain) = ChainEnd(t, t.buckets[b].chain)
       /\ SlotsOf(u, u.buckets[b].chain) = SlotsOf(t, t.buckets[b].chain)
  /\ \A b \in DOMAIN t.buckets :
       Entries(u, b) = Entries(t, b) /\ \A m : Holds(u, b, m) <=> Holds(t, b, m)

\* The slots before a settled one are settled, in a chain.
LEMMA SettledBefore ==
    ASSUME NEW t, NEW e \in Nat, NEW i \in Nat, i =< e, Settled(t, e),
           Len(t.slots) \in Nat, t.currentAllocate \in Nat
    PROVE  Settled(t, i)
  BY StoreAssumption DEF Settled

\* The slots from a to e are the same.
SameSlots(t, u, a, e) == \A i \in a .. e : u.slots[i] = t.slots[i]
Sized(t) == Len(t.slots) \in Nat /\ t.currentAllocate \in Nat

\* A search goes on as before.
LEMMA PathKept ==
    ASSUME NEW t, NEW u, NEW a, NEW e, Linked(t, a, e), Settled(t, e), KeepsEntries(t, u),
           Sized(t), Sized(u)
    PROVE  Linked(u, a, e) /\ Settled(u, e) /\ SameSlots(t, u, a, e)
  <1>0. Len(t.slots) \in Nat /\ t.currentAllocate \in Nat /\ Len(u.slots) \in Nat
    BY DEF Sized
  <1>1. /\ a \in Nat /\ e \in Nat /\ 1 =< a /\ a =< e /\ e < Len(t.slots)
        /\ \A i \in a .. e : t.slots[i].meta # None
    BY DEF Linked
  <1>2. \A i \in a .. e : i \in 1 .. Len(t.slots) - 1 /\ Settled(t, i)
    BY <1>0, <1>1, SettledBefore
  <1>3. \A i \in a .. e : Settled(u, i) /\ u.slots[i] = t.slots[i]
    BY <1>1, <1>2 DEF KeepsEntries
  <1>4. e < Len(u.slots) /\ e \in a .. e
    BY <1>0, <1>1 DEF KeepsEntries
  <1> QED BY <1>0, <1>3, <1>4, SameChain DEF SameSlots

\* A table whose entries are kept stays sound, with the same content.
LEMMA EntriesKept ==
    ASSUME NEW c \in Caches, NEW t, Sound(c, t), NEW u, u \in TableType(c), Shaped(u),
           u.buckets = t.buckets, KeepsEntries(t, u)
    PROVE  Sound(c, u) /\ SameContent(t, u)
  <1>1. KeepsSettled(t, u)
    BY DEF KeepsEntries, KeepsSettled
  <1>2. Sized(t) /\ Sized(u)
    BY SoundFacts, LenProperties DEF TableType, Sized
  <1>3. ASSUME NEW b \in ChainBuckets(t), NEW i \in SlotsOf(t, t.buckets[b].chain)
        PROVE  u.slots[i] = t.slots[i]
    <2> DEFINE a == t.buckets[b].chain
               e == ChainEnd(t, a)
    <2>1. Linked(t, a, e) /\ Settled(t, e) /\ SlotsOf(t, a) = a .. e
      BY ChainFacts DEF GoodChain
    <2>2. i \in a .. e
      BY <1>3, <2>1
    <2> HIDE DEF a, e
    <2>3. SameSlots(t, u, a, e)
      BY <1>2, <2>1, PathKept
    <2> QED BY <2>2, <2>3 DEF SameSlots
  <1>4. ASSUME NEW b \in DOMAIN t.buckets
        PROVE  /\ b \in ChainBuckets(u) <=> b \in ChainBuckets(t)
               /\ b \in ChainBuckets(t) =>
                    /\ GoodChain(u, u.buckets[b].chain, ChainEnd(u, u.buckets[b].chain))
                    /\ ChainEnd(u, u.buckets[b].chain) = ChainEnd(t, t.buckets[b].chain)
                    /\ SlotsOf(u, u.buckets[b].chain) = SlotsOf(t, t.buckets[b].chain)
               /\ u.buckets[b].chain = 0 => GoodSingle(u.buckets[b].entry)
               /\ Entries(u, b) = Entries(t, b)
               /\ \A m : Holds(u, b, m) <=> Holds(t, b, m)
    BY <1>1, <1>3, SameBucket
  <1>5. ChainBuckets(u) = ChainBuckets(t)
    BY DEF ChainBuckets
  <1>6. \A b \in ChainBuckets(t) : b \in DOMAIN t.buckets
    BY DEF ChainBuckets
  <1>7. SameContent(t, u)
    BY <1>4, <1>5, <1>6 DEF SameContent
  <1>8. ChainsGood(u) /\ SinglesGood(u)
    BY <1>4, <1>5, <1>6 DEF ChainsGood, SinglesGood
  <1>9. ChainsApart(u)
    <2> SUFFICES ASSUME NEW d \in ChainBuckets(u), NEW f \in ChainBuckets(u), d # f
                 PROVE  SlotsOf(u, u.buckets[d].chain) \cap SlotsOf(u, u.buckets[f].chain) = {}
      BY DEF ChainsApart
    <2> QED BY <1>4, <1>5, <1>6 DEF Sound, ChainsApart
  <1> QED BY <1>7, <1>8, <1>9 DEF Sound

\* Slots have their type.
LEMMA SlotTypes ==
    /\ Empty \in SlotType /\ Terminator \in SlotType /\ Empty # Terminator
    /\ Empty.meta = None
    /\ \A m \in Metas, b \in BOOLEAN : Slot(m, b) \in SlotType
    /\ \A m, b : Slot(m, b).meta = m /\ Slot(m, b).tagged = b
    /\ EmptyBucket \in BucketType /\ EmptyBucket.chain = 0 /\ EmptyBucket.entry = Empty
  BY DEF SlotType, Slot, Empty, Terminator, BucketType, EmptyBucket, Bucket

\* The fields of a slot.
LEMMA SlotFields == \A m, b : Slot(m, b).meta = m /\ Slot(m, b).tagged = b
  BY DEF Slot

\* What is written in the record of a table.
WithStore(t, s, n) == [t EXCEPT !.slots = s, !.currentAllocate = n]
WithSlots(t, s) == [t EXCEPT !.slots = s]
WithBuckets(t, f) == [t EXCEPT !.buckets = f]

LEMMA TableUpdate ==
    ASSUME NEW c, NEW t \in TableType(c), NEW s, NEW n
    PROVE  /\ WithStore(t, s, n).slots = s /\ WithStore(t, s, n).currentAllocate = n
           /\ WithStore(t, s, n).buckets = t.buckets
           /\ s \in Seq(SlotType) /\ n \in Nat => WithStore(t, s, n) \in TableType(c)
  <1> DEFINE B == [0 .. DetermineBucket(c, c.end) -> BucketType]
             S == Seq(SlotType)
  <1>1. t \in [buckets : B, slots : S, currentAllocate : Nat]
    BY DEF TableType
  <1> HIDE DEF B, S
  <1>2. /\ WithStore(t, s, n).slots = s /\ WithStore(t, s, n).currentAllocate = n
        /\ WithStore(t, s, n).buckets = t.buckets
        /\ s \in S /\ n \in Nat => WithStore(t, s, n) \in [buckets : B, slots : S, currentAllocate : Nat]
    BY ONLY <1>1 DEF WithStore
  <1> QED BY ONLY <1>2 DEF TableType, B, S

\* The same for its slots.
LEMMA SlotsUpdate ==
    ASSUME NEW c, NEW t \in TableType(c), NEW s
    PROVE  /\ WithSlots(t, s).slots = s /\ WithSlots(t, s).currentAllocate = t.currentAllocate
           /\ WithSlots(t, s).buckets = t.buckets
           /\ s \in Seq(SlotType) => WithSlots(t, s) \in TableType(c)
  <1> DEFINE B == [0 .. DetermineBucket(c, c.end) -> BucketType]
             S == Seq(SlotType)
  <1>1. t \in [buckets : B, slots : S, currentAllocate : Nat]
    BY DEF TableType
  <1> HIDE DEF B, S
  <1>3. /\ WithSlots(t, s).slots = s /\ WithSlots(t, s).currentAllocate = t.currentAllocate
        /\ WithSlots(t, s).buckets = t.buckets
        /\ s \in S => WithSlots(t, s) \in [buckets : B, slots : S, currentAllocate : Nat]
    BY ONLY <1>1 DEF WithSlots
  <1> QED BY ONLY <1>3 DEF TableType, B, S

\* The same for its buckets.
LEMMA BucketsUpdate ==
    ASSUME NEW c, NEW t \in TableType(c), NEW f
    PROVE  /\ WithBuckets(t, f).slots = t.slots /\ WithBuckets(t, f).buckets = f
           /\ WithBuckets(t, f).currentAllocate = t.currentAllocate
           /\ f \in [0 .. DetermineBucket(c, c.end) -> BucketType] => WithBuckets(t, f) \in TableType(c)
  <1> DEFINE B == [0 .. DetermineBucket(c, c.end) -> BucketType]
             S == Seq(SlotType)
  <1>1. t \in [buckets : B, slots : S, currentAllocate : Nat]
    BY DEF TableType
  <1> HIDE DEF B, S
  <1>4. /\ WithBuckets(t, f).slots = t.slots /\ WithBuckets(t, f).buckets = f
        /\ WithBuckets(t, f).currentAllocate = t.currentAllocate
        /\ f \in B => WithBuckets(t, f) \in [buckets : B, slots : S, currentAllocate : Nat]
    BY ONLY <1>1 DEF WithBuckets
  <1> QED BY ONLY <1>4 DEF TableType, B, S

\* A new store.
LEMMA NewStoreFacts ==
    /\ NewStore \in Seq(SlotType) /\ Len(NewStore) = StoreSize + 1
    /\ NewStore[StoreSize + 1] = Terminator
  <1>1. StoreSize \in Nat
    BY StoreAssumption
  <1>2. NewStore \in [1 .. StoreSize + 1 -> SlotType] /\ NewStore[StoreSize + 1] = Terminator
    BY <1>1, SlotTypes DEF NewStore
  <1> HIDE DEF NewStore
  <1> QED BY <1>1, <1>2, SMT

\* Another store keeps the entries.
LEMMA StoreAdded ==
    ASSUME NEW c \in Caches, NEW t, Sound(c, t)
    PROVE  LET x == AllocateMethodStore(t)
           IN /\ Sound(c, x) /\ SameContent(t, x) /\ KeepsEntries(t, x)
              /\ x.currentAllocate + StoreSize = Len(x.slots)
  <1> DEFINE x == AllocateMethodStore(t)
             s == t.slots
             n == NewStore
  <1>1. t \in TableType(c) /\ Len(s) \in Nat /\ t.currentAllocate \in Nat /\ StoreSize \in Nat
    BY SoundFacts, StoreAssumption
  <1>2. s \in Seq(SlotType) /\ n \in Seq(SlotType)
    BY SoundFacts, NewStoreFacts
  <1>3. Len(n) = StoreSize + 1 /\ n[StoreSize + 1] = Terminator
    BY NewStoreFacts
  <1>4. x = WithStore(t, s \o n, Len(s) + 1)
    BY DEF AllocateMethodStore, WithStore
  <1>5. x.slots = s \o n /\ x.currentAllocate = Len(s) + 1 /\ x.buckets = t.buckets
    <2> DEFINE v == s \o n
               k == Len(s) + 1
    <2> HIDE DEF n, x, v, k
    <2>1. t \in TableType(c) /\ x = WithStore(t, v, k)
      BY <1>1, <1>4 DEF v, k
    <2>2. x.slots = v /\ x.currentAllocate = k /\ x.buckets = t.buckets
      BY ONLY <2>1, TableUpdate
    <2> QED BY ONLY <2>2 DEF v, k
  <1> HIDE DEF n, x
  <1>6. x.slots \in Seq(SlotType) /\ Len(x.slots) = Len(s) + (StoreSize + 1)
    <2> HIDE DEF s
    <2>1. s \o n \in Seq(SlotType) /\ Len(s \o n) = Len(s) + Len(n)
      BY ONLY <1>2, ConcatProperties
    <2> QED BY ONLY <2>1, <1>3, <1>5
  <1>7. /\ \A i \in 1 .. Len(s) : x.slots[i] = s[i]
        /\ x.slots[Len(s) + (StoreSize + 1)] = Terminator
    <2> HIDE DEF s
    <2>1. \A i \in 1 .. Len(s) + Len(n) : (s \o n)[i] = IF i =< Len(s) THEN s[i] ELSE n[i - Len(s)]
      BY ONLY <1>2, ConcatProperties
    <2>2. /\ Len(s) + (StoreSize + 1) \in 1 .. Len(s) + Len(n) /\ Len(s) + (StoreSize + 1) > Len(s)
          /\ Len(s) + (StoreSize + 1) - Len(s) = StoreSize + 1
      BY ONLY <1>1, <1>3
    <2>3. x.slots[Len(s) + (StoreSize + 1)] = Terminator
      BY ONLY <1>1, <1>3, <1>5, <2>1, <2>2
    <2>4. \A i \in 1 .. Len(s) : x.slots[i] = s[i]
      BY ONLY <1>1, <1>3, <1>5, <2>1
    <2> QED BY <2>3, <2>4
  <1>8. x \in TableType(c)
    <2>1. s \o n \in Seq(SlotType) /\ Len(s) + 1 \in Nat
      BY <1>1, <1>5, <1>6
    <2> QED BY <1>1, <1>4, <2>1, TableUpdate
  <1> DEFINE L == Len(s)
             X == Len(x.slots)
             y == x.currentAllocate
  <1>9. L \in Nat /\ StoreSize \in Nat /\ X = L + (StoreSize + 1) /\ y = L + 1
    BY <1>1, <1>5, <1>6
  <1>10. Shaped(x)
    <2>1. x.slots[X] = Terminator
      BY <1>6, <1>7
    <2> HIDE DEF s, L, X, y
    <2>2. StoreSize + 1 =< X /\ X - StoreSize =< y /\ y =< X
      BY <1>9
    <2> QED BY <2>1, <2>2 DEF Shaped, X, y
  <1>11. KeepsEntries(t, x)
    <2>1. ASSUME NEW i \in 1 .. L - 1 PROVE Settled(x, i) /\ x.slots[i] = s[i]
      <3>1. x.slots[i] = s[i]
        BY <1>7, <1>9
      <3> HIDE DEF s, L, X, y
      <3>2. i > X - StoreSize - 1 => i < y
        BY <1>9
      <3> QED BY <3>1, <3>2 DEF Settled, X, y
    <2>2. L =< X
      <3> HIDE DEF s, L, X, y
      <3> QED BY <1>9
    <2> QED BY <2>1, <2>2 DEF KeepsEntries
  <1>12. Sound(c, x) /\ SameContent(t, x)
    BY <1>5, <1>8, <1>10, <1>11, EntriesKept
  <1>13. y + StoreSize = X
    <2> HIDE DEF s, L, X, y
    <2> QED BY <1>9
  <1> QED BY <1>11, <1>12, <1>13 DEF x

-----------------------------------------------------------------------------
(***************************************************************************)
(* Preparing an entry                                                      *)
(***************************************************************************)

\* The entries of a bucket that is not empty: of different methods, the last
\* one tagged.
GoodEntries(E) ==
  /\ E \in Seq(SlotType) /\ Len(E) \in Nat /\ Len(E) >= 1
  /\ E[Len(E)].tagged
  /\ \A i \in 1 .. Len(E) : E[i].meta # None /\ (i < Len(E) => ~E[i].tagged)
  /\ \A i, j \in 1 .. Len(E) : E[i].meta = E[j].meta => i = j

LEMMA EntriesGood ==
    ASSUME NEW c \in Caches, NEW t, Sound(c, t), NEW b \in DOMAIN t.buckets,
           t.buckets[b] # EmptyBucket
    PROVE  GoodEntries(Entries(t, b))
  <1>1. CASE t.buckets[b].chain = 0
    <2>1. t.buckets[b] \in BucketType /\ GoodSingle(t.buckets[b].entry)
      BY <1>1, SoundFacts DEF Sound, SinglesGood
    <2>2. t.buckets[b].entry # Empty
      BY <1>1, <2>1 DEF BucketType, EmptyBucket, Bucket
    <2> DEFINE s == t.buckets[b].entry
    <2>3. s \in SlotType /\ s.meta # None /\ s.tagged
      BY <2>1, <2>2 DEF GoodSingle, BucketType
    <2>4. Entries(t, b) = << s >>
      BY <1>1, SingleEntry
    <2> HIDE DEF s
    <2> QED BY <2>3, <2>4 DEF GoodEntries
  <1>2. CASE t.buckets[b].chain # 0
    <2> DEFINE a == t.buckets[b].chain
               e == ChainEnd(t, a)
               E == Entries(t, b)
    <2>1. b \in ChainBuckets(t)
      BY <1>2, SoundFacts
    <2>2. /\ GoodChain(t, a, e) /\ Linked(t, a, e) /\ a \in Nat /\ e \in Nat /\ a < e
          /\ E \in Seq(SlotType) /\ Len(E) = e - a + 1
          /\ \A i \in 1 .. Len(E) : E[i] = Nth(t, a, i)
      BY <2>1, ChainFacts
    <2> HIDE DEF a, e, E
    <2>3. Len(E) \in Nat /\ Len(E) >= 1
      BY <2>2
    <2>4. \A i \in 1 .. Len(E) : a + i - 1 \in a .. e /\ E[i] = t.slots[a + i - 1]
      BY <2>2 DEF Nth
    <2>5. E[Len(E)].tagged
      <3>1. a + Len(E) - 1 = e /\ Len(E) \in 1 .. Len(E)
        BY <2>2, <2>3
      <3> QED BY <2>2, <2>4, <3>1 DEF Linked
    <2>6. \A i \in 1 .. Len(E) : E[i].meta # None /\ (i < Len(E) => ~E[i].tagged)
      <3> SUFFICES ASSUME NEW i \in 1 .. Len(E)
                   PROVE  E[i].meta # None /\ (i < Len(E) => ~E[i].tagged)
        OBVIOUS
      <3>1. i < Len(E) => a + i - 1 < e
        BY <2>2
      <3> QED BY <2>2, <2>4, <3>1 DEF Linked
    <2>7. \A i, j \in 1 .. Len(E) : E[i].meta = E[j].meta => i = j
      <3> SUFFICES ASSUME NEW i \in 1 .. Len(E), NEW j \in 1 .. Len(E), E[i].meta = E[j].meta
                   PROVE  i = j
        OBVIOUS
      <3>0. \A p, q \in a .. e : t.slots[p].meta = t.slots[q].meta => p = q
        BY <2>2 DEF GoodChain
      <3>1. a + i - 1 = a + j - 1
        <4> DEFINE p == a + i - 1
                   q == a + j - 1
        <4>1. p \in a .. e /\ q \in a .. e /\ E[i] = t.slots[p] /\ E[j] = t.slots[q]
          BY <2>4
        <4> HIDE DEF p, q
        <4>2. p = q
          BY <3>0, <4>1
        <4> QED BY <4>2 DEF p, q
      <3> QED BY <2>2, <3>1
    <2>8. GoodEntries(E)
      BY <2>2, <2>3, <2>5, <2>6, <2>7 DEF GoodEntries
    <2> QED BY <2>8 DEF E
  <1> QED BY <1>1, <1>2

\* Entries written at the allocation point.
LEMMA ChainWritten ==
    ASSUME NEW c \in Caches, NEW t, Sound(c, t), NEW new \in Seq(SlotType),
           Fits(t, Len(new))
    PROVE  LET u == Writing(t, new)
           IN /\ Sound(c, u) /\ SameContent(t, u) /\ KeepsEntries(t, u)
              /\ u.currentAllocate = t.currentAllocate + Len(new)
              /\ Len(u.slots) = Len(t.slots)
              /\ \A i \in 1 .. Len(new) : Nth(u, t.currentAllocate, i) = new[i]
  <1> DEFINE L == Len(t.slots)
             y == t.currentAllocate
             k == Len(new)
             s == [i \in 1 .. L |-> IF i \in y .. y + k - 1 THEN new[i - y + 1] ELSE t.slots[i]]
             u == Writing(t, new)
  <1>1. t \in TableType(c)
    BY SoundFacts
  <1>2. L \in Nat /\ y \in Nat /\ k \in Nat /\ StoreSize \in Nat
    BY SoundFacts, StoreAssumption, LenProperties
  <1>3. StoreSize + 1 =< L /\ L - StoreSize =< y /\ y =< L /\ t.slots[L] = Terminator
    BY SoundFacts DEF Shaped
  <1>4. y + k =< L
    BY DEF Fits, MethodStoreEnd
  <1>5. u = WithStore(t, s, y + k)
    BY DEF Writing, WithStore
  <1>6. /\ \A i \in 1 .. L : t.slots[i] \in SlotType
        /\ \A i \in 1 .. k : new[i] \in SlotType
    BY SoundFacts, ElementOfSeq
  <1>7. s \in Seq(SlotType) /\ Len(s) = L
    <2>0. s = [i \in 1 .. L |-> IF i \in y .. y + k - 1 THEN new[i - y + 1] ELSE t.slots[i]]
      OBVIOUS
    <2> HIDE DEF L, y, k, s, u
    <2>1. s \in [1 .. L -> SlotType]
      <3>1. ASSUME NEW i \in 1 .. L
            PROVE  (IF i \in y .. y + k - 1 THEN new[i - y + 1] ELSE t.slots[i]) \in SlotType
        <4>1. CASE i \in y .. y + k - 1
          <5>1. i - y + 1 \in 1 .. k
            BY <1>2, <4>1
          <5> QED BY <1>6, <4>1, <5>1
        <4> QED BY <1>6, <4>1
      <3> QED BY <2>0, <3>1
    <2> HIDE DEF s
    <2> QED BY <1>2, <2>1
  <1>8. /\ \A i \in 1 .. L : i \notin y .. y + k - 1 => s[i] = t.slots[i]
        /\ \A i \in 1 .. k : s[y + i - 1] = new[i]
    <2>0. s = [i \in 1 .. L |-> IF i \in y .. y + k - 1 THEN new[i - y + 1] ELSE t.slots[i]]
      OBVIOUS
    <2> HIDE DEF L, y, k, s, u
    <2>1. ASSUME NEW i \in 1 .. k PROVE s[y + i - 1] = new[i]
      <3>1. y + i - 1 \in 1 .. L /\ y + i - 1 \in y .. y + k - 1 /\ (y + i - 1) - y + 1 = i
        BY <1>2, <1>3, <1>4
      <3> QED BY <2>0, <3>1
    <2> QED BY <2>0, <2>1
  <1> HIDE DEF s
  <1>9. /\ u.slots = s /\ u.currentAllocate = y + k /\ u.buckets = t.buckets
        /\ u \in TableType(c)
    <2> HIDE DEF u, y, k
    <2> DEFINE n == y + k
    <2>1. n \in Nat /\ u = WithStore(t, s, n)
      BY <1>2, <1>5
    <2> HIDE DEF n
    <2>2. u.slots = s /\ u.currentAllocate = n /\ u.buckets = t.buckets /\ u \in TableType(c)
      BY ONLY <1>1, <1>7, <2>1, TableUpdate
    <2> QED BY <2>2 DEF n
  <1>10. Len(u.slots) = L
    BY <1>7, <1>9
  <1> DEFINE z == u.currentAllocate
             X == Len(u.slots)
  <1>11. z = y + k /\ X = L
    BY <1>9, <1>10
  <1>12. Shaped(u)
    <2> HIDE DEF L, y, k, s, u, z, X
    <2>1. L \in 1 .. L /\ L \notin y .. y + k - 1
      BY <1>2, <1>3, <1>4
    <2>2. u.slots[X] = Terminator
      BY <1>3, <1>8, <1>9, <1>11, <2>1
    <2>3. StoreSize + 1 =< X /\ X - StoreSize =< z /\ z =< X
      BY <1>2, <1>3, <1>4, <1>11
    <2> QED BY <2>2, <2>3 DEF Shaped, z, X
  <1>13. KeepsEntries(t, u)
    <2> HIDE DEF L, y, k, s, u, z, X
    <2>1. ASSUME NEW i \in 1 .. L - 1, i > L - StoreSize - 1 => i < y
          PROVE  (i > X - StoreSize - 1 => i < z) /\ u.slots[i] = t.slots[i]
      <3>1. i \in 1 .. L /\ i \notin y .. y + k - 1
        BY <1>2, <1>3, <2>1
      <3>2. i > X - StoreSize - 1 => i < z
        BY <1>2, <1>3, <1>11, <2>1
      <3> QED BY <1>8, <1>9, <3>1, <3>2
    <2>2. L =< X
      BY <1>2, <1>11
    <2> QED BY <2>1, <2>2 DEF KeepsEntries, Settled, L, X, y, z
  <1>14. Sound(c, u) /\ SameContent(t, u)
    BY <1>9, <1>12, <1>13, EntriesKept
  <1>15. \A i \in 1 .. k : Nth(u, y, i) = new[i]
    BY <1>8, <1>9 DEF Nth
  <1> HIDE DEF u
  <1> QED BY <1>9, <1>10, <1>13, <1>14, <1>15 DEF u

\* A new chain, behind all others in the last store.
LEMMA FreshlyWritten ==
    ASSUME NEW c \in Caches, NEW t, Sound(c, t), NEW b \in DOMAIN t.buckets,
           t.buckets[b] # EmptyBucket, NEW m \in Metas,
           Fits(t, Len(<< Slot(m, FALSE) >> \o Entries(t, b)))
    PROVE  LET u == Writing(t, << Slot(m, FALSE) >> \o Entries(t, b))
           IN /\ Sound(c, u) /\ SameContent(t, u) /\ KeepsEntries(t, u)
              /\ FreshChain(u, b, m, t.currentAllocate)
              /\ t.currentAllocate \in Nat /\ t.currentAllocate > 0
  <1> DEFINE E == Entries(t, b)
             new == << Slot(m, FALSE) >> \o E
             u == Writing(t, new)
             n == t.currentAllocate
             k == Len(E)
             L == Len(t.slots)
  <1>1. GoodEntries(E)
    BY EntriesGood
  <1>2. E \in Seq(SlotType) /\ k \in Nat /\ k >= 1
    BY <1>1 DEF GoodEntries
  <1>3. Slot(m, FALSE) \in SlotType /\ Slot(m, FALSE).meta = m /\ ~Slot(m, FALSE).tagged /\ m # None
    BY SlotTypes, MetasAssumption
  <1>4. /\ new \in Seq(SlotType) /\ Len(new) = k + 1 /\ new[1] = Slot(m, FALSE)
        /\ \A i \in 1 .. k : new[i + 1] = E[i]
    <2> DEFINE x == Slot(m, FALSE)
    <2>1. x \in SlotType
      BY <1>3
    <2> DEFINE w == << x >>
    <2> HIDE DEF E, x
    <2>2. w \in Seq(SlotType) /\ Len(w) = 1 /\ w[1] = x
      BY <2>1
    <2> HIDE DEF w
    <2>3. /\ w \o E \in Seq(SlotType) /\ Len(w \o E) = Len(w) + Len(E)
          /\ \A i \in 1 .. Len(w) + Len(E) : (w \o E)[i] = IF i =< Len(w) THEN w[i] ELSE E[i - Len(w)]
      BY ONLY <1>2, <2>2, ConcatProperties
    <2>4. Len(w \o E) = k + 1 /\ (w \o E)[1] = x
      BY <1>2, <2>2, <2>3
    <2>5. ASSUME NEW i \in 1 .. k PROVE (w \o E)[i + 1] = E[i]
      <3>1. i + 1 \in 1 .. Len(w) + Len(E) /\ ~(i + 1 =< Len(w)) /\ (i + 1) - Len(w) = i
        BY <1>2, <2>2
      <3> QED BY <2>3, <3>1
    <2> QED BY <2>3, <2>4, <2>5 DEF x, w
  <1>5. Fits(t, Len(new))
    OBVIOUS
  <1>6. u = Writing(t, << Slot(m, FALSE) >> \o Entries(t, b))
    OBVIOUS
  <1>7. /\ Sound(c, u) /\ SameContent(t, u) /\ KeepsEntries(t, u)
        /\ u.currentAllocate = n + Len(new) /\ Len(u.slots) = Len(t.slots)
        /\ \A i \in 1 .. Len(new) : Nth(u, n, i) = new[i]
    <2> HIDE DEF new
    <2> QED BY <1>4, <1>5, ChainWritten
  <1> HIDE DEF u, new, E
  <1>8. u.buckets = t.buckets /\ Entries(u, b) = E /\ ChainBuckets(u) = ChainBuckets(t)
    BY <1>7 DEF SameContent, E
  <1>9. n \in Nat /\ L \in Nat /\ n > 0 /\ L - StoreSize =< n /\ StoreSize \in Nat
        /\ StoreSize + 1 =< L
    BY SoundFacts, StoreAssumption DEF Shaped
  <1>10. n + (k + 1) =< L
    BY <1>4, <1>5 DEF Fits, MethodStoreEnd
  <1>11. /\ u.slots[n] = Slot(m, FALSE)
         /\ \A i \in 1 .. k : u.slots[n + i] = E[i]
    <2> HIDE DEF n, k
    <2>1. u.slots[n + 1 - 1] = Slot(m, FALSE)
      <3>1. 1 \in 1 .. Len(new)
        BY <1>2, <1>4
      <3> QED BY <1>4, <1>7, <3>1 DEF Nth
    <2>2. n + 1 - 1 = n
      BY <1>9
    <2>3. ASSUME NEW i \in 1 .. k PROVE u.slots[n + i] = E[i]
      <3>1. i + 1 \in 1 .. Len(new) /\ n + (i + 1) - 1 = n + i
        BY <1>2, <1>4, <1>9
      <3>2. u.slots[n + (i + 1) - 1] = new[i + 1]
        BY <1>7, <3>1 DEF Nth
      <3> QED BY <1>4, <3>1, <3>2
    <2> QED BY <2>1, <2>2, <2>3
  <1>12. Linked(u, n, n + k)
    <2>1. Len(u.slots) = L
      BY <1>7
    <2> HIDE DEF n, k, L
    <2>2. n \in Nat /\ n + k \in Nat /\ 1 =< n /\ n =< n + k /\ n + k < L
      BY <1>2, <1>9, <1>10
    <2>3. u.slots[n + k].tagged
      <3>1. k \in 1 .. k
        BY <1>2
      <3> QED BY <1>1, <1>11, <3>1 DEF GoodEntries, k
    <2>4. ASSUME NEW i \in n .. n + k
          PROVE  u.slots[i].meta # None /\ (i < n + k => ~u.slots[i].tagged)
      <3>1. CASE i = n
        BY <1>3, <1>11, <3>1
      <3>2. CASE i # n
        <4>1. i - n \in 1 .. k /\ n + (i - n) = i /\ (i < n + k => i - n < k)
          BY <1>2, <1>9, <3>2
        <4>2. u.slots[i] = E[i - n]
          BY <1>11, <4>1
        <4> QED BY <1>1, <4>1, <4>2 DEF GoodEntries, k
      <3> QED BY <3>1, <3>2
    <2> QED BY <2>1, <2>2, <2>3, <2>4 DEF Linked
  <1>13. Settled(u, n + k)
    <2> DEFINE z == u.currentAllocate
    <2>1. z = n + (k + 1)
      BY <1>4, <1>7
    <2> HIDE DEF n, k, z
    <2>2. n + k < z
      BY <1>2, <1>9, <2>1
    <2> QED BY <2>2 DEF Settled, z
  <1>14. ASSUME NEW d \in ChainBuckets(u)
         PROVE  SlotsOf(u, u.buckets[d].chain) \cap (n .. n + k) = {}
    <2> DEFINE a == t.buckets[d].chain
               e == ChainEnd(t, a)
    <2>1. SlotsOf(u, u.buckets[d].chain) = a .. e
      BY <1>7, <1>8, ChainFacts DEF SameContent
    <2>2. a \in Nat /\ e \in Nat /\ Settled(t, e)
      BY <1>8, ChainFacts DEF GoodChain
    <2>3. e < n
      <3>1. e > L - StoreSize - 1 => e < n
        BY <2>2 DEF Settled
      <3> HIDE DEF n, L, e
      <3> QED BY <1>9, <2>2, <3>1
    <2> HIDE DEF n, a, e, k
    <2> QED BY <1>2, <1>9, <2>1, <2>2, <2>3
  <1>15. u.buckets[b] # EmptyBucket
    BY <1>8
  <1>16. FreshChain(u, b, m, n)
    BY <1>8, <1>11, <1>12, <1>13, <1>14, <1>15 DEF FreshChain
  <1> QED BY <1>6, <1>7, <1>9, <1>16

\* The end of a chain copied behind it.
LEMMA ChainExtended ==
    ASSUME NEW c \in Caches, NEW t, Sound(c, t), NEW b \in DOMAIN t.buckets, NEW m,
           RoomBehind(t, t.buckets[b].chain)
    PROVE  LET u == ExtendChain(t, t.buckets[b].chain, m)
               e == ChainEnd(t, t.buckets[b].chain)
           IN /\ Sound(c, u) /\ SameContent(t, u) /\ KeepsEntries(t, u)
              /\ SecondEnd(u, b, e) /\ e \in Nat /\ e > 0
  <1> DEFINE a == t.buckets[b].chain
             e == ChainEnd(t, a)
             u == ExtendChain(t, a, m)
             L == Len(t.slots)
             y == t.currentAllocate
             s == [t.slots EXCEPT ![e + 1] = t.slots[e]]
             z == IF e + 1 = y THEN y + 1 ELSE y
  <1>1. b \in ChainBuckets(t) /\ a # 0 /\ t.slots[e + 1] = Empty
    BY SoundFacts DEF RoomBehind
  <1>2. /\ GoodChain(t, a, e) /\ Linked(t, a, e) /\ SlotsOf(t, a) = a .. e
        /\ a \in Nat /\ e \in Nat /\ 1 =< a /\ a < e /\ e < L
    BY <1>1, ChainFacts
  <1>3. t \in TableType(c) /\ t.slots \in Seq(SlotType) /\ L \in Nat /\ y \in Nat
        /\ StoreSize \in Nat /\ StoreSize + 1 =< L /\ L - StoreSize =< y /\ y =< L
        /\ t.slots[L] = Terminator
    BY SoundFacts, StoreAssumption DEF Shaped
  <1>4. e + 1 < L
    <2>1. e + 1 # L
      BY <1>1, <1>3, SlotTypes
    <2> HIDE DEF e, L
    <2> QED BY <1>2, <1>3, <2>1
  <1>5. e > L - StoreSize - 1 => e < y
    BY <1>2 DEF GoodChain, Settled
  <1>6. u = WithStore(t, s, z)
    BY DEF ExtendChain, WithStore
  <1>7. /\ s \in Seq(SlotType) /\ Len(s) = L /\ s[e + 1] = t.slots[e]
        /\ \A i \in 1 .. L : i # e + 1 => s[i] = t.slots[i]
    <2> DEFINE x == t.slots
    <2>1. x \in Seq(SlotType) /\ e \in 1 .. Len(x) /\ e + 1 \in 1 .. Len(x) /\ s = [x EXCEPT ![e + 1] = x[e]]
      BY <1>2, <1>3, <1>4
    <2>2. x[e] \in SlotType
      BY <2>1, ElementOfSeq
    <2> HIDE DEF e, s, x
    <2>3. /\ s \in Seq(SlotType) /\ Len(s) = Len(x) /\ s[e + 1] = x[e]
          /\ \A i \in 1 .. Len(x) : i # e + 1 => s[i] = x[i]
      BY <2>1, <2>2
    <2> QED BY <2>3 DEF x
  <1> HIDE DEF s
  <1>8. z \in Nat
    BY <1>3
  <1>9. u.slots = s /\ u.currentAllocate = z /\ u.buckets = t.buckets /\ u \in TableType(c)
    <2> HIDE DEF z, u
    <2> QED BY <1>3, <1>6, <1>7, <1>8, TableUpdate
  <1>10. e + 1 > L - StoreSize - 1 => e + 1 < z
    <2> HIDE DEF e, L, y
    <2> QED BY <1>2, <1>3, <1>4, <1>5
  <1>11. L - StoreSize =< z /\ z =< L /\ y =< z
    <2> HIDE DEF e, L, y
    <2> QED BY <1>2, <1>3, <1>4
  <1> HIDE DEF u, z
  <1>12. Shaped(u)
    <2>1. s[L] = Terminator
      <3>1. L \in 1 .. L /\ L # e + 1
        BY <1>2, <1>3, <1>4
      <3> QED BY <1>3, <1>7, <3>1
    <2> QED BY <1>3, <1>7, <1>9, <1>11, <2>1 DEF Shaped
  <1>13. KeepsEntries(t, u)
    <2>1. Len(u.slots) = L
      BY <1>7, <1>9
    <2>2. ASSUME NEW i \in 1 .. L - 1, i > L - StoreSize - 1 => i < y
          PROVE  (i > L - StoreSize - 1 => i < z) /\ (t.slots[i].meta # None => s[i] = t.slots[i])
      <3>1. i > L - StoreSize - 1 => i < z
        <4> HIDE DEF L, y
        <4> QED BY <1>3, <1>8, <1>11, <2>2
      <3>2. t.slots[i].meta # None => i # e + 1
        BY <1>1, SlotTypes
      <3>3. i \in 1 .. L
        BY <1>3
      <3> QED BY <1>7, <3>1, <3>2, <3>3
    <2> QED BY <1>3, <1>9, <2>1, <2>2 DEF KeepsEntries, Settled
  <1>14. Sound(c, u) /\ SameContent(t, u)
    BY <1>9, <1>12, <1>13, EntriesKept
  <1>15. SecondEnd(u, b, e)
    <2>1. b \in ChainBuckets(u) /\ e = ChainEnd(u, u.buckets[b].chain)
      BY <1>1, <1>14 DEF SameContent
    <2>2. Len(u.slots) = L
      BY <1>7, <1>9
    <2>3. e + 1 < Len(u.slots) /\ Settled(u, e + 1)
      BY <1>4, <1>9, <1>10, <2>2 DEF Settled
    <2>4. u.slots[e + 1] = u.slots[e]
      <3>1. e \in 1 .. L /\ e # e + 1
        BY <1>2, <1>3
      <3> QED BY <1>7, <1>9, <3>1
    <2>5. ASSUME NEW d \in ChainBuckets(u) PROVE e + 1 \notin SlotsOf(u, u.buckets[d].chain)
      <3> DEFINE p == t.buckets[d].chain
                 q == ChainEnd(t, p)
      <3>1. SlotsOf(u, u.buckets[d].chain) = p .. q /\ Linked(t, p, q)
        BY <1>14, ChainFacts DEF SameContent
      <3>2. \A i \in p .. q : t.slots[i].meta # None
        BY <3>1 DEF Linked
      <3> QED BY <1>1, <3>1, <3>2, SlotTypes
    <2> QED BY <2>1, <2>3, <2>4, <2>5 DEF SecondEnd
  <1>16. u = ExtendChain(t, t.buckets[b].chain, m)
    BY DEF u
  <1> QED BY <1>2, <1>13, <1>14, <1>15, <1>16

-----------------------------------------------------------------------------
(***************************************************************************)
(* Publishing an entry                                                     *)
(***************************************************************************)

\* Bucket b has method m more.
Adds(t, u, b, m) ==
  \A d \in DOMAIN t.buckets, n \in Metas : Holds(u, d, n) <=> Holds(t, d, n) \/ (d = b /\ n = m)

\* A search in t is one in u that has the same methods before it.
PathsGrow(t, u) ==
  \A p, q : Linked(t, p, q) /\ Settled(t, q) =>
    \E r \in Nat : /\ Linked(u, p, r) /\ Settled(u, r)
                   /\ \A n : InSlots(t, p, q, n) => InSlots(u, p, r, n)

\* The slots are the same.
LEMMA SameStore ==
    ASSUME NEW c \in Caches, NEW t, Sound(c, t), NEW f,
           f \in [0 .. DetermineBucket(c, c.end) -> BucketType]
    PROVE  LET u == WithBuckets(t, f)
           IN /\ u \in TableType(c) /\ Shaped(u) /\ KeepsSettled(t, u) /\ PathsGrow(t, u)
              /\ u.slots = t.slots /\ u.currentAllocate = t.currentAllocate /\ u.buckets = f
              /\ \A a, e : Linked(u, a, e) <=> Linked(t, a, e)
              /\ \A i : Settled(u, i) <=> Settled(t, i)
  <1> DEFINE u == WithBuckets(t, f)
  <1>1. t \in TableType(c) /\ Shaped(t) /\ Len(t.slots) \in Nat
    BY SoundFacts
  <1>2. /\ u.slots = t.slots /\ u.currentAllocate = t.currentAllocate /\ u.buckets = f
        /\ u \in TableType(c)
    <2> HIDE DEF u
    <2>1. u = WithBuckets(t, f)
      BY DEF u
    <2> QED BY ONLY <1>1, <2>1, BucketsUpdate, f \in [0 .. DetermineBucket(c, c.end) -> BucketType]
  <1> HIDE DEF u
  <1>3. Shaped(u)
    BY <1>1, <1>2 DEF Shaped
  <1>4. \A i : Settled(u, i) <=> Settled(t, i)
    BY <1>2 DEF Settled
  <1>5. \A a, e : Linked(u, a, e) <=> Linked(t, a, e)
    BY <1>2 DEF Linked
  <1>6. KeepsSettled(t, u)
    BY <1>1, <1>2, <1>4 DEF KeepsSettled
  <1>7. PathsGrow(t, u)
    <2> SUFFICES ASSUME NEW p, NEW q, Linked(t, p, q), Settled(t, q)
                 PROVE  \E r \in Nat : /\ Linked(u, p, r) /\ Settled(u, r)
                                       /\ \A n : InSlots(t, p, q, n) => InSlots(u, p, r, n)
      BY DEF PathsGrow
    <2>1. q \in Nat
      BY DEF Linked
    <2>2. \A n : InSlots(t, p, q, n) => InSlots(u, p, q, n)
      BY <1>2 DEF InSlots
    <2> QED BY <1>4, <1>5, <2>1, <2>2
  <1> QED BY <1>2, <1>3, <1>4, <1>5, <1>6, <1>7 DEF u

\* The first entry of a bucket.
LEMMA SinglePublished ==
    ASSUME NEW c \in Caches, NEW t, Sound(c, t), NEW b \in DOMAIN t.buckets, NEW m \in Metas,
           t.buckets[b] = EmptyBucket
    PROVE  LET u == [t EXCEPT !.buckets = [t.buckets EXCEPT ![b] = Bucket(Slot(m, TRUE), 0)]]
           IN Sound(c, u) /\ Adds(t, u, b, m) /\ PathsGrow(t, u)
  <1> DEFINE x == Bucket(Slot(m, TRUE), 0)
             f == [t.buckets EXCEPT ![b] = x]
             u == WithBuckets(t, f)
  <1>0. u = [t EXCEPT !.buckets = [t.buckets EXCEPT ![b] = Bucket(Slot(m, TRUE), 0)]]
    BY DEF WithBuckets
  <1>1. /\ t.buckets \in [0 .. DetermineBucket(c, c.end) -> BucketType]
        /\ DOMAIN t.buckets = 0 .. DetermineBucket(c, c.end)
    BY SoundFacts DEF TableType
  <1>2. /\ x \in BucketType /\ x.chain = 0 /\ x.entry.meta = m /\ x.entry.tagged /\ m # None
        /\ GoodSingle(x.entry)
    BY MetasAssumption DEF BucketType, SlotType, Bucket, Slot, GoodSingle
  <1> HIDE DEF x
  <1>3. /\ f \in [0 .. DetermineBucket(c, c.end) -> BucketType]
        /\ f[b] = x /\ \A d \in DOMAIN t.buckets : d # b => f[d] = t.buckets[d]
    BY <1>1, <1>2
  <1> HIDE DEF f
  <1>4. /\ u \in TableType(c) /\ Shaped(u) /\ KeepsSettled(t, u) /\ PathsGrow(t, u)
        /\ u.slots = t.slots /\ u.buckets = f
    BY <1>3, SameStore
  <1> HIDE DEF u
  <1>5. /\ u.buckets[b].chain = 0 /\ GoodSingle(u.buckets[b].entry)
        /\ \A d \in DOMAIN t.buckets : d # b => u.buckets[d] = t.buckets[d]
        /\ \A d \in ChainBuckets(t) : d # b =>
             \A i \in SlotsOf(t, t.buckets[d].chain) : u.slots[i] = t.slots[i]
    BY <1>2, <1>3, <1>4
  <1>6. b \notin ChainBuckets(u)
    BY <1>5 DEF ChainBuckets
  <1>7. /\ Sound(c, u)
        /\ \A d \in DOMAIN t.buckets : d # b => \A n : Holds(u, d, n) <=> Holds(t, d, n)
    BY <1>4, <1>5, <1>6, StaysSound
  <1>8. \A n \in Metas : ~Holds(t, b, n)
    <2>1. t.buckets[b].chain = 0 /\ t.buckets[b].entry.meta = None
      BY SlotTypes
    <2> QED BY <2>1, SingleEntry, MetasAssumption
  <1>9. \A n \in Metas : Holds(u, b, n) <=> n = m
    <2>1. u.buckets[b].chain = 0 /\ u.buckets[b].entry.meta = m
      BY <1>2, <1>3, <1>4
    <2> QED BY <2>1, SingleEntry
  <1>10. Adds(t, u, b, m)
    BY <1>7, <1>8, <1>9 DEF Adds
  <1> QED BY <1>0, <1>4, <1>7, <1>10

\* The bucket's entry becomes the address of a new chain.
LEMMA ChainPublished ==
    ASSUME NEW c \in Caches, NEW t, Sound(c, t), NEW b \in DOMAIN t.buckets, NEW m \in Metas,
           ~Holds(t, b, m), NEW n, FreshChain(t, b, m, n)
    PROVE  LET u == [t EXCEPT !.buckets = [t.buckets EXCEPT ![b] = Bucket(Empty, n)]]
           IN Sound(c, u) /\ Adds(t, u, b, m) /\ PathsGrow(t, u)
  <1> DEFINE x == Bucket(Empty, n)
             f == [t.buckets EXCEPT ![b] = x]
             u == WithBuckets(t, f)
             E == Entries(t, b)
             k == Len(E)
             e == n + k
  <1>0. u = [t EXCEPT !.buckets = [t.buckets EXCEPT ![b] = Bucket(Empty, n)]]
    BY DEF WithBuckets
  <1>1. /\ t.buckets \in [0 .. DetermineBucket(c, c.end) -> BucketType]
        /\ DOMAIN t.buckets = 0 .. DetermineBucket(c, c.end)
    BY SoundFacts DEF TableType
  <1>2. /\ t.buckets[b] # EmptyBucket /\ Linked(t, n, e) /\ Settled(t, e)
        /\ t.slots[n] = Slot(m, FALSE) /\ \A i \in 1 .. k : t.slots[n + i] = E[i]
        /\ \A d \in ChainBuckets(t) : SlotsOf(t, t.buckets[d].chain) \cap (n .. e) = {}
    BY DEF FreshChain
  <1>3. GoodEntries(E)
    BY <1>2, EntriesGood
  <1>4. k \in Nat /\ k >= 1 /\ n \in Nat /\ n >= 1 /\ e \in Nat /\ n < e
    BY <1>2, <1>3 DEF GoodEntries, Linked
  <1>5. x \in BucketType /\ x.chain = n /\ n # 0
    BY <1>4, SlotTypes DEF BucketType, Bucket
  <1> HIDE DEF x, E, k
  <1>6. /\ f \in [0 .. DetermineBucket(c, c.end) -> BucketType]
        /\ f[b] = x /\ \A d \in DOMAIN t.buckets : d # b => f[d] = t.buckets[d]
    BY <1>1, <1>5
  <1> HIDE DEF f
  <1>7. /\ u \in TableType(c) /\ Shaped(u) /\ KeepsSettled(t, u) /\ PathsGrow(t, u)
        /\ u.slots = t.slots /\ u.buckets = f
    BY <1>6, SameStore
  <1>8. Linked(u, n, e) /\ Settled(u, e)
    BY <1>2, <1>6, SameStore
  <1> HIDE DEF u
  <1>9. /\ u.buckets[b].chain = n
        /\ \A d \in DOMAIN t.buckets : d # b => u.buckets[d] = t.buckets[d]
        /\ \A d \in ChainBuckets(t) : d # b =>
             \A i \in SlotsOf(t, t.buckets[d].chain) : u.slots[i] = t.slots[i]
    BY <1>5, <1>6, <1>7
  <1>10. Len(u.slots) \in Nat /\ u.slots \in Seq(SlotType)
    BY <1>7, SoundFacts
  <1>11. ChainEnd(u, n) = e
    <2> HIDE DEF e
    <2> QED BY <1>8, <1>10, EndOfChain
  <1>12. SlotsOf(u, u.buckets[b].chain) = n .. e
    BY <1>9, <1>11 DEF SlotsOf
  <1>13. \A i \in 1 .. k : E[i].meta # m
    BY DEF Holds, E, k
  <1>14. \A i, j \in n .. e : u.slots[i].meta = u.slots[j].meta => i = j
    <2> DEFINE M(i) == t.slots[i].meta
    <2>1. M(n) = m
      BY <1>2, SlotFields, ZenonT(40)
    <2>2. ASSUME NEW i \in n .. e, i # n PROVE i - n \in 1 .. k /\ M(i) = E[i - n].meta /\ M(i) # m
      <3>1. i - n \in 1 .. k /\ n + (i - n) = i
        BY <1>4, <2>2
      <3>2. t.slots[n + (i - n)] = E[i - n]
        BY <1>2, <3>1
      <3> QED BY <1>13, <3>1, <3>2
    <2>3. \A i, j \in 1 .. k : E[i].meta = E[j].meta => i = j
      BY <1>3 DEF GoodEntries, k
    <2> HIDE DEF M
    <2> SUFFICES ASSUME NEW i \in n .. e, NEW j \in n .. e, M(i) = M(j), i # j PROVE FALSE
      BY <1>7 DEF M
    <2>4. i # n /\ j # n
      BY <2>1, <2>2
    <2>5. i - n = j - n
      BY <2>2, <2>3, <2>4
    <2> QED BY <1>4, <2>5
  <1>15. GoodChain(u, n, e)
    BY <1>4, <1>8, <1>14 DEF GoodChain
  <1>16. /\ Sound(c, u)
         /\ \A d \in DOMAIN t.buckets : d # b => \A i : Holds(u, d, i) <=> Holds(t, d, i)
    <2>1. /\ GoodChain(u, u.buckets[b].chain, ChainEnd(u, u.buckets[b].chain))
          /\ \A d \in ChainBuckets(t) : d # b =>
               SlotsOf(t, t.buckets[d].chain) \cap SlotsOf(u, u.buckets[b].chain) = {}
      BY <1>2, <1>9, <1>11, <1>12, <1>15
    <2>2. u.buckets[b].chain # 0
      BY <1>5, <1>9
    <2> QED BY <1>7, <1>9, <2>1, <2>2, StaysSound
  <1>17. ASSUME NEW i \in Metas PROVE Holds(u, b, i) <=> Holds(t, b, i) \/ i = m
    <2>1. Holds(u, b, i) <=> InSlots(u, n, e, i)
      <3> HIDE DEF e
      <3> QED BY <1>5, <1>8, <1>9, <1>10, ChainHolds
    <2>2. Holds(t, b, i) <=> \E j \in 1 .. k : E[j].meta = i
      BY DEF Holds, E, k
    <2>3. InSlots(u, n, e, i) <=> \E j \in n .. e : t.slots[j].meta = i
      BY <1>7 DEF InSlots
    <2>0. t.slots[n].meta = m
      BY <1>2, SlotFields, ZenonT(40)
    <2>4. t.slots[n].meta = m /\ n \in n .. e
      BY <1>4, <2>0
    <2>5. ASSUME NEW j \in 1 .. k, E[j].meta = i PROVE \E q \in n .. e : t.slots[q].meta = i
      <3>1. n + j \in n .. e
        BY <1>4
      <3> QED BY <1>2, <2>5, <3>1
    <2>6. ASSUME NEW q \in n .. e, t.slots[q].meta = i, q # n PROVE \E j \in 1 .. k : E[j].meta = i
      <3>1. q - n \in 1 .. k /\ n + (q - n) = q
        BY <1>4, <2>6
      <3>2. t.slots[n + (q - n)] = E[q - n]
        BY <1>2, <3>1
      <3> QED BY <2>6, <3>1, <3>2
    <2> QED BY <2>1, <2>2, <2>3, <2>4, <2>5, <2>6
  <1>18. Adds(t, u, b, m)
    BY <1>16, <1>17 DEF Adds
  <1> QED BY <1>0, <1>7, <1>16, <1>18

\* The old end of the chain becomes the new entry.
LEMMA EndPublished ==
    ASSUME NEW c \in Caches, NEW t, Sound(c, t), NEW b \in DOMAIN t.buckets, NEW m \in Metas,
           ~Holds(t, b, m), NEW e, SecondEnd(t, b, e)
    PROVE  LET u == [t EXCEPT !.slots = [t.slots EXCEPT ![e] = Slot(m, FALSE)]]
           IN Sound(c, u) /\ Adds(t, u, b, m) /\ PathsGrow(t, u)
  <1> DEFINE s == [t.slots EXCEPT ![e] = Slot(m, FALSE)]
             u == WithSlots(t, s)
             a == t.buckets[b].chain
             L == Len(t.slots)
  <1>0. u = [t EXCEPT !.slots = [t.slots EXCEPT ![e] = Slot(m, FALSE)]]
    BY DEF WithSlots
  <1>1. /\ b \in ChainBuckets(t) /\ e = ChainEnd(t, a) /\ e + 1 < L /\ Settled(t, e + 1)
        /\ t.slots[e + 1] = t.slots[e]
        /\ \A d \in ChainBuckets(t) : e + 1 \notin SlotsOf(t, t.buckets[d].chain)
    BY DEF SecondEnd
  <1>2. /\ GoodChain(t, a, e) /\ Linked(t, a, e) /\ SlotsOf(t, a) = a .. e
        /\ a # 0 /\ a \in Nat /\ e \in Nat /\ 1 =< a /\ a < e /\ e < L
        /\ \A i : Holds(t, b, i) <=> InSlots(t, a, e, i)
    BY <1>1, ChainFacts
  <1>3. t \in TableType(c) /\ t.slots \in Seq(SlotType) /\ L \in Nat /\ Shaped(t)
    BY SoundFacts
  <1>4. /\ s \in Seq(SlotType) /\ Len(s) = L /\ s[e] = Slot(m, FALSE)
        /\ \A i \in 1 .. L : i # e => s[i] = t.slots[i]
    <2> DEFINE x == t.slots
               v == Slot(m, FALSE)
    <2>1. x \in Seq(SlotType) /\ e \in 1 .. Len(x) /\ s = [x EXCEPT ![e] = v]
      BY <1>2, <1>3
    <2>2. v \in SlotType
      BY SlotTypes
    <2> HIDE DEF s, x, v
    <2>3. /\ s \in Seq(SlotType) /\ Len(s) = Len(x) /\ s[e] = v
          /\ \A i \in 1 .. Len(x) : i # e => s[i] = x[i]
      BY ONLY <2>1, <2>2
    <2> QED BY <2>3 DEF x, v
  <1> HIDE DEF s
  <1>5. /\ u.slots = s /\ u.currentAllocate = t.currentAllocate /\ u.buckets = t.buckets
        /\ u \in TableType(c)
    <2> HIDE DEF u
    <2>1. u = WithSlots(t, s) /\ s \in Seq(SlotType) /\ t \in TableType(c)
      BY <1>3, <1>4 DEF u
    <2> QED BY ONLY <2>1, SlotsUpdate
  <1> HIDE DEF u
  <1>6. /\ Len(u.slots) = L /\ u.slots[e] = Slot(m, FALSE) /\ u.slots \in Seq(SlotType)
        /\ \A i \in 1 .. L : i # e => u.slots[i] = t.slots[i]
    BY <1>4, <1>5
  <1>7. \A i : Settled(u, i) <=> Settled(t, i)
    BY <1>5, <1>6 DEF Settled
  <1>8. Shaped(u)
    <2>1. L \in 1 .. L /\ L # e
      BY <1>2, <1>3
    <2> QED BY <1>3, <1>5, <1>6, <2>1 DEF Shaped
  <1>9. KeepsSettled(t, u)
    BY <1>3, <1>6, <1>7 DEF KeepsSettled
  <1>m. Slot(m, FALSE).meta = m /\ ~Slot(m, FALSE).tagged /\ m # None
    BY SlotTypes, MetasAssumption
  <1>10. ASSUME NEW p, Linked(t, p, e)
         PROVE  Linked(u, p, e + 1) /\ \A i : InSlots(u, p, e + 1, i) <=> InSlots(t, p, e, i) \/ i = m
    <2>1. /\ p \in Nat /\ 1 =< p /\ p =< e /\ t.slots[e].tagged /\ t.slots[e].meta # None
          /\ \A i \in p .. e : t.slots[i].meta # None /\ (i < e => ~t.slots[i].tagged)
      BY <1>2, <1>10 DEF Linked
    <2>2. u.slots[e + 1] = t.slots[e]
      <3>1. e + 1 \in 1 .. L /\ e + 1 # e
        BY <1>1, <1>2, <1>3
      <3> QED BY <1>1, <1>6, <3>1
    <2>3. \A i \in p .. e : i # e => u.slots[i] = t.slots[i]
      BY <1>2, <1>3, <1>6, <2>1
    <2>4. Linked(u, p, e + 1)
      <3>1. p \in Nat /\ e + 1 \in Nat /\ 1 =< p /\ p =< e + 1 /\ e + 1 < Len(u.slots)
        BY <1>1, <1>2, <1>6, <2>1
      <3>2. u.slots[e + 1].tagged
        BY <2>1, <2>2
      <3>3. ASSUME NEW i \in p .. e + 1
            PROVE  u.slots[i].meta # None /\ (i < e + 1 => ~u.slots[i].tagged)
        <4>1. CASE i = e + 1
          BY <1>2, <2>1, <2>2, <4>1
        <4>2. CASE i = e
          BY <1>6, <1>m, <4>2
        <4>3. CASE i < e
          <5>1. i \in p .. e /\ i # e
            BY <1>2, <2>1, <4>3
          <5> QED BY <2>1, <2>3, <4>3, <5>1
        <4> QED BY <1>2, <2>1, <4>1, <4>2, <4>3
      <3> QED BY <3>1, <3>2, <3>3 DEF Linked
    <2>5. ASSUME NEW i, InSlots(u, p, e + 1, i) PROVE InSlots(t, p, e, i) \/ i = m
      <3>1. PICK j \in p .. e + 1 : u.slots[j].meta = i
        BY <2>5 DEF InSlots
      <3>2. e \in p .. e
        BY <1>2, <2>1
      <3>3. CASE j = e + 1
        BY <2>2, <3>1, <3>2, <3>3 DEF InSlots
      <3>4. CASE j = e
        BY <1>6, <1>m, <3>1, <3>4
      <3>5. CASE j # e + 1 /\ j # e
        <4>1. j \in p .. e
          BY <1>2, <2>1, <3>5
        <4> QED BY <2>3, <3>1, <3>5, <4>1 DEF InSlots
      <3> QED BY <3>3, <3>4, <3>5
    <2>6. ASSUME NEW i, InSlots(t, p, e, i) PROVE InSlots(u, p, e + 1, i)
      <3>1. PICK j \in p .. e : t.slots[j].meta = i
        BY <2>6 DEF InSlots
      <3>2. e + 1 \in p .. e + 1 /\ j \in p .. e + 1
        BY <1>2, <2>1
      <3>3. CASE j = e
        BY <2>2, <3>1, <3>2, <3>3 DEF InSlots
      <3>4. CASE j # e
        BY <2>3, <3>1, <3>2, <3>4 DEF InSlots
      <3> QED BY <3>3, <3>4
    <2>7. InSlots(u, p, e + 1, m)
      <3>1. e \in p .. e + 1
        BY <1>2, <2>1
      <3> QED BY <1>6, <1>m, <3>1 DEF InSlots
    <2> QED BY <2>4, <2>5, <2>6, <2>7
  <1>11. /\ Linked(u, a, e + 1) /\ \A i : InSlots(u, a, e + 1, i) <=> InSlots(t, a, e, i) \/ i = m
    <2> HIDE DEF a
    <2> QED BY <1>2, <1>10
  <1>12. ChainEnd(u, a) = e + 1
    <2> DEFINE q == e + 1
    <2>1. Linked(u, a, q) /\ Len(u.slots) \in Nat
      BY <1>3, <1>6, <1>11
    <2> HIDE DEF q, a
    <2>2. ChainEnd(u, a) = q
      BY <2>1, EndOfChain
    <2> QED BY <2>2 DEF q
  <1>13. u.buckets[b].chain = a /\ SlotsOf(u, a) = a .. e + 1
    BY <1>5, <1>12 DEF SlotsOf
  <1>14. \A i, j \in a .. e + 1 : u.slots[i].meta = u.slots[j].meta => i = j
    <2> DEFINE M(i) == u.slots[i].meta
               N(i) == t.slots[i].meta
    <2>1. \A i, j \in a .. e : N(i) = N(j) => i = j
      BY <1>2 DEF GoodChain
    <2>2. \A i \in a .. e : N(i) # m
      BY <1>2 DEF InSlots
    <2>3. M(e) = m
      BY <1>6, <1>m
    <2>4. M(e + 1) = N(e)
      <3>1. e + 1 \in 1 .. L /\ e + 1 # e
        BY <1>1, <1>2, <1>3
      <3> QED BY <1>1, <1>6, <3>1
    <2>5. \A i \in a .. e : i # e => M(i) = N(i)
      BY <1>2, <1>3, <1>6
    <2> HIDE DEF M, N, a
    <2> SUFFICES ASSUME NEW i \in a .. e + 1, NEW j \in a .. e + 1, M(i) = M(j), i < j PROVE FALSE
      <3>1. \A i, j \in a .. e + 1 : M(i) = M(j) => ~(i < j)
        OBVIOUS
      <3>2. \A i, j \in a .. e + 1 : M(i) = M(j) => i = j
        BY <1>2, <3>1
      <3> QED BY <3>2 DEF M
    <2>6. i \in a .. e /\ e \in a .. e
      BY <1>2
    <2>7. CASE j = e + 1 /\ i = e
      BY <2>2, <2>3, <2>4, <2>6, <2>7
    <2>8. CASE j = e + 1 /\ i # e
      BY <2>1, <2>4, <2>5, <2>6, <2>8
    <2>9. CASE j = e
      <3>1. i # e
        BY <1>2, <2>9
      <3> QED BY <2>2, <2>3, <2>5, <2>6, <2>9, <3>1
    <2>10. CASE j # e + 1 /\ j # e
      <3>1. j \in a .. e /\ i # e /\ i # j
        BY <1>2, <2>10
      <3> QED BY <2>1, <2>5, <2>6, <2>10, <3>1
    <2> QED BY <2>7, <2>8, <2>9, <2>10
  <1>15. GoodChain(u, a, e + 1)
    <2>1. a < e + 1 /\ Settled(u, e + 1)
      BY <1>1, <1>2, <1>7
    <2> QED BY <1>11, <1>14, <2>1 DEF GoodChain
  <1>16. ASSUME NEW d \in ChainBuckets(t), d # b
         PROVE  /\ SlotsOf(t, t.buckets[d].chain) \cap (a .. e + 1) = {}
                /\ \A i \in SlotsOf(t, t.buckets[d].chain) : u.slots[i] = t.slots[i]
    <2>1. SlotsOf(t, t.buckets[d].chain) \cap (a .. e) = {}
      BY <1>1, <1>2, <1>16 DEF Sound, ChainsApart
    <2>2. e + 1 \notin SlotsOf(t, t.buckets[d].chain) /\ a .. e + 1 = (a .. e) \cup {e + 1}
      BY <1>1, <1>2
    <2>3. SlotsOf(t, t.buckets[d].chain) \subseteq 1 .. L
      BY <1>3, ChainFacts
    <2>4. e \in a .. e
      BY <1>2
    <2>5. \A i \in SlotsOf(t, t.buckets[d].chain) : i \in 1 .. L /\ i # e
      BY <2>1, <2>3, <2>4
    <2> QED BY <1>6, <2>1, <2>2, <2>5
  <1>17. /\ Sound(c, u)
         /\ \A d \in DOMAIN t.buckets : d # b => \A i : Holds(u, d, i) <=> Holds(t, d, i)
    <2>1. /\ GoodChain(u, u.buckets[b].chain, ChainEnd(u, u.buckets[b].chain))
          /\ \A d \in ChainBuckets(t) : d # b =>
               SlotsOf(t, t.buckets[d].chain) \cap SlotsOf(u, u.buckets[b].chain) = {}
      BY <1>12, <1>13, <1>15, <1>16
    <2>2. u.buckets[b].chain # 0 /\ u.buckets = t.buckets
      BY <1>2, <1>5
    <2> QED BY <1>5, <1>8, <1>9, <1>16, <2>1, <2>2, StaysSound
  <1>18. ASSUME NEW i PROVE Holds(u, b, i) <=> Holds(t, b, i) \/ i = m
    <2> DEFINE q == e + 1
    <2>1. u.slots \in Seq(SlotType) /\ u.buckets[b].chain = a /\ a # 0 /\ Linked(u, a, q)
      BY <1>2, <1>6, <1>11, <1>13
    <2> HIDE DEF q, a
    <2>2. Holds(u, b, i) <=> InSlots(u, a, q, i)
      BY ONLY <2>1, ChainHolds
    <2> QED BY <1>2, <1>11, <2>2 DEF q
  <1>19. Adds(t, u, b, m)
    BY <1>17, <1>18 DEF Adds
  <1>20. PathsGrow(t, u)
    <2> SUFFICES ASSUME NEW p, NEW q, Linked(t, p, q), Settled(t, q)
                 PROVE  \E r \in Nat : /\ Linked(u, p, r) /\ Settled(u, r)
                                       /\ \A n : InSlots(t, p, q, n) => InSlots(u, p, r, n)
      BY DEF PathsGrow
    <2>1. /\ p \in Nat /\ q \in Nat /\ 1 =< p /\ p =< q /\ q < L /\ q \in p .. q
          /\ \A i \in p .. q : i < q => ~t.slots[i].tagged
      BY DEF Linked
    <2>2. CASE q = e
      <3>1. Linked(u, p, e + 1) /\ Settled(u, e + 1) /\ e + 1 \in Nat
        BY <1>1, <1>2, <1>7, <1>10, <2>2
      <3>2. \A n : InSlots(t, p, q, n) => InSlots(u, p, e + 1, n)
        BY <1>10, <2>2
      <3> QED BY <3>1, <3>2
    <2>3. CASE q # e
      <3>1. t.slots[e].tagged
        BY <1>2 DEF Linked
      <3>2. e \notin p .. q
        BY <1>2, <2>1, <2>3, <3>1
      <3>3. \A i \in p .. q : u.slots[i] = t.slots[i]
        BY <1>3, <1>6, <2>1, <3>2
      <3>4. Linked(u, p, q)
        BY <1>3, <1>6, <2>1, <3>3, SameChain
      <3>5. \A n : InSlots(t, p, q, n) => InSlots(u, p, q, n)
        BY <3>3 DEF InSlots
      <3> QED BY <1>7, <2>1, <3>4, <3>5
    <2> QED BY <2>2, <2>3
  <1> QED BY <1>0, <1>17, <1>19, <1>20

-----------------------------------------------------------------------------
(***************************************************************************)
(* Removing an entry                                                       *)
(***************************************************************************)

\* Bucket b has method m less.
Removes(t, u, b, m) ==
  \A d \in DOMAIN t.buckets, n \in Metas : Holds(u, d, n) <=> Holds(t, d, n) /\ ~(d = b /\ n = m)

\* The entries without the one of m.
KeptGood(E, m, k) ==
  /\ \A i \in 1 .. k : /\ Kept(E, m, i) \in SlotType
                       /\ Kept(E, m, i).meta # m /\ Kept(E, m, i).meta # None
                       /\ i < k => ~Kept(E, m, i).tagged
  /\ \A i, j \in 1 .. k : Kept(E, m, i).meta = Kept(E, m, j).meta => i = j
  /\ \A n : n # m => ((\E i \in 1 .. Len(E) : E[i].meta = n)
                       <=> \E i \in 1 .. k : Kept(E, m, i).meta = n)

LEMMA KeptFacts ==
    ASSUME NEW E, GoodEntries(E), NEW m, NEW r \in 1 .. Len(E), E[r].meta = m
    PROVE  KeptGood(E, m, Len(E) - 1)
  <1> DEFINE k == Len(E) - 1
             K(i) == Kept(E, m, i)
             M(i) == E[i].meta
  <1>1. /\ Len(E) \in Nat /\ Len(E) >= 1
        /\ \A i \in 1 .. Len(E) : E[i] \in SlotType
    BY ElementOfSeq DEF GoodEntries
  <1>2. \A i \in 1 .. Len(E) : M(i) # None /\ (i < Len(E) => ~E[i].tagged)
    BY DEF GoodEntries
  <1>3. \A i, j \in 1 .. Len(E) : M(i) = M(j) => i = j
    BY DEF GoodEntries
  <1>4. RemoveSpot(E, m) = r
    <2> DEFINE Q(i) == E[i].meta = m /\ \A j \in i + 1 .. Len(E) : E[j].meta # m
    <2>1. Q(r)
      <3>1. \A j \in r + 1 .. Len(E) : j \in 1 .. Len(E) /\ j # r
        BY <1>1
      <3> QED BY <1>3, <3>1
    <2>2. \A i \in 1 .. Len(E) : Q(i) => i = r
      BY <1>3
    <2>3. RemoveSpot(E, m) = CHOOSE i \in 1 .. Len(E) : Q(i)
      BY DEF RemoveSpot
    <2> HIDE DEF Q
    <2> QED BY <2>1, <2>2, <2>3
  <1>5. \A i : K(i) = IF i < r THEN E[i] ELSE E[i + 1]
    BY <1>4 DEF Kept
  <1> DEFINE P(i) == IF i < r THEN i ELSE i + 1
  <1>6. ASSUME NEW i \in 1 .. k
        PROVE  /\ P(i) \in 1 .. Len(E) /\ P(i) # r /\ K(i) = E[P(i)]
               /\ i < k => P(i) < Len(E)
    BY <1>1, <1>5
  <1>7. \A i, j \in 1 .. k : P(i) = P(j) => i = j
    BY <1>1
  <1>8. ASSUME NEW i \in 1 .. Len(E), i # r PROVE \E j \in 1 .. k : P(j) = i
    <2>1. CASE i < r
      <3>1. i \in 1 .. k /\ P(i) = i
        BY <1>1, <2>1
      <3> QED BY <3>1
    <2>2. CASE ~(i < r)
      <3>1. i - 1 \in 1 .. k /\ P(i - 1) = i
        BY <1>1, <1>8, <2>2
      <3> QED BY <3>1
    <2> QED BY <2>1, <2>2
  <1> HIDE DEF P, K
  <1>9. ASSUME NEW i \in 1 .. k
        PROVE  K(i) \in SlotType /\ K(i).meta # m /\ K(i).meta # None /\ (i < k => ~K(i).tagged)
    BY <1>1, <1>2, <1>3, <1>6
  <1>10. \A i, j \in 1 .. k : K(i).meta = K(j).meta => i = j
    BY <1>3, <1>6, <1>7
  <1>11. ASSUME NEW n, n # m
         PROVE  (\E i \in 1 .. Len(E) : E[i].meta = n) <=> \E i \in 1 .. k : K(i).meta = n
    <2>1. ASSUME NEW i \in 1 .. Len(E), E[i].meta = n PROVE \E j \in 1 .. k : K(j).meta = n
      <3>1. PICK j \in 1 .. k : P(j) = i
        BY <1>8, <1>11, <2>1
      <3> QED BY <1>6, <2>1, <3>1
    <2>2. ASSUME NEW i \in 1 .. k, K(i).meta = n PROVE \E j \in 1 .. Len(E) : E[j].meta = n
      BY <1>6, <2>2
    <2> QED BY <2>1, <2>2
  <1> QED BY <1>9, <1>10, <1>11 DEF K, KeptGood

\* The slots from a on are replaced by new.
Replaced(t, a, new) ==
  [i \in 1 .. Len(t.slots) |-> IF i \in a .. a + Len(new) - 1 THEN new[i - a + 1] ELSE t.slots[i]]
WithBoth(t, s, f) == [t EXCEPT !.slots = s, !.buckets = f]

\* The slots from a on are those of new, the others as before.
Rewritten(t, u, a, k, new) ==
  /\ \A i : Settled(u, i) <=> Settled(t, i)
  /\ \A i \in 1 .. Len(t.slots) : i \notin a .. a + k - 1 => u.slots[i] = t.slots[i]
  /\ \A i \in a .. a + k - 1 : u.slots[i] = new[i - a + 1]

\* Slots replaced within a chain.
LEMMA SlotsReplaced ==
    ASSUME NEW c \in Caches, NEW t, Sound(c, t), NEW new, NEW a \in Nat, NEW k \in Nat,
           new \in [1 .. k -> SlotType], 1 =< a, a + k =< Len(t.slots), NEW f,
           f \in [0 .. DetermineBucket(c, c.end) -> BucketType]
    PROVE  LET u == WithBoth(t, Replaced(t, a, new), f)
           IN /\ u \in TableType(c) /\ Shaped(u) /\ KeepsSettled(t, u)
              /\ Len(u.slots) = Len(t.slots) /\ u.buckets = f
              /\ Rewritten(t, u, a, k, new)
  <1> DEFINE L == Len(t.slots)
             s == Replaced(t, a, new)
             u == WithBoth(t, s, f)
  <1>1. t \in TableType(c) /\ L \in Nat /\ Shaped(t) /\ \A i \in 1 .. L : t.slots[i] \in SlotType
    BY SoundFacts
  <1>2. Len(new) = k
    OBVIOUS
  <1>3. s = [i \in 1 .. L |-> IF i \in a .. a + k - 1 THEN new[i - a + 1] ELSE t.slots[i]]
    BY <1>2 DEF Replaced
  <1>4. \A i \in 1 .. L : i \in a .. a + k - 1 => i - a + 1 \in 1 .. k
    <2> HIDE DEF L
    <2> QED OBVIOUS
  <1>5. s \in Seq(SlotType) /\ Len(s) = L
    <2> HIDE DEF L, s
    <2>1. s \in [1 .. L -> SlotType]
      BY <1>1, <1>3, <1>4
    <2> QED BY <1>1, <2>1
  <1>6. /\ \A i \in 1 .. L : i \notin a .. a + k - 1 => s[i] = t.slots[i]
        /\ \A i \in a .. a + k - 1 : s[i] = new[i - a + 1]
    <2>1. a + k =< L
      OBVIOUS
    <2> HIDE DEF L, s
    <2> QED BY <1>1, <1>3, <2>1
  <1> HIDE DEF s
  <1>7. /\ u.slots = s /\ u.buckets = f /\ u.currentAllocate = t.currentAllocate
        /\ u \in TableType(c)
    <2> DEFINE B == [0 .. DetermineBucket(c, c.end) -> BucketType]
               S == Seq(SlotType)
    <2>1. t \in [buckets : B, slots : S, currentAllocate : Nat] /\ s \in S /\ f \in B
      BY <1>1, <1>5 DEF TableType
    <2>2. TableType(c) = [buckets : B, slots : S, currentAllocate : Nat]
      BY DEF TableType
    <2> HIDE DEF B, S
    <2> QED BY ONLY <2>1, <2>2 DEF WithBoth
  <1> HIDE DEF u
  <1>8. Len(u.slots) = L
    BY <1>5, <1>7
  <1>9. \A i : Settled(u, i) <=> Settled(t, i)
    BY <1>7, <1>8 DEF Settled
  <1>10. Shaped(u)
    <2>1. L \in 1 .. L /\ L \notin a .. a + k - 1
      <3>1. StoreSize + 1 =< L /\ StoreSize \in Nat /\ a + k =< L
        BY <1>1, StoreAssumption DEF Shaped
      <3> HIDE DEF L
      <3> QED BY <1>1, <3>1
    <2> QED BY <1>1, <1>6, <1>7, <1>8, <2>1 DEF Shaped
  <1>11. KeepsSettled(t, u)
    BY <1>1, <1>8, <1>9 DEF KeepsSettled
  <1>12. Rewritten(t, u, a, k, new)
    BY <1>6, <1>7, <1>9 DEF Rewritten
  <1> QED BY <1>7, <1>8, <1>10, <1>11, <1>12 DEF u, s

\* The only entry of a bucket is removed.
LEMMA SingleRemoved ==
    ASSUME NEW c \in Caches, NEW t, Sound(c, t), NEW b \in DOMAIN t.buckets, NEW m \in Metas,
           Holds(t, b, m), t.buckets[b].chain = 0
    PROVE  LET u == RemoveFromBucket(t, b, m) IN Sound(c, u) /\ Removes(t, u, b, m)
  <1> DEFINE f == [t.buckets EXCEPT ![b] = EmptyBucket]
             u == WithBuckets(t, f)
  <1>0. u = RemoveFromBucket(t, b, m)
    BY DEF WithBuckets, RemoveFromBucket
  <1>1. /\ t.buckets \in [0 .. DetermineBucket(c, c.end) -> BucketType]
        /\ DOMAIN t.buckets = 0 .. DetermineBucket(c, c.end)
    BY SoundFacts DEF TableType
  <1>2. /\ f \in [0 .. DetermineBucket(c, c.end) -> BucketType]
        /\ f[b] = EmptyBucket /\ \A d \in DOMAIN t.buckets : d # b => f[d] = t.buckets[d]
    BY <1>1, SlotTypes
  <1> HIDE DEF f
  <1>4. /\ u \in TableType(c) /\ Shaped(u) /\ KeepsSettled(t, u)
        /\ u.slots = t.slots /\ u.buckets = f
    BY <1>2, SameStore
  <1> HIDE DEF u
  <1>5. /\ u.buckets[b].chain = 0 /\ GoodSingle(u.buckets[b].entry) /\ u.buckets[b].entry.meta = None
        /\ \A d \in DOMAIN t.buckets : d # b => u.buckets[d] = t.buckets[d]
        /\ \A d \in ChainBuckets(t) : d # b =>
             \A i \in SlotsOf(t, t.buckets[d].chain) : u.slots[i] = t.slots[i]
    BY <1>2, <1>4, SlotTypes DEF GoodSingle
  <1>6. b \notin ChainBuckets(u)
    BY <1>5 DEF ChainBuckets
  <1>7. /\ Sound(c, u)
        /\ \A d \in DOMAIN t.buckets : d # b => \A n : Holds(u, d, n) <=> Holds(t, d, n)
    BY <1>4, <1>5, <1>6, StaysSound
  <1>8. \A n \in Metas : Holds(t, b, n) => n = m
    BY SingleEntry
  <1>9. \A n \in Metas : ~Holds(u, b, n)
    BY <1>5, SingleEntry, MetasAssumption
  <1>10. Removes(t, u, b, m)
    BY <1>7, <1>8, <1>9 DEF Removes
  <1> QED BY <1>0, <1>7, <1>10

\* The slots of a chain after a removal.
LEMMA ContractedFacts ==
    ASSUME NEW E, GoodEntries(E), Len(E) >= 2, NEW m, NEW r \in 1 .. Len(E), E[r].meta = m
    PROVE  /\ Contracted(E, m) \in [1 .. Len(E) -> SlotType]
           /\ Len(E) > 2 =>
                /\ \A i \in 1 .. Len(E) - 2 : Contracted(E, m)[i] = Kept(E, m, i)
                /\ Contracted(E, m)[Len(E) - 1] = Slot(Kept(E, m, Len(E) - 1).meta, TRUE)
  <1> DEFINE k == Len(E)
             v(i) == IF k = 2 \/ i = k THEN Empty
                     ELSE IF i = k - 1 THEN Slot(Kept(E, m, i).meta, TRUE) ELSE Kept(E, m, i)
  <1>1. k \in Nat
    BY DEF GoodEntries
  <1>2. \A i \in 1 .. k - 1 : Kept(E, m, i) \in SlotType
    BY KeptFacts DEF KeptGood
  <1>3. \A i \in 1 .. k - 1 : Slot(Kept(E, m, i).meta, TRUE) \in SlotType
    BY <1>2 DEF SlotType, Slot
  <1>4. Contracted(E, m) = [i \in 1 .. k |-> v(i)]
    BY DEF Contracted
  <1> HIDE DEF k
  <1>5. \A i \in 1 .. k : v(i) \in SlotType
    <2> SUFFICES ASSUME NEW i \in 1 .. k PROVE v(i) \in SlotType
      OBVIOUS
    <2>1. CASE i = k
      BY <2>1, SlotTypes
    <2>2. CASE i # k
      <3>1. i \in 1 .. k - 1
        BY <1>1, <2>2
      <3> QED BY <1>2, <1>3, <3>1, SlotTypes
    <2> QED BY <2>1, <2>2
  <1>6. /\ k > 2 => \A i \in 1 .. k - 2 : v(i) = Kept(E, m, i)
        /\ k > 2 => v(k - 1) = Slot(Kept(E, m, k - 1).meta, TRUE)
    <2>1. k > 2 => \A i \in 1 .. k - 2 : i # k /\ i # k - 1
      BY <1>1
    <2>2. k > 2 => k # 2 /\ k - 1 # k
      BY <1>1
    <2> QED BY <2>1, <2>2
  <1> HIDE DEF v
  <1>7. /\ Contracted(E, m) \in [1 .. k -> SlotType]
        /\ \A i \in 1 .. k : Contracted(E, m)[i] = v(i)
    BY <1>4, <1>5
  <1>8. k > 2 => /\ \A i \in 1 .. k - 2 : Contracted(E, m)[i] = Kept(E, m, i)
                 /\ Contracted(E, m)[k - 1] = Slot(Kept(E, m, k - 1).meta, TRUE)
    <2>1. k > 2 => k - 1 \in 1 .. k /\ \A i \in 1 .. k - 2 : i \in 1 .. k
      BY <1>1
    <2> QED BY <1>6, <1>7, <2>1
  <1> QED BY <1>7, <1>8 DEF k

\* An entry of a chain is removed.
LEMMA EntryRemoved ==
    ASSUME NEW c \in Caches, NEW t, Sound(c, t), NEW b \in DOMAIN t.buckets, NEW m \in Metas,
           Holds(t, b, m), t.buckets[b].chain # 0
    PROVE  LET u == RemoveFromBucket(t, b, m) IN Sound(c, u) /\ Removes(t, u, b, m)
  <1> DEFINE a == t.buckets[b].chain
             e == ChainEnd(t, a)
             E == Entries(t, b)
             k == Len(E)
             new == Contracted(E, m)
             K(i) == Kept(E, m, i)
             x == IF k = 2 THEN Bucket(Slot(K(1).meta, TRUE), 0) ELSE t.buckets[b]
             f == [t.buckets EXCEPT ![b] = x]
             u == WithBoth(t, Replaced(t, a, new), f)
  <1>0. u = RemoveFromBucket(t, b, m)
    BY DEF WithBoth, Replaced, RemoveFromBucket
  <1>1. /\ t.buckets \in [0 .. DetermineBucket(c, c.end) -> BucketType]
        /\ DOMAIN t.buckets = 0 .. DetermineBucket(c, c.end)
    BY SoundFacts DEF TableType
  <1>2. b \in ChainBuckets(t)
    BY SoundFacts
  <1>3. /\ GoodChain(t, a, e) /\ SlotsOf(t, a) = a .. e /\ a # 0
        /\ a \in Nat /\ e \in Nat /\ 1 =< a /\ a < e /\ e < Len(t.slots) /\ k = e - a + 1
    BY <1>2, ChainFacts
  <1>4. GoodEntries(E)
    <2>1. t.buckets[b] # EmptyBucket
      BY SlotTypes
    <2> QED BY <2>1, EntriesGood
  <1>5. PICK r \in 1 .. k : E[r].meta = m
    BY DEF Holds
  <1>L. Len(t.slots) \in Nat
    BY SoundFacts
  <1> HIDE DEF E
  <1>6. k \in Nat /\ k >= 2 /\ a + k =< Len(t.slots) /\ a + k - 1 = e
    <2> DEFINE L == Len(t.slots)
    <2>1. L \in Nat /\ e < L
      BY <1>3, <1>L
    <2> HIDE DEF L, e, a
    <2>2. k \in Nat /\ k >= 2 /\ a + k =< L /\ a + k - 1 = e
      BY <1>3, <2>1
    <2> QED BY <2>2 DEF L
  <1>7. /\ \A i \in 1 .. k - 1 : K(i) \in SlotType /\ K(i).meta # m /\ K(i).meta # None
        /\ \A i \in 1 .. k - 1 : i < k - 1 => ~K(i).tagged
        /\ \A i, j \in 1 .. k - 1 : K(i).meta = K(j).meta => i = j
        /\ \A n : n # m => ((\E i \in 1 .. k : E[i].meta = n)
                             <=> \E i \in 1 .. k - 1 : K(i).meta = n)
    <2>1. KeptGood(E, m, k - 1)
      BY <1>4, <1>5, KeptFacts
    <2> QED BY <2>1 DEF KeptGood
  <1>8. /\ new \in [1 .. k -> SlotType]
        /\ k > 2 => /\ \A i \in 1 .. k - 2 : new[i] = K(i)
                    /\ new[k - 1] = Slot(K(k - 1).meta, TRUE)
    BY <1>4, <1>5, <1>6, ContractedFacts
  <1> HIDE DEF new, K
  <1>9. x \in BucketType
    <2>1. 1 \in 1 .. k - 1
      BY <1>6
    <2>2. Slot(K(1).meta, TRUE) \in SlotType
      BY <1>7, <2>1 DEF SlotType, Slot
    <2>3. Bucket(Slot(K(1).meta, TRUE), 0) \in BucketType
      BY <2>2 DEF BucketType, Bucket
    <2> QED BY <1>1, <2>3
  <1>10. /\ f \in [0 .. DetermineBucket(c, c.end) -> BucketType]
         /\ f[b] = x /\ \A d \in DOMAIN t.buckets : d # b => f[d] = t.buckets[d]
    <2> HIDE DEF x
    <2> QED BY <1>1, <1>9
  <1> HIDE DEF f
  <1>11. /\ u \in TableType(c) /\ Shaped(u) /\ KeepsSettled(t, u)
         /\ Len(u.slots) = Len(t.slots) /\ u.buckets = f
         /\ \A i : Settled(u, i) <=> Settled(t, i)
         /\ \A i \in 1 .. Len(t.slots) : i \notin a .. a + k - 1 => u.slots[i] = t.slots[i]
         /\ \A i \in a .. a + k - 1 : u.slots[i] = new[i - a + 1]
    <2> HIDE DEF a, k
    <2> HIDE DEF u
    <2>0. /\ u = WithBoth(t, Replaced(t, a, new), f) /\ Sound(c, t) /\ a \in Nat /\ k \in Nat
          /\ new \in [1 .. k -> SlotType] /\ 1 =< a /\ a + k =< Len(t.slots)
          /\ f \in [0 .. DetermineBucket(c, c.end) -> BucketType]
      BY <1>3, <1>6, <1>8, <1>10 DEF u
    <2>1. /\ u \in TableType(c) /\ Shaped(u) /\ KeepsSettled(t, u)
          /\ Len(u.slots) = Len(t.slots) /\ u.buckets = f /\ Rewritten(t, u, a, k, new)
      BY ONLY c \in Caches, <2>0, SlotsReplaced
    <2> QED BY <2>1 DEF Rewritten
  <1> HIDE DEF u
  <1>12. \A d \in DOMAIN t.buckets : d # b => u.buckets[d] = t.buckets[d]
    BY <1>10, <1>11
  <1>13. ASSUME NEW d \in ChainBuckets(t), d # b
         PROVE  /\ SlotsOf(t, t.buckets[d].chain) \cap (a .. e) = {}
                /\ \A i \in SlotsOf(t, t.buckets[d].chain) : u.slots[i] = t.slots[i]
    <2>1. SlotsOf(t, t.buckets[d].chain) \cap (a .. e) = {}
      BY <1>2, <1>3, <1>13 DEF Sound, ChainsApart
    <2>2. SlotsOf(t, t.buckets[d].chain) \subseteq 1 .. Len(t.slots)
      BY <1>L, ChainFacts
    <2>3. a + k - 1 = e
      BY <1>6
    <2> QED BY <1>11, <2>1, <2>2, <2>3
  <1>14. \A n \in Metas : Holds(t, b, n) <=> \E i \in 1 .. k : E[i].meta = n
    BY DEF Holds, E
  <1>15. CASE k = 2
    <2>1. x.chain = 0 /\ x.entry.meta = K(1).meta /\ x.entry.tagged
      BY <1>15 DEF Bucket, Slot
    <2>2. K(1).meta # None /\ K(1).meta # m /\ 1 .. k - 1 = {1}
      <3>1. 1 .. k - 1 = {1}
        BY <1>15
      <3> QED BY <1>7, <3>1
    <2>3. u.buckets[b] = x
      BY <1>10, <1>11
    <2> HIDE DEF x
    <2>4. u.buckets[b].chain = 0 /\ GoodSingle(u.buckets[b].entry)
      BY <2>1, <2>2, <2>3 DEF GoodSingle
    <2>5. b \notin ChainBuckets(u)
      BY <2>4 DEF ChainBuckets
    <2>6. /\ Sound(c, u)
          /\ \A d \in DOMAIN t.buckets : d # b => \A n : Holds(u, d, n) <=> Holds(t, d, n)
      BY <1>11, <1>12, <1>13, <2>4, <2>5, StaysSound
    <2>7. \A n \in Metas : Holds(u, b, n) <=> n = K(1).meta
      <3>1. u.buckets[b].chain = 0 /\ u.buckets[b].entry.meta = K(1).meta
        BY <2>1, <2>3
      <3> QED BY <3>1, SingleEntry
    <2>8. ASSUME NEW n \in Metas
          PROVE  Holds(u, b, n) <=> Holds(t, b, n) /\ n # m
      <3>1. (\E i \in 1 .. k - 1 : K(i).meta = n) <=> K(1).meta = n
        BY ONLY <2>2
      <3>2. n # m => (Holds(t, b, n) <=> K(1).meta = n)
        <4>1. n # m => ((\E i \in 1 .. k : E[i].meta = n) <=> \E i \in 1 .. k - 1 : K(i).meta = n)
          BY <1>7
        <4>2. Holds(t, b, n) <=> \E i \in 1 .. k : E[i].meta = n
          BY <1>14
        <4> HIDE DEF a, e, k, E, K
        <4> QED BY ONLY <3>1, <4>1, <4>2
      <3>3. Holds(u, b, n) <=> n = K(1).meta
        BY <2>7
      <3> QED BY ONLY <2>2, <3>2, <3>3
    <2>9. Removes(t, u, b, m)
      BY <2>6, <2>8 DEF Removes
    <2> QED BY <1>0, <2>6, <2>9
  <1>16. CASE k # 2
    <2> DEFINE q == e - 1
    <2>0. k > 2 /\ q \in Nat /\ a < q /\ q < e /\ q = a + (k - 1) - 1
      BY <1>3, <1>6, <1>16
    <2>1. u.buckets[b].chain = a
      BY <1>10, <1>11, <1>16
    <2>2. ASSUME NEW i \in a .. q
          PROVE  /\ i - a + 1 \in 1 .. k - 1
                 /\ u.slots[i].meta = K(i - a + 1).meta
                 /\ u.slots[i].tagged <=> i = q
      <3>1. /\ i \in a .. a + k - 1 /\ i - a + 1 \in 1 .. k - 1
            /\ (i < q => i - a + 1 \in 1 .. k - 2 /\ i - a + 1 < k - 1)
            /\ (i = q => i - a + 1 = k - 1)
        <4> HIDE DEF a, e, k
        <4> QED BY <1>3, <1>6, <2>0
      <3>2. u.slots[i] = new[i - a + 1]
        BY <1>11, <3>1
      <3>3. CASE i = q
        <4>1. u.slots[i] = Slot(K(k - 1).meta, TRUE) /\ i - a + 1 = k - 1
          BY <1>8, <2>0, <3>1, <3>2, <3>3
        <4>2. u.slots[i].meta = K(k - 1).meta /\ u.slots[i].tagged = TRUE
          <5> DEFINE w == K(k - 1).meta
          <5>1. u.slots[i] = Slot(w, TRUE)
            BY ONLY <4>1
          <5> HIDE DEF w
          <5>2. u.slots[i].meta = w /\ u.slots[i].tagged = TRUE
            BY ONLY <5>1, SlotFields
          <5> QED BY ONLY <5>2 DEF w
        <4> QED BY <3>1, <3>3, <4>1, <4>2
      <3>4. CASE i < q
        BY <1>7, <1>8, <2>0, <3>1, <3>2, <3>4
      <3>5. i = q \/ i < q
        BY <1>3, <2>0
      <3> QED BY <3>1, <3>3, <3>4, <3>5
    <2> HIDE DEF q, a, e, k
    <2>3. Linked(u, a, q)
      <3>1. q < Len(u.slots)
        <4> DEFINE L == Len(t.slots)
        <4>1. L \in Nat /\ e < L /\ Len(u.slots) = L
          BY <1>3, <1>11, <1>L
        <4> HIDE DEF L
        <4>2. q < L
          BY <1>3, <2>0, <4>1
        <4> QED BY <4>1, <4>2
      <3>2. a =< q /\ q \in a .. q
        BY <1>3, <2>0
      <3>3. \A i \in a .. q : u.slots[i].meta # None /\ (i < q => ~u.slots[i].tagged)
        BY <1>3, <1>7, <2>0, <2>2
      <3> QED BY <1>3, <2>0, <2>2, <3>1, <3>2, <3>3 DEF Linked
    <2>4. Len(u.slots) \in Nat /\ u.slots \in Seq(SlotType)
      BY <1>L, <1>11 DEF TableType
    <2>5. ChainEnd(u, a) = q
      BY <2>3, <2>4, EndOfChain
    <2>6. Settled(u, q)
      <3>1. Settled(t, e) /\ Len(t.slots) \in Nat /\ t.currentAllocate \in Nat
        BY <1>3, <1>L, SoundFacts DEF GoodChain
      <3>2. q =< e
        BY <1>3, <2>0
      <3> QED BY <1>3, <1>11, <2>0, <3>1, <3>2, SettledBefore
    <2>7. \A i, j \in a .. q : u.slots[i].meta = u.slots[j].meta => i = j
      <3> SUFFICES ASSUME NEW i \in a .. q, NEW j \in a .. q, u.slots[i].meta = u.slots[j].meta
                   PROVE  i = j
        OBVIOUS
      <3>1. i - a + 1 = j - a + 1
        BY <1>7, <2>2
      <3> QED BY <1>3, <2>0, <3>1
    <2>8. GoodChain(u, a, q)
      BY <2>0, <2>3, <2>6, <2>7 DEF GoodChain
    <2>9. SlotsOf(u, a) = a .. q /\ a .. q \subseteq a .. e
      BY <1>3, <2>0, <2>5 DEF SlotsOf
    <2>10. /\ GoodChain(u, u.buckets[b].chain, ChainEnd(u, u.buckets[b].chain))
           /\ \A d \in ChainBuckets(t) : d # b =>
                SlotsOf(t, t.buckets[d].chain) \cap SlotsOf(u, u.buckets[b].chain) = {}
      BY <1>13, <2>1, <2>5, <2>8, <2>9
    <2>11. u.buckets[b].chain # 0
      BY <1>3, <2>1
    <2>12. /\ Sound(c, u)
           /\ \A d \in DOMAIN t.buckets : d # b => \A n : Holds(u, d, n) <=> Holds(t, d, n)
      BY <1>11, <1>12, <1>13, <2>10, <2>11, StaysSound
    <2>13. ASSUME NEW n \in Metas PROVE Holds(u, b, n) <=> Holds(t, b, n) /\ n # m
      <3>1. Holds(u, b, n) <=> InSlots(u, a, q, n)
        BY <1>3, <2>1, <2>3, <2>4, ChainHolds
      <3>2. ASSUME NEW i \in a .. q, u.slots[i].meta = n PROVE \E j \in 1 .. k - 1 : K(j).meta = n
        BY <2>2, <3>2
      <3>3. ASSUME NEW j \in 1 .. k - 1, K(j).meta = n PROVE \E i \in a .. q : u.slots[i].meta = n
        <4>1. a + j - 1 \in a .. q /\ (a + j - 1) - a + 1 = j
          BY <1>3, <1>6, <2>0
        <4>2. u.slots[a + j - 1].meta = K((a + j - 1) - a + 1).meta
          BY <2>2, <4>1
        <4> QED BY <3>3, <4>1, <4>2
      <3>4. InSlots(u, a, q, n) <=> \E j \in 1 .. k - 1 : K(j).meta = n
        BY <3>2, <3>3 DEF InSlots
      <3> QED BY <1>7, <1>14, <3>1, <3>4
    <2>14. Removes(t, u, b, m)
      BY <2>12, <2>13 DEF Removes
    <2> QED BY <1>0, <2>12, <2>14
  <1> QED BY <1>15, <1>16

\* One bucket, with a chain or without.
LEMMA BucketRemoved ==
    ASSUME NEW c \in Caches, NEW t, Sound(c, t), NEW b \in DOMAIN t.buckets, NEW m \in Metas,
           Holds(t, b, m)
    PROVE  Sound(c, RemoveFromBucket(t, b, m)) /\ Removes(t, RemoveFromBucket(t, b, m), b, m)
  BY SingleRemoved, EntryRemoved

\* Induction on the natural numbers, for a set.
LEMMA EveryNumber ==
    ASSUME NEW T, 0 \in T, \A n \in Nat : n \in T => n + 1 \in T
    PROVE  \A n \in Nat : n \in T
  <1> DEFINE M == Nat \ T
  <1>1. SUFFICES ASSUME M # {} PROVE FALSE
    OBVIOUS
  <1>2. PICK n \in M : \A k \in M : ~(<< k, n >> \in OpToRel(<, Nat))
    <2>1. M \in SUBSET Nat
      OBVIOUS
    <2> HIDE DEF M
    <2> QED BY <1>1, <2>1, NatLessThanWellFounded, WFMin
  <1>3. \A k \in M : ~(k < n)
    BY <1>2 DEF OpToRel
  <1>4. n \in Nat /\ n # 0 /\ n - 1 \in Nat /\ n - 1 < n
    OBVIOUS
  <1>5. n - 1 \in T
    BY <1>3, <1>4
  <1>6. (n - 1) + 1 \in T
    BY <1>4, <1>5
  <1> QED BY <1>4, <1>6

\* The loop of a removal: how many rounds there are, the n-th of them, and the
\* tables there are after each.
FirstBucket(c, m) == DetermineBucket(c, startPC[m])
RoundCount(c, m) == DetermineBucket(c, endPC[m]) + 1 - FirstBucket(c, m)
Round(t, c, m, v, n) ==
  IF FirstBucket(c, m) + n - 1 \in RoundsOf(t, c, m)
  THEN RemoveFromBucket(v, FirstBucket(c, m) + n - 1, m) ELSE v
Stage(t, c, m, f, n) == IF n = 0 THEN t ELSE Round(t, c, m, f[n - 1], n)
IsStages(t, c, m, f) == f = [n \in 0 .. RoundCount(c, m) |-> Stage(t, c, m, f, n)]

\* RemoveRange is the last of them.
LEMMA RemoveIsStage ==
    ASSUME NEW t, NEW c, NEW m
    PROVE  RemoveRange(t, c, m) = (CHOOSE f : IsStages(t, c, m, f))[RoundCount(c, m)]
  BY DEF RemoveRange, IsStages, Stage, Round, RoundCount, FirstBucket

\* They exist.
LEMMA StagesExist ==
    ASSUME NEW t, NEW c, NEW m, RoundCount(c, m) \in Nat
    PROVE  \E f : IsStages(t, c, m, f)
  <1> DEFINE N == RoundCount(c, m)
             S(f, i) == Stage(t, c, m, f, i)
             UpTo(n, f) == \A i \in 0 .. n : f[i] = S(f, i)
             T == {n \in Nat : \E f : UpTo(n, f)}
  <1>0. \A f, g : \A i : f[i - 1] = g[i - 1] => S(f, i) = S(g, i)
    BY DEF Stage
  <1>a. \A f : S(f, 0) = t
    BY DEF Stage
  <1> HIDE DEF N, S
  <1>1. 0 \in T
    <2> DEFINE f == [i \in Nat |-> t]
    <2>1. 0 .. 0 = {0} /\ f[0] = t
      OBVIOUS
    <2>2. UpTo(0, f)
      BY <1>a, <2>1
    <2> HIDE DEF UpTo, f
    <2> QED BY <2>2
  <1>2. ASSUME NEW n \in Nat, n \in T PROVE n + 1 \in T
    <2>1. PICK f : UpTo(n, f)
      BY <1>2
    <2> DEFINE g == [i \in 0 .. n + 1 |-> IF i = n + 1 THEN S(f, n + 1) ELSE f[i]]
    <2>2. /\ g[n + 1] = S(f, n + 1) /\ \A i \in 0 .. n : g[i] = f[i]
      OBVIOUS
    <2> HIDE DEF g
    <2>3. ASSUME NEW i \in 0 .. n + 1 PROVE g[i] = S(g, i)
      <3>1. CASE i = 0
        <4>1. 0 \in 0 .. n
          OBVIOUS
        <4> QED BY <1>a, <2>1, <2>2, <3>1, <4>1
      <3>2. CASE i # 0
        <4>1. i - 1 \in 0 .. n
          BY <3>2
        <4>2. S(f, i) = S(g, i)
          BY <1>0, <2>2, <4>1
        <4>3. CASE i = n + 1
          BY <2>2, <4>2, <4>3
        <4>4. CASE i # n + 1
          <5>1. i \in 0 .. n
            BY <4>4
          <5> QED BY <2>1, <2>2, <4>2, <5>1
        <4> QED BY <4>3, <4>4
      <3> QED BY <3>1, <3>2
    <2>4. UpTo(n + 1, g)
      BY <2>3
    <2> HIDE DEF UpTo
    <2> QED BY <2>4
  <1>3. N \in T
    <2>1. N \in Nat
      BY DEF N
    <2> HIDE DEF T
    <2> QED BY <1>1, <1>2, <2>1, EveryNumber
  <1>4. PICK f : UpTo(N, f)
    BY <1>3
  <1> DEFINE g == [i \in 0 .. N |-> f[i]]
  <1>5. \A i \in 0 .. N : g[i] = f[i]
    OBVIOUS
  <1>6. g = [i \in 0 .. N |-> g[i]]
    OBVIOUS
  <1> HIDE DEF g
  <1>7. ASSUME NEW i \in 0 .. N PROVE g[i] = S(g, i)
    <2>1. CASE i = 0
      BY <1>a, <1>4, <1>5, <2>1
    <2>2. CASE i # 0
      <3>1. i - 1 \in 0 .. N
        BY <2>2 DEF N
      <3>2. S(f, i) = S(g, i)
        BY <1>0, <1>5, <3>1
      <3> QED BY <1>4, <1>5, <3>2
    <2> QED BY <2>1, <2>2
  <1>8. g = [i \in 0 .. N |-> S(g, i)]
    BY <1>6, <1>7
  <1> QED BY <1>8 DEF IsStages, N, S

\* Their values.
LEMMA StagesOf ==
    ASSUME NEW t, NEW c, NEW m, RoundCount(c, m) \in Nat
    PROVE  \E f : /\ RemoveRange(t, c, m) = f[RoundCount(c, m)]
                  /\ f[0] = t
                  /\ \A n \in 1 .. RoundCount(c, m) : f[n] = Round(t, c, m, f[n - 1], n)
  <1> DEFINE f == CHOOSE g : IsStages(t, c, m, g)
             N == RoundCount(c, m)
  <1>1. IsStages(t, c, m, f)
    BY StagesExist
  <1>2. RemoveRange(t, c, m) = f[N]
    BY RemoveIsStage
  <1> HIDE DEF f
  <1>3. \A n \in 0 .. N : f[n] = Stage(t, c, m, f, n)
    <2>1. f = [n \in 0 .. N |-> Stage(t, c, m, f, n)]
      BY <1>1 DEF IsStages
    <2> DEFINE h == [n \in 0 .. N |-> Stage(t, c, m, f, n)]
    <2>2. \A n \in 0 .. N : h[n] = Stage(t, c, m, f, n)
      OBVIOUS
    <2>3. f = h
      BY <2>1
    <2> HIDE DEF h
    <2> QED BY <2>2, <2>3
  <1>4. f[0] = t
    <2>1. 0 \in 0 .. N
      OBVIOUS
    <2> QED BY <1>3, <2>1 DEF Stage
  <1>5. ASSUME NEW n \in 1 .. N PROVE f[n] = Round(t, c, m, f[n - 1], n)
    <2>1. n \in 0 .. N /\ n # 0
      OBVIOUS
    <2> QED BY <1>3, <2>1 DEF Stage
  <1> QED BY <1>2, <1>4, <1>5

\* A removal takes the method out of the buckets up to the first that does not
\* hold it.
LEMMA RangeRemoved ==
    ASSUME NEW c \in Caches, NEW t, Sound(c, t), NEW m \in Metas, Lies(m, c)
    PROVE  /\ Sound(c, RemoveRange(t, c, m))
           /\ \A d \in DOMAIN t.buckets, x \in Metas :
                Holds(RemoveRange(t, c, m), d, x)
                  <=> Holds(t, d, x) /\ ~(x = m /\ d \in RoundsOf(t, c, m))
  <1> DEFINE N == RoundCount(c, m)
             F == FirstBucket(c, m)
             R == RoundsOf(t, c, m)
             D == DOMAIN t.buckets
  <1>1. F \in Nat /\ DetermineBucket(c, endPC[m]) \in Nat /\ F =< DetermineBucket(c, endPC[m])
    BY BucketRange DEF FirstBucket
  <1>2. N \in Nat
    BY <1>1 DEF RoundCount
  <1>3. D = 0 .. DetermineBucket(c, c.end) /\ BucketsOf(c, m) \subseteq D
    BY SoundFacts, BucketRange
  <1>4. /\ R \subseteq BucketsOf(c, m) /\ \A d \in R : Holds(t, d, m)
    <2>1. \A d \in BucketsOf(c, m) : d =< d
      BY <1>1 DEF BucketsOf
    <2> QED BY <2>1 DEF RoundsOf
  <1>5. \A d \in R : d \in Nat /\ d < F + N
    BY <1>1, <1>4 DEF BucketsOf, RoundCount, FirstBucket
  <1>6. PICK f : /\ RemoveRange(t, c, m) = f[N] /\ f[0] = t
                 /\ \A n \in 1 .. N : f[n] = Round(t, c, m, f[n - 1], n)
    BY <1>2, StagesOf
  <1> DEFINE Good(n) == /\ Sound(c, f[n])
                        /\ \A d \in D, x \in Metas :
                             Holds(f[n], d, x) <=> Holds(t, d, x) /\ ~(x = m /\ d \in R /\ d < F + n)
             T == {n \in Nat : n =< N => Good(n)}
  <1>d. \A d \in D : d \in Nat
    BY <1>3
  <1> HIDE DEF N, F, R
  <1>7. 0 \in T
    <2>1. \A d \in R : ~(d < F + 0)
      BY <1>1, <1>4 DEF BucketsOf, F, FirstBucket
    <2>2. Good(0)
      BY <1>6, <2>1
    <2> QED BY <2>2
  <1>8. ASSUME NEW n \in Nat, n \in T PROVE n + 1 \in T
    <2> SUFFICES ASSUME n + 1 =< N PROVE Good(n + 1)
      OBVIOUS
    <2>1. Good(n)
      BY <1>2, <1>8
    <2> DEFINE b == F + (n + 1) - 1
               v == f[n]
    <2>2. n + 1 \in 1 .. N /\ (n + 1) - 1 = n /\ b = F + n /\ b \in Nat
      BY <1>1, <1>2
    <2>3. f[n + 1] = IF b \in R THEN RemoveFromBucket(v, b, m) ELSE v
      BY <1>6, <2>2 DEF Round, F, R
    <2>4. Sound(c, v) /\ \A d \in D, x \in Metas :
                           Holds(v, d, x) <=> Holds(t, d, x) /\ ~(x = m /\ d \in R /\ d < F + n)
      BY <2>1
    <2> DEFINE w == f[n + 1]
    <2> HIDE DEF v, b, w
    <2>5. \A d \in R : d < F + (n + 1) <=> d < F + n \/ d = b
      BY <1>1, <1>5, <2>2
    <2>6. CASE b \in R
      <3>1. b \in D /\ Holds(t, b, m) /\ ~(b < F + n)
        BY <1>1, <1>3, <1>4, <2>2, <2>6
      <3>2. Holds(v, b, m)
        BY <2>4, <3>1
      <3>3. DOMAIN v.buckets = D
        BY <1>3, <2>4, SoundFacts
      <3>4. w = RemoveFromBucket(v, b, m)
        BY <2>3, <2>6 DEF w
      <3> HIDE DEF D
      <3>5. Sound(c, w) /\ Removes(v, w, b, m)
        BY <2>4, <3>1, <3>2, <3>3, <3>4, BucketRemoved
      <3>6. \A d \in D, x \in Metas : Holds(w, d, x) <=> Holds(v, d, x) /\ ~(d = b /\ x = m)
        BY <3>3, <3>5 DEF Removes
      <3>7. \A d \in D, x \in Metas :
              Holds(w, d, x) <=> Holds(t, d, x) /\ ~(x = m /\ d \in R /\ d < F + (n + 1))
        BY <2>4, <2>5, <2>6, <3>6
      <3> QED BY <3>5, <3>7 DEF w
    <2>7. CASE b \notin R
      <3>1. w = v
        BY <2>3, <2>7 DEF w
      <3>2. \A d \in D, x \in Metas :
              Holds(w, d, x) <=> Holds(t, d, x) /\ ~(x = m /\ d \in R /\ d < F + (n + 1))
        BY <2>4, <2>5, <2>7, <3>1
      <3> QED BY <2>4, <3>1, <3>2 DEF w
    <2> QED BY <2>6, <2>7
  <1>9. Good(N)
    <2>1. N \in Nat
      BY <1>2
    <2> HIDE DEF Good
    <2>2. \A n \in Nat : n \in T
      <3> HIDE DEF T
      <3> QED BY <1>7, <1>8, EveryNumber
    <2> QED BY <2>1, <2>2
  <1> QED BY <1>5, <1>6, <1>9 DEF R

-----------------------------------------------------------------------------
(***************************************************************************)
(* Which method contains a pc                                              *)
(***************************************************************************)

\* No two caches contain the same pc.
LEMMA OneCache ==
    ASSUME NEW c \in Caches, NEW d \in Caches, NEW pc \in Nat,
           c.start =< pc, pc < c.end, d.start =< pc, pc < d.end
    PROVE  c = d
  <1>1. c.start \in Nat /\ c.end \in Nat /\ d.start \in Nat /\ d.end \in Nat
    BY CachesAssumption
  <1>2. ~(c.end =< d.start) /\ ~(d.end =< c.start)
    BY <1>1
  <1> QED BY <1>2, CachesAssumption

\* The tree has the table of a pc if there is one.
LEMMA SearchFacts ==
    ASSUME Types, NEW pc \in Nat
    PROVE  /\ Known(pc) => /\ Search(pc) \in DOMAIN tables /\ Search(pc) \in Caches
                           /\ Search(pc).start =< pc /\ pc < Search(pc).end /\ pc # 0
           /\ \A c \in DOMAIN tables :
                c.start =< pc /\ pc < c.end => Known(pc) /\ Search(pc) = c
  <1> DEFINE hits == {c \in DOMAIN tables : c.start =< pc /\ pc < c.end}
  <1>1. Search(pc) = IF hits = {} THEN None ELSE CHOOSE c \in hits : TRUE
    BY DEF Search
  <1>2. DOMAIN tables \subseteq Caches
    BY DEF Types
  <1>3. \A c \in hits : \A d \in hits : c = d
    BY <1>2, OneCache
  <1>4. hits # {} => Search(pc) \in hits
    <2> HIDE DEF hits
    <2> QED BY <1>1
  <1>5. \A c \in hits : c # None
    BY <1>2, NoneAssumption
  <1>6. Known(pc) => hits # {}
    BY <1>1 DEF Known
  <1>7. Known(pc) => Search(pc) \in DOMAIN tables /\ Search(pc).start =< pc /\ pc < Search(pc).end
    BY <1>4, <1>6
  <1>8. Known(pc) => pc # 0
    BY <1>2, <1>7, CachesAssumption
  <1>9. \A c \in DOMAIN tables : c.start =< pc /\ pc < c.end => Known(pc) /\ Search(pc) = c
    <2> SUFFICES ASSUME NEW c \in hits PROVE Known(pc) /\ Search(pc) = c
      OBVIOUS
    <2>1. Search(pc) = c
      <3> HIDE DEF hits
      <3> QED BY <1>3, <1>4
    <2> QED BY <1>5, <2>1 DEF Known
  <1> QED BY <1>2, <1>7, <1>8, <1>9

\* The remembered table is the one the tree has.
LEMMA TableOfPC ==
    ASSUME Types, CacheInv, NEW pc \in Nat, Known(pc)
    PROVE  TableFor(pc) = Search(pc)
  <1>1. /\ Search(pc) \in DOMAIN tables /\ Search(pc) \in Caches
        /\ Search(pc).start =< pc /\ pc < Search(pc).end /\ pc # 0
    BY SearchFacts
  <1>2. ASSUME pc = cachedPC PROVE cachedTable = Search(pc)
    <2>1. cachedTable \in DOMAIN tables /\ cachedTable.start =< pc /\ pc < cachedTable.end
      BY <1>1, <1>2 DEF CacheInv
    <2> QED BY <2>1, SearchFacts
  <1> QED BY <1>2 DEF TableFor

\* A method that is held for a pc: it contains the pc and is in its bucket.
HeldFor(c, pc, m) == m \in Metas /\ Covers(m, pc) /\ Holds(tables[c], DetermineBucket(c, pc), m)

\* There is one at most.
LEMMA HeldOnce ==
    ASSUME Types, AliveApart, HeldAlive, NEW c \in DOMAIN tables, NEW pc \in Nat,
           c.start =< pc, pc < c.end, NEW m, NEW n, HeldFor(c, pc, m), HeldFor(c, pc, n)
    PROVE  m = n
  <1>1. c \in Caches
    BY DEF Types
  <1>2. DetermineBucket(c, pc) \in 0 .. DetermineBucket(c, c.end)
    BY <1>1, BucketOfPC
  <1>3. m \in Alive /\ n \in Alive /\ m \in Metas /\ n \in Metas
    BY <1>2 DEF HeldAlive, HeldFor
  <1>4. Overlap(m, n)
    BY <1>3, MetasAssumption DEF HeldFor, Covers, Overlap
  <1> QED BY <1>3, <1>4 DEF AliveApart

\* A registered method is held for each of its addresses.
LEMMA RegisteredFound ==
    ASSUME Types, RegisteredHeld, NEW m \in registered, NEW pc \in Nat, Covers(m, pc)
    PROVE  /\ Known(pc) /\ HeldFor(Search(pc), pc, m) /\ Lies(m, Search(pc))
           /\ \A b \in BucketsOf(Search(pc), m) : Holds(tables[Search(pc)], b, m)
  <1>1. PICK c \in DOMAIN tables :
          Lies(m, c) /\ \A b \in BucketsOf(c, m) : Holds(tables[c], b, m)
    BY DEF RegisteredHeld
  <1>2. c \in Caches /\ m \in Metas
    BY DEF Types
  <1>3. c.start =< pc /\ pc < c.end
    BY <1>1, <1>2, CachesAssumption, MetasAssumption DEF Lies, InTable, Covers
  <1>4. Known(pc) /\ Search(pc) = c
    BY <1>3, SearchFacts
  <1>5. DetermineBucket(c, pc) \in BucketsOf(c, m)
    BY <1>1, <1>2, BucketRange
  <1> QED BY <1>1, <1>2, <1>4, <1>5 DEF HeldFor

\* What findMetaDataInHash returns.
LEMMA HashSearched ==
    ASSUME NEW c \in Caches, NEW t, Sound(c, t), NEW pc \in Nat, c.start =< pc, pc < c.end
    PROVE  LET r == FindMetaDataInHash(t, c, pc)
               Held(m) == m \in Metas /\ Covers(m, pc) /\ Holds(t, DetermineBucket(c, pc), m)
           IN /\ r # None => Held(r)
              /\ (\E m : Held(m)) => r # None
  <1> DEFINE b == DetermineBucket(c, pc)
             E == Entries(t, b)
             hits == {i \in 1 .. Len(E) : E[i].meta # None /\ Covers(E[i].meta, pc)}
             r == FindMetaDataInHash(t, c, pc)
             j == CHOOSE i \in hits : \A k \in hits : i =< k
  <1>1. b \in DOMAIN t.buckets
    BY BucketOfPC, SoundFacts
  <1>2. \A i \in 1 .. Len(E) : E[i] \in SlotType
    <2>1. CASE t.buckets[b].chain = 0
      <3>1. E = << t.buckets[b].entry >> /\ Len(E) = 1 /\ E[1] = t.buckets[b].entry
        BY <2>1, SingleEntry
      <3>2. t.buckets[b].entry \in SlotType
        BY <1>1, SoundFacts DEF BucketType
      <3> QED BY <3>1, <3>2
    <2>2. CASE t.buckets[b].chain # 0
      <3>1. b \in ChainBuckets(t)
        BY <1>1, <2>2, SoundFacts
      <3>2. E \in Seq(SlotType)
        BY <3>1, ChainFacts
      <3> HIDE DEF E
      <3> QED BY <3>2, ElementOfSeq
    <2> QED BY <2>1, <2>2
  <1>3. r = IF hits = {} THEN None ELSE E[j].meta
    BY DEF FindMetaDataInHash
  <1>4. hits # {} => j \in hits
    <2>1. hits \in SUBSET Nat
      OBVIOUS
    <2> HIDE DEF hits
    <2>2. ASSUME hits # {} PROVE \E i \in hits : \A k \in hits : i =< k
      <3>1. PICK i \in hits : \A k \in hits : ~(<< k, i >> \in OpToRel(<, Nat))
        BY <2>1, <2>2, NatLessThanWellFounded, WFMin
      <3>2. \A k \in hits : ~(k < i)
        BY <2>1, <3>1 DEF OpToRel
      <3> QED BY <2>1, <3>2
    <2> QED BY <2>2
  <1> HIDE DEF r, j
  <1>5. ASSUME r # None PROVE r \in Metas /\ Covers(r, pc) /\ Holds(t, b, r)
    <2>1. hits # {} /\ r = E[j].meta /\ j \in 1 .. Len(E) /\ E[j].meta # None /\ Covers(E[j].meta, pc)
      BY <1>3, <1>4, <1>5
    <2>2. E[j].meta \in Metas
      BY <1>2, <2>1 DEF SlotType
    <2> QED BY <2>1, <2>2 DEF Holds
  <1>6. ASSUME NEW m \in Metas, Covers(m, pc), Holds(t, b, m) PROVE r # None
    <2>1. PICK i \in 1 .. Len(E) : E[i].meta = m
      BY <1>6 DEF Holds
    <2>2. i \in hits
      BY <1>6, <2>1, MetasAssumption
    <2>3. j \in hits /\ r = E[j].meta
      BY <1>3, <1>4, <2>2
    <2> QED BY <2>3
  <1> QED BY <1>5, <1>6 DEF r

\* findMetaDataForPC returns the method that is held for the pc, or NULL if
\* there is none.
LEMMA FoundForPC ==
    ASSUME Inv, NEW pc \in Nat, Known(pc)
    PROVE  /\ FindMetaDataForPC(pc) # None => HeldFor(Search(pc), pc, FindMetaDataForPC(pc))
           /\ \A m : HeldFor(Search(pc), pc, m) => FindMetaDataForPC(pc) = m
  <1> DEFINE c == Search(pc)
             r == FindMetaDataForPC(pc)
  <1>1. Types /\ TablesInv /\ AliveApart /\ HeldAlive /\ CacheInv
    BY DEF Inv
  <1>2. c \in DOMAIN tables /\ c \in Caches /\ c.start =< pc /\ pc < c.end /\ pc # 0
    BY <1>1, SearchFacts
  <1>3. TableFor(pc) = c /\ c # None
    BY <1>1, <1>2, TableOfPC, NoneAssumption
  <1>4. Sound(c, tables[c])
    BY <1>1, <1>2 DEF TablesInv
  <1>5. r = IF Remembered(pc) # None THEN Remembered(pc) ELSE FindMetaDataInHash(tables[c], c, pc)
    BY <1>3 DEF FindMetaDataForPC
  <1>6. Remembered(pc) # None => HeldFor(c, pc, Remembered(pc))
    <2> SUFFICES ASSUME Remembered(pc) # None PROVE HeldFor(c, pc, Remembered(pc))
      OBVIOUS
    <2>1. pc = cachedPC /\ Remembered(pc) = retrieved /\ retrieved # None
      BY DEF Remembered
    <2>2. cachedTable = c
      BY <1>3, <2>1 DEF TableFor
    <2> QED BY <1>1, <2>1, <2>2 DEF CacheInv, HeldFor, Types
  <1> DEFINE h == FindMetaDataInHash(tables[c], c, pc)
  <1>7. /\ h # None => HeldFor(c, pc, h)
        /\ \A m : HeldFor(c, pc, m) => h # None
    <2> HIDE DEF c
    <2> QED BY <1>2, <1>4, HashSearched DEF HeldFor
  <1> HIDE DEF c, r, h
  <1>8. r # None => HeldFor(c, pc, r)
    BY <1>5, <1>6, <1>7 DEF h
  <1>9. ASSUME NEW m, HeldFor(c, pc, m) PROVE r = m
    <2>1. r # None
      BY <1>5, <1>7, <1>9 DEF h
    <2> QED BY <1>1, <1>2, <1>8, <1>9, <2>1, HeldOnce
  <1> QED BY <1>8, <1>9 DEF c, r

-----------------------------------------------------------------------------
(***************************************************************************)
(* What the invariant says                                                 *)
(***************************************************************************)

\* The stores.
LEMMA InvStores ==
    ASSUME Inv
    PROVE  StoresSound
  <1>1. Types /\ TablesInv /\ CacheInv
    BY DEF Inv
  <1>2. ASSUME NEW c \in DOMAIN tables PROVE c \in Caches /\ Sound(c, tables[c])
    BY <1>1 DEF Types, TablesInv
  <1>3. MetaTypeOK
    <2>1. ASSUME NEW c \in DOMAIN tables
          PROVE  /\ \A i \in 1 .. Len(tables[c].slots) :
                      tables[c].slots[i] \in [meta : Metas \cup {None}, tagged : BOOLEAN]
                 /\ tables[c].currentAllocate \in
                      Len(tables[c].slots) - StoreSize .. Len(tables[c].slots)
                 /\ \A b \in DOMAIN tables[c].buckets :
                      tables[c].buckets[b].chain \in 0 .. Len(tables[c].slots)
      <3> DEFINE t == tables[c]
      <3>1. c \in Caches /\ Sound(c, t)
        BY <1>2
      <3> HIDE DEF t
      <3>2. \A i \in 1 .. Len(t.slots) : t.slots[i] \in SlotType
        BY <3>1, SoundFacts
      <3>3. t.currentAllocate \in Len(t.slots) - StoreSize .. Len(t.slots)
        BY <3>1, SoundFacts, StoreAssumption DEF Shaped
      <3>4. ASSUME NEW b \in DOMAIN t.buckets PROVE t.buckets[b].chain \in 0 .. Len(t.slots)
        <4>0. Len(t.slots) \in Nat
          BY <3>1, SoundFacts
        <4>1. CASE t.buckets[b].chain = 0
          BY <4>0, <4>1
        <4>2. CASE t.buckets[b].chain # 0
          <5>1. b \in ChainBuckets(t)
            BY <3>1, <4>2, SoundFacts
          <5> DEFINE a == t.buckets[b].chain
                     e == ChainEnd(t, a)
          <5>2. a \in Nat /\ e \in Nat /\ 1 =< a /\ a < e /\ e < Len(t.slots)
            BY <3>1, <5>1, ChainFacts
          <5> HIDE DEF e
          <5> QED BY <4>0, <5>2
        <4> QED BY <4>1, <4>2
      <3> QED BY <3>2, <3>3, <3>4 DEF t, SlotType
    <2>2. cachedTable \in DOMAIN tables \cup {None}
      BY <1>1 DEF CacheInv
    <2> QED BY <1>1, <2>1, <2>2 DEF MetaTypeOK, Types
  <1>4. ChainsUnshared
    <2> SUFFICES ASSUME NEW c \in DOMAIN tables, NEW b \in ChainBuckets(tables[c])
                 PROVE  LET t == tables[c]
                        IN /\ \A i \in SlotsOf(t, t.buckets[b].chain) :
                                t.slots[i].meta # None
                                /\ (i > Len(t.slots) - StoreSize - 1 => i < t.currentAllocate)
                           /\ \A d \in ChainBuckets(t) \ {b} :
                                SlotsOf(t, t.buckets[b].chain) \cap SlotsOf(t, t.buckets[d].chain) = {}
      BY DEF ChainsUnshared
    <2> DEFINE t == tables[c]
               a == t.buckets[b].chain
               e == ChainEnd(t, a)
    <2>1. c \in Caches /\ Sound(c, t) /\ Len(t.slots) \in Nat /\ t.currentAllocate \in Nat
      BY <1>2, SoundFacts
    <2>2. Linked(t, a, e) /\ Settled(t, e) /\ SlotsOf(t, a) = a .. e /\ a \in Nat /\ e \in Nat
      BY <2>1, ChainFacts DEF GoodChain
    <2>3. \A i \in a .. e : t.slots[i].meta # None
      BY <2>2 DEF Linked
    <2>4. \A d \in ChainBuckets(t) \ {b} : SlotsOf(t, a) \cap SlotsOf(t, t.buckets[d].chain) = {}
      BY <2>1 DEF Sound, ChainsApart
    <2> HIDE DEF t, e
    <2>5. \A i \in a .. e : Settled(t, i)
      BY <2>1, <2>2, SettledBefore
    <2> QED BY <2>2, <2>3, <2>4, <2>5 DEF Settled, t
  <1> QED BY <1>3, <1>4 DEF StoresSound

\* The search.
LEMMA InvSearch ==
    ASSUME Inv
    PROVE  SearchSafe
  <1> SUFFICES ASSUME search # None
               PROVE  LET t == tables[search.cache]
                          Reaches(i) == \A j \in search.at .. i : t.slots[j].meta # None
                                                                 /\ (j < i => ~t.slots[j].tagged)
                      IN /\ \E i \in search.at .. Len(t.slots) : t.slots[i].tagged /\ Reaches(i)
                         /\ \A m \in search.due :
                              \E i \in search.at .. Len(t.slots) : t.slots[i].meta = m /\ Reaches(i)
    BY DEF SearchSafe
  <1> DEFINE t == tables[search.cache]
             p == search.at
             Reaches(i) == \A j \in p .. i : t.slots[j].meta # None /\ (j < i => ~t.slots[j].tagged)
  <1>0. search.cache \in DOMAIN tables
    BY DEF Inv, SearchInv
  <1>1. PICK e \in Nat : Linked(t, p, e) /\ \A m \in search.due : InSlots(t, p, e, m)
    BY DEF Inv, SearchInv
  <1>2. Len(t.slots) \in Nat
    BY <1>0, SoundFacts DEF Inv, TablesInv, Types
  <1>3. /\ p \in Nat /\ p =< e /\ e < Len(t.slots) /\ t.slots[e].tagged
        /\ \A i \in p .. e : t.slots[i].meta # None /\ (i < e => ~t.slots[i].tagged)
    BY <1>1 DEF Linked
  <1>4. e \in p .. Len(t.slots) /\ Reaches(e)
    BY <1>2, <1>3
  <1>5. ASSUME NEW m \in search.due
        PROVE  \E i \in p .. Len(t.slots) : t.slots[i].meta = m /\ Reaches(i)
    <2>1. PICK i \in p .. e : t.slots[i].meta = m
      BY <1>1 DEF InSlots
    <2>2. i \in p .. Len(t.slots)
      BY <1>2, <1>3
    <2>3. Reaches(i)
      <3> SUFFICES ASSUME NEW j \in p .. i
                   PROVE  t.slots[j].meta # None /\ (j < i => ~t.slots[j].tagged)
        OBVIOUS
      <3>1. j \in p .. e /\ (j < i => j < e)
        BY <1>3
      <3> QED BY <1>3, <3>1
    <2> QED BY <2>1, <2>2, <2>3
  <1> QED BY <1>3, <1>4, <1>5

\* The answers.
LEMMA InvLookup ==
    ASSUME Inv
    PROVE  LookupExact
  <1> SUFFICES ASSUME insertion = None, NEW pc \in PCs, Known(pc)
               PROVE  LET owners == {m \in registered : Covers(m, pc)}
                      IN IF owners # {} THEN FindMetaDataForPC(pc) \in owners
                         ELSE FindMetaDataForPC(pc) \in {None} \cup {m \in partial : Covers(m, pc)}
    BY DEF LookupExact
  <1>0. pc \in Nat
    BY CachesAssumption DEF PCs
  <1>1. Types /\ RegisteredHeld /\ HeldAlive
    BY DEF Inv
  <1> DEFINE r == FindMetaDataForPC(pc)
             c == Search(pc)
  <1>2. /\ r # None => HeldFor(c, pc, r)
        /\ \A m : HeldFor(c, pc, m) => r = m
    BY <1>0, FoundForPC
  <1>3. ASSUME NEW m \in registered, Covers(m, pc) PROVE r = m
    BY <1>0, <1>1, <1>2, <1>3, RegisteredFound
  <1>4. ASSUME r # None PROVE r \in registered \cup partial /\ Covers(r, pc)
    <2>1. /\ c \in DOMAIN tables /\ c \in Caches
          /\ c.start =< pc /\ pc < c.end
      BY <1>0, <1>1, SearchFacts
    <2>2. DetermineBucket(c, pc) \in 0 .. DetermineBucket(c, c.end)
      BY <1>0, <2>1, BucketOfPC
    <2>3. HeldFor(c, pc, r)
      BY <1>2, <1>4
    <2> HIDE DEF c, r
    <2>4. r \in Alive /\ Covers(r, pc)
      BY <1>1, <2>1, <2>2, <2>3 DEF HeldFor, HeldAlive
    <2> QED BY <2>4 DEF Alive, Inserting
  <1> QED BY <1>3, <1>4

\* The removals.
LEMMA InvRemoval ==
    ASSUME Inv
    PROVE  RemovalSucceeds
  <1> SUFFICES ASSUME insertion = None, NEW m \in registered PROVE RemoveSucceeds(m)
    BY DEF RemovalSucceeds
  <1> DEFINE pc == startPC[m]
             c == Search(pc)
  <1>1. Types /\ RegisteredHeld /\ CacheInv
    BY DEF Inv
  <1>2. m \in Metas /\ pc \in Nat /\ endPC[m] \in Nat
    BY <1>1, MetasAssumption DEF Types
  <1>3. Covers(m, pc)
    <2>1. PICK d \in DOMAIN tables : Lies(m, d)
      BY <1>1 DEF RegisteredHeld
    <2> QED BY <1>2, <2>1 DEF Lies, Covers
  <1>4. /\ Known(pc) /\ HeldFor(c, pc, m) /\ Lies(m, c)
        /\ \A b \in BucketsOf(c, m) : Holds(tables[c], b, m)
    BY <1>1, <1>2, <1>3, RegisteredFound
  <1>5. FindMetaDataForPC(pc) = m
    BY <1>2, <1>4, FoundForPC
  <1>6. TableFor(pc) = c /\ c # None
    BY <1>1, <1>2, <1>4, TableOfPC DEF Known
  <1>7. RoundsOf(tables[c], c, m) = BucketsOf(c, m)
    BY <1>4 DEF RoundsOf
  <1> QED BY <1>4, <1>5, <1>6, <1>7 DEF RemoveSucceeds, Lies

-----------------------------------------------------------------------------
(***************************************************************************)
(* The invariant is inductive                                              *)
(***************************************************************************)

\* No table, nothing in it.
LEMMA InitInv ==
    ASSUME MetaInit
    PROVE  Inv
  <1>1. DOMAIN tables = {}
    BY DEF MetaInit
  <1>2. Types
    BY <1>1 DEF Types, MetaInit
  <1>3. TablesInv /\ HeldAlive /\ RegisteredHeld
    BY <1>1 DEF TablesInv, HeldAlive, RegisteredHeld, MetaInit
  <1>4. AliveApart
    BY DEF AliveApart, Alive, Inserting, MetaInit
  <1>5. CacheInv /\ InsertionInv /\ PreparedInv /\ SearchInv
    BY DEF CacheInv, InsertionInv, PreparedInv, SearchInv, MetaInit
  <1> QED BY <1>2, <1>3, <1>4, <1>5 DEF Inv

\* Nothing changes.
LEMMA StutterStep ==
    ASSUME Inv, UNCHANGED metaVars
    PROVE  Inv'
  <1>1. /\ tables' = tables /\ cachedPC' = cachedPC /\ cachedTable' = cachedTable
        /\ retrieved' = retrieved /\ insertion' = insertion /\ registered' = registered
        /\ partial' = partial /\ search' = search
    BY DEF metaVars, cached
  <1>2. Alive' = Alive
    BY <1>1 DEF Alive, Inserting
  <1>3. Types' /\ TablesInv' /\ AliveApart' /\ RegisteredHeld' /\ HeldAlive'
    BY <1>1, <1>2 DEF Inv, Types, TablesInv, AliveApart, RegisteredHeld, HeldAlive
  <1>4. CacheInv' /\ InsertionInv' /\ SearchInv'
    BY <1>1 DEF Inv, CacheInv, InsertionInv, SearchInv
  <1>5. PreparedInv'
    BY <1>1 DEF Inv, PreparedInv, Here
  <1> QED BY <1>3, <1>4, <1>5 DEF Inv

\* A new table is sound and holds nothing.
LEMMA NewTableFacts ==
    ASSUME NEW c \in Caches
    PROVE  /\ Sound(c, NewTable(c))
           /\ \A b \in 0 .. DetermineBucket(c, c.end), m \in Metas : ~Holds(NewTable(c), b, m)
  <1> DEFINE t == NewTable(c)
             B == 0 .. DetermineBucket(c, c.end)
             f == [b \in B |-> EmptyBucket]
             s == NewStore
  <1>1. s \in Seq(SlotType) /\ Len(s) = StoreSize + 1 /\ s[StoreSize + 1] = Terminator
    BY NewStoreFacts
  <1>2. f \in [B -> BucketType] /\ \A b \in B : f[b] = EmptyBucket
    BY SlotTypes
  <1>3. t = [buckets |-> f, slots |-> s, currentAllocate |-> 1]
    BY DEF NewTable
  <1> HIDE DEF f, s, t
  <1>4. t.buckets = f /\ t.slots = s /\ t.currentAllocate = 1 /\ t \in TableType(c)
    BY <1>1, <1>2, <1>3 DEF TableType
  <1>5. Shaped(t)
    <2>1. Len(t.slots) = StoreSize + 1 /\ t.slots[Len(t.slots)] = Terminator /\ StoreSize \in Nat
      BY <1>1, <1>4, StoreAssumption
    <2> QED BY <1>4, <2>1 DEF Shaped
  <1>6. \A b \in B : t.buckets[b].chain = 0 /\ t.buckets[b].entry = Empty
    BY <1>2, <1>4, SlotTypes
  <1>7. DOMAIN t.buckets = B
    BY <1>2, <1>4
  <1>8. ChainBuckets(t) = {}
    BY <1>6, <1>7 DEF ChainBuckets
  <1>9. Sound(c, t)
    BY <1>4, <1>5, <1>6, <1>7, <1>8 DEF Sound, ChainsGood, ChainsApart, SinglesGood, GoodSingle
  <1>10. ASSUME NEW b \in B, NEW m \in Metas PROVE ~Holds(t, b, m)
    <2>1. t.buckets[b].chain = 0 /\ t.buckets[b].entry.meta = None
      BY <1>6, SlotTypes
    <2> QED BY <2>1, SingleEntry, MetasAssumption
  <1> QED BY <1>9, <1>10 DEF t

\* addCodeCache.
LEMMA AddCodeCacheStep ==
    ASSUME Inv, NEW c \in Caches, AddCodeCache(c)
    PROVE  Inv'
  <1>1. /\ insertion = None /\ insertion' = None /\ c \notin DOMAIN tables
        /\ tables' = [d \in DOMAIN tables \cup {c} |-> IF d = c THEN NewTable(c) ELSE tables[d]]
        /\ cachedPC' = cachedPC /\ cachedTable' = cachedTable /\ retrieved' = retrieved
        /\ registered' = registered /\ partial' = partial /\ search' = search
    BY DEF AddCodeCache, cached
  <1>2. /\ DOMAIN tables' = DOMAIN tables \cup {c} /\ tables'[c] = NewTable(c)
        /\ \A d \in DOMAIN tables : tables'[d] = tables[d]
    BY <1>1
  <1>3. Alive' = Alive
    BY <1>1 DEF Alive, Inserting
  <1>4. Types'
    BY <1>1, <1>2 DEF Inv, Types
  <1>5. TablesInv'
    BY <1>2, NewTableFacts DEF Inv, TablesInv
  <1>6. AliveApart'
    BY <1>3 DEF Inv, AliveApart
  <1>7. RegisteredHeld'
    <2> SUFFICES ASSUME NEW m \in registered
                 PROVE  \E d \in DOMAIN tables' :
                          Lies(m, d) /\ \A b \in BucketsOf(d, m) : Holds(tables'[d], b, m)
      BY <1>1 DEF RegisteredHeld
    <2>1. PICK d \in DOMAIN tables :
            Lies(m, d) /\ \A b \in BucketsOf(d, m) : Holds(tables[d], b, m)
      BY DEF Inv, RegisteredHeld
    <2> QED BY <1>2, <2>1
  <1>8. HeldAlive'
    <2> SUFFICES ASSUME NEW d \in DOMAIN tables', NEW b \in 0 .. DetermineBucket(d, d.end),
                        NEW m \in Metas, Holds(tables'[d], b, m)
                 PROVE  /\ m \in Alive /\ Lies(m, d) /\ b \in BucketsOf(d, m)
                        /\ \A e \in BucketsOf(d, m) : e =< b => Holds(tables'[d], e, m)
      BY <1>3 DEF HeldAlive
    <2>1. d # c
      BY <1>2, NewTableFacts
    <2>2. d \in DOMAIN tables /\ tables'[d] = tables[d]
      BY <1>2, <2>1
    <2> QED BY <2>2 DEF Inv, HeldAlive
  <1>9. CacheInv'
    <2>1. CacheInv
      BY DEF Inv
    <2>2. cachedPC # 0 => cachedTable \in DOMAIN tables /\ tables'[cachedTable] = tables[cachedTable]
      BY <1>2, <2>1 DEF CacheInv
    <2> QED BY <1>1, <1>2, <2>1, <2>2 DEF CacheInv
  <1>10. InsertionInv' /\ PreparedInv'
    BY <1>1 DEF InsertionInv, PreparedInv
  <1>11. SearchInv'
    <2>1. SearchInv
      BY DEF Inv
    <2> QED BY <1>1, <1>2, <2>1 DEF SearchInv
  <1> QED BY <1>4, <1>5, <1>6, <1>7, <1>8, <1>9, <1>10, <1>11 DEF Inv

\* findMetaDataForPC and containsMetaData.
LEMMA FindStep ==
    ASSUME Inv, NEW pc \in Nat, Find(pc)
    PROVE  Inv'
  <1> DEFINE r == FindMetaDataForPC(pc)
             c == Search(pc)
  <1>1. /\ insertion = None /\ insertion' = None /\ Known(pc) /\ tables' = tables
        /\ cachedPC' = pc /\ cachedTable' = TableFor(pc) /\ retrieved' = r
        /\ registered' = registered /\ partial' = partial /\ search' = search
    BY DEF Find, UpdateCache
  <1>2. Types /\ CacheInv
    BY DEF Inv
  <1>3. c \in DOMAIN tables /\ c.start =< pc /\ pc < c.end /\ pc # 0
    BY <1>1, <1>2, SearchFacts
  <1>4. TableFor(pc) = c
    BY <1>1, <1>2, TableOfPC
  <1>5. r # None => HeldFor(c, pc, r)
    BY <1>1, FoundForPC
  <1> HIDE DEF r, c
  <1>6. Alive' = Alive
    BY <1>1 DEF Alive, Inserting
  <1>7. Types'
    BY <1>1, <1>2, <1>5 DEF Types, HeldFor
  <1>8. TablesInv' /\ AliveApart' /\ RegisteredHeld' /\ HeldAlive'
    BY <1>1, <1>6 DEF Inv, TablesInv, AliveApart, RegisteredHeld, HeldAlive
  <1>9. CacheInv'
    BY <1>1, <1>3, <1>4, <1>5 DEF CacheInv, HeldFor
  <1>10. InsertionInv' /\ PreparedInv'
    BY <1>1 DEF InsertionInv, PreparedInv
  <1>11. SearchInv'
    BY <1>1 DEF Inv, SearchInv
  <1> QED BY <1>7, <1>8, <1>9, <1>10, <1>11 DEF Inv

\* insertMetaData up to its first bucket.
LEMMA BeginInsertStep ==
    ASSUME Inv, NEW m \in Metas, BeginInsert(m)
    PROVE  Inv'
  <1> DEFINE pc == startPC[m]
             c == Search(pc)
             new == [meta |-> m, bucket |-> DetermineBucket(c, pc), prepared |-> FALSE, chain |-> 0]
  <1>1. /\ insertion = None /\ Known(pc) /\ tables' = tables
        /\ cachedPC' = pc /\ cachedTable' = TableFor(pc) /\ retrieved' = Remembered(pc)
        /\ registered' = registered /\ partial' = partial /\ search' = search
        /\ \A n \in registered \cup partial : n # m /\ ~Overlap(m, n)
    BY DEF BeginInsert, UpdateCache
  <1>2. Types /\ CacheInv /\ HeldAlive
    BY DEF Inv
  <1>3. pc \in Nat /\ endPC[m] \in Nat /\ pc =< endPC[m]
    BY MetasAssumption
  <1>4. c \in DOMAIN tables /\ c \in Caches /\ c.start =< pc /\ pc < c.end /\ pc # 0
    BY <1>1, <1>2, <1>3, SearchFacts
  <1>5. TableFor(pc) = c /\ c # None
    BY <1>1, <1>2, <1>3, TableOfPC DEF Known
  <1>6. insertion' = None \/ (insertion' = new /\ InTable(c, m) /\ pc # endPC[m])
    BY <1>5 DEF BeginInsert
  <1>7. insertion' = new => Lies(m, c)
    <2>1. None # new
      <3>1. DetermineBucket(c, pc) \in Nat
        BY <1>3, <1>4, BucketOfPC
      <3>2. new \in [meta : Metas, bucket : Nat, prepared : BOOLEAN, chain : Int]
        BY <3>1
      <3> QED BY <3>2, NoneAssumption
    <2> QED BY <1>3, <1>6, <2>1 DEF Lies
  <1> HIDE DEF c
  <1>8. Alive = registered \cup partial /\ (Alive' = Alive \/ Alive' = Alive \cup {m})
    BY <1>1, <1>6 DEF Alive, Inserting
  <1>9. Types'
    <2>1. DetermineBucket(c, pc) \in Nat
      BY <1>3, <1>4, BucketOfPC
    <2>2. new \in [meta : Metas, bucket : Nat, prepared : BOOLEAN, chain : Int]
      BY <2>1
    <2>3. retrieved' \in Metas \cup {None}
      BY <1>1, <1>2 DEF Remembered, Types
    <2> QED BY <1>1, <1>2, <1>3, <1>6, <2>2, <2>3 DEF Types
  <1>10. TablesInv' /\ RegisteredHeld' /\ SearchInv'
    BY <1>1 DEF Inv, TablesInv, RegisteredHeld, SearchInv
  <1>11. AliveApart'
    <2>1. \A n \in Alive : ~Overlap(m, n) /\ ~Overlap(n, m)
      BY <1>1, <1>8 DEF Overlap
    <2>2. AliveApart
      BY DEF Inv
    <2> QED BY <1>8, <2>1, <2>2 DEF AliveApart
  <1>12. HeldAlive'
    <2>1. Alive \subseteq Alive'
      BY <1>8
    <2> QED BY <1>1, <1>2, <2>1 DEF HeldAlive
  <1>13. CacheInv'
    <2>1. ASSUME retrieved' # None
          PROVE  Covers(retrieved', pc) /\ Holds(tables[c], DetermineBucket(c, pc), retrieved')
      <3>1. pc = cachedPC /\ retrieved' = retrieved /\ retrieved # None
        BY <1>1, <2>1 DEF Remembered
      <3>2. c = cachedTable
        BY <1>5, <3>1 DEF TableFor
      <3> QED BY <1>2, <3>1, <3>2 DEF CacheInv
    <2> QED BY <1>1, <1>4, <1>5, <2>1 DEF CacheInv
  <1>14. InsertionInv' /\ PreparedInv'
    <2>1. CASE insertion' = None
      BY <2>1 DEF InsertionInv, PreparedInv
    <2>2. CASE insertion' = new
      <3>1. Lies(m, c)
        BY <1>7, <2>2
      <3>2. /\ BucketsOf(c, m) \subseteq 0 .. DetermineBucket(c, c.end)
            /\ DetermineBucket(c, pc) \in BucketsOf(c, m)
            /\ \A b \in BucketsOf(c, m) : ~(b < DetermineBucket(c, pc))
        BY <1>4, <3>1, BucketRange DEF BucketsOf
      <3>3. \A b \in BucketsOf(c, m) : ~Holds(tables[c], b, m)
        BY <1>1, <1>2, <1>4, <1>8, <3>2 DEF HeldAlive
      <3>4. insertion'.meta = m /\ insertion'.bucket = DetermineBucket(c, pc)
            /\ insertion'.prepared = FALSE /\ insertion'.chain = 0
        BY <2>2
      <3>5. PreparedInv'
        BY <3>4 DEF PreparedInv
      <3>6. m \notin registered \cup partial
        BY <1>1
      <3>7. InsertionInv'
        BY <1>1, <1>4, <1>5, <3>1, <3>2, <3>3, <3>4, <3>6 DEF InsertionInv
      <3> QED BY <3>5, <3>7
    <2> QED BY <1>6, <2>1, <2>2
  <1> QED BY <1>9, <1>10, <1>11, <1>12, <1>13, <1>14 DEF Inv

\* No memory for a method store.
LEMMA PrepareFailsStep ==
    ASSUME Inv, PrepareFails
    PROVE  Inv'
  <1>1. /\ insertion # None /\ insertion' = None /\ partial' = partial \cup {insertion.meta}
        /\ tables' = tables /\ cachedPC' = cachedPC /\ cachedTable' = cachedTable
        /\ retrieved' = retrieved /\ registered' = registered /\ search' = search
    BY DEF PrepareFails, OutOfMemory, cached
  <1>2. Alive' = Alive
    BY <1>1 DEF Alive, Inserting
  <1>3. Types'
    BY <1>1 DEF Inv, Types
  <1>4. TablesInv' /\ AliveApart' /\ RegisteredHeld' /\ HeldAlive'
    BY <1>1, <1>2 DEF Inv, TablesInv, AliveApart, RegisteredHeld, HeldAlive
  <1>5. CacheInv' /\ SearchInv'
    BY <1>1 DEF Inv, CacheInv, SearchInv
  <1>6. InsertionInv' /\ PreparedInv'
    BY <1>1 DEF InsertionInv, PreparedInv
  <1> QED BY <1>3, <1>4, <1>5, <1>6 DEF Inv

\* A step that changes only the search.
LEMMA OnlySearch ==
    ASSUME Inv, UNCHANGED << tables, cached, insertion, registered, partial >>,
           search' = None \/ search' \in [cache : Caches, pc : Nat, at : Nat, due : SUBSET Metas],
           SearchInv'
    PROVE  Inv'
  <1>1. /\ tables' = tables /\ cachedPC' = cachedPC /\ cachedTable' = cachedTable
        /\ retrieved' = retrieved /\ insertion' = insertion /\ registered' = registered
        /\ partial' = partial
    BY DEF cached
  <1>2. Alive' = Alive
    BY <1>1 DEF Alive, Inserting
  <1>3. Types'
    BY <1>1 DEF Inv, Types
  <1>4. TablesInv' /\ AliveApart' /\ RegisteredHeld' /\ HeldAlive'
    BY <1>1, <1>2 DEF Inv, TablesInv, AliveApart, RegisteredHeld, HeldAlive
  <1>5. CacheInv' /\ InsertionInv'
    BY <1>1 DEF Inv, CacheInv, InsertionInv
  <1>6. PreparedInv'
    BY <1>1 DEF Inv, PreparedInv, Here
  <1> QED BY <1>3, <1>4, <1>5, <1>6 DEF Inv

\* A search begins.
LEMMA BeginSearchStep ==
    ASSUME Inv, NEW c \in Caches, NEW pc \in Nat, BeginSearch(c, pc)
    PROVE  Inv'
  <1> DEFINE t == tables[c]
             b == DetermineBucket(c, pc)
             a == t.buckets[b].chain
             e == ChainEnd(t, a)
             D == {m \in registered : Covers(m, pc)}
  <1>1. /\ c \in DOMAIN tables /\ c.start =< pc /\ pc < c.end /\ a # 0
        /\ search' = [cache |-> c, pc |-> pc, at |-> a, due |-> D]
        /\ UNCHANGED << tables, cached, insertion, registered, partial >>
    BY DEF BeginSearch
  <1>2. Types /\ RegisteredHeld /\ Sound(c, t)
    BY <1>1 DEF Inv, TablesInv
  <1>3. b \in DOMAIN t.buckets
    BY <1>1, <1>2, BucketOfPC, SoundFacts
  <1>4. b \in ChainBuckets(t)
    BY <1>1, <1>2, <1>3, SoundFacts
  <1>5. /\ Linked(t, a, e) /\ Settled(t, e) /\ a \in Nat /\ e \in Nat
        /\ \A m : Holds(t, b, m) <=> InSlots(t, a, e, m)
    BY <1>2, <1>4, ChainFacts DEF GoodChain
  <1>6. ASSUME NEW m \in D PROVE InSlots(t, a, e, m)
    <2>1. Search(pc) = c
      BY <1>1, <1>2, SearchFacts
    <2>2. Holds(t, b, m)
      BY <1>2, <2>1, RegisteredFound DEF HeldFor
    <2> QED BY <1>5, <2>2
  <1> HIDE DEF e
  <1>7. D \in SUBSET Metas
    BY <1>2 DEF Types
  <1>8. SearchInv'
    <2>1. /\ search'.cache = c /\ search'.at = a /\ search'.due = D /\ search'.pc = pc
          /\ tables' = tables
      BY <1>1
    <2>2. \A m \in D : Covers(m, pc)
      OBVIOUS
    <2> HIDE DEF D, a
    <2> QED BY <1>1, <1>5, <1>6, <2>1, <2>2 DEF SearchInv
  <1>9. search' \in [cache : Caches, pc : Nat, at : Nat, due : SUBSET Metas]
    <2> HIDE DEF D, a
    <2> QED BY <1>1, <1>5, <1>7
  <1> QED BY <1>1, <1>8, <1>9, OnlySearch

\* A search comes to a slot.
LEMMA SearchSlotStep ==
    ASSUME Inv, SearchSlot
    PROVE  Inv'
  <1> DEFINE t == tables[search.cache]
             p == search.at
             s == t.slots[p]
  <1>1. /\ search # None
        /\ search' = IF s.tagged \/ s.meta = None \/ Covers(s.meta, search.pc) THEN None
                     ELSE [search EXCEPT !.at = p + 1]
        /\ UNCHANGED << tables, cached, insertion, registered, partial >>
    BY DEF SearchSlot
  <1>2. CASE s.tagged \/ s.meta = None \/ Covers(s.meta, search.pc)
    <2>1. search' = None
      BY <1>1, <1>2
    <2>2. SearchInv'
      BY <2>1 DEF SearchInv
    <2> QED BY <1>1, <2>1, <2>2, OnlySearch
  <1>3. CASE ~(s.tagged \/ s.meta = None \/ Covers(s.meta, search.pc))
    <2>1. search \in [cache : Caches, pc : Nat, at : Nat, due : SUBSET Metas]
      BY <1>1 DEF Inv, Types
    <2>2. /\ search' = [search EXCEPT !.at = p + 1] /\ search'.cache = search.cache
          /\ search'.at = p + 1 /\ search'.due = search.due /\ search'.pc = search.pc
          /\ search' \in [cache : Caches, pc : Nat, at : Nat, due : SUBSET Metas]
      BY <1>1, <1>3, <2>1
    <2>3. search.cache \in DOMAIN tables /\ \A m \in search.due : Covers(m, search.pc)
      BY <1>1 DEF Inv, SearchInv
    <2>4. PICK e \in Nat : /\ Linked(t, p, e) /\ Settled(t, e)
                           /\ \A m \in search.due : InSlots(t, p, e, m)
      BY <1>1 DEF Inv, SearchInv
    <2>5. /\ p \in Nat /\ p =< e /\ e < Len(t.slots) /\ 1 =< p /\ t.slots[e].tagged
          /\ \A i \in p .. e : t.slots[i].meta # None /\ (i < e => ~t.slots[i].tagged)
      BY <2>4 DEF Linked
    <2>6. p # e
      BY <1>3, <2>5
    <2>7. p + 1 =< e /\ p + 1 \in Nat
      BY <2>5, <2>6
    <2>8. Linked(t, p + 1, e)
      <3>1. \A i \in p + 1 .. e : i \in p .. e
        BY <2>5
      <3> QED BY <2>5, <2>7, <3>1 DEF Linked
    <2>9. ASSUME NEW m \in search.due PROVE InSlots(t, p + 1, e, m)
      <3>1. PICK i \in p .. e : t.slots[i].meta = m
        BY <2>4 DEF InSlots
      <3>2. i # p
        BY <1>3, <2>3, <3>1
      <3>3. i \in p + 1 .. e
        BY <2>5, <3>2
      <3> QED BY <3>1, <3>3 DEF InSlots
    <2>10. SearchInv'
      <3>1. tables' = tables
        BY <1>1
      <3> QED BY <2>2, <2>3, <2>4, <2>8, <2>9, <3>1 DEF SearchInv
    <2> QED BY <1>1, <2>2, <2>10, OnlySearch
  <1> QED BY <1>2, <1>3

\* Entries that are kept keep the searches.
LEMMA PathsStay ==
    ASSUME NEW c \in Caches, NEW d \in Caches, NEW t, NEW u, Sound(c, t), Sound(d, u),
           KeepsEntries(t, u)
    PROVE  PathsGrow(t, u)
  <1>1. Sized(t) /\ Sized(u)
    BY SoundFacts DEF Sized
  <1> SUFFICES ASSUME NEW p, NEW q, Linked(t, p, q), Settled(t, q)
               PROVE  \E r \in Nat : /\ Linked(u, p, r) /\ Settled(u, r)
                                     /\ \A n : InSlots(t, p, q, n) => InSlots(u, p, r, n)
    BY DEF PathsGrow
  <1>2. Linked(u, p, q) /\ Settled(u, q) /\ SameSlots(t, u, p, q)
    BY <1>1, PathKept
  <1>3. \A n : InSlots(t, p, q, n) => InSlots(u, p, q, n)
    BY <1>2 DEF InSlots, SameSlots
  <1>4. q \in Nat
    BY DEF Linked
  <1> QED BY <1>2, <1>3, <1>4

\* And so do several changes, one after the other.
LEMMA PathsTwice ==
    ASSUME NEW t, NEW x, NEW u, PathsGrow(t, x), PathsGrow(x, u)
    PROVE  PathsGrow(t, u)
  <1> SUFFICES ASSUME NEW p, NEW q, Linked(t, p, q), Settled(t, q)
               PROVE  \E r \in Nat : /\ Linked(u, p, r) /\ Settled(u, r)
                                     /\ \A n : InSlots(t, p, q, n) => InSlots(u, p, r, n)
    BY DEF PathsGrow
  <1>1. PICK r \in Nat : /\ Linked(x, p, r) /\ Settled(x, r)
                         /\ \A n : InSlots(t, p, q, n) => InSlots(x, p, r, n)
    BY DEF PathsGrow
  <1>2. PICK v \in Nat : /\ Linked(u, p, v) /\ Settled(u, v)
                         /\ \A n : InSlots(x, p, r, n) => InSlots(u, p, v, n)
    BY <1>1 DEF PathsGrow
  <1> QED BY <1>1, <1>2

\* A step puts u in the place of the table of c.
Replaces(c, u) ==
  /\ DOMAIN tables' = DOMAIN tables /\ tables'[c] = u
  /\ \A d \in DOMAIN tables : d # c => tables'[d] = tables[d]

LEMMA ReplacesTable ==
    ASSUME NEW c \in DOMAIN tables, NEW u, tables' = [tables EXCEPT ![c] = u]
    PROVE  Replaces(c, u)
  BY DEF Replaces

\* A search goes on in a table in which the paths grow.
LEMMA SearchGoesOn ==
    ASSUME Types, SearchInv, NEW c \in DOMAIN tables, NEW u, Replaces(c, u),
           PathsGrow(tables[c], u), search' = search
    PROVE  SearchInv'
  <1> SUFFICES ASSUME search # None
               PROVE  /\ search.cache \in DOMAIN tables'
                      /\ \A m \in search.due : Covers(m, search.pc)
                      /\ \E e \in Nat :
                           /\ Linked(tables'[search.cache], search.at, e)
                           /\ Settled(tables'[search.cache], e)
                           /\ \A m \in search.due : InSlots(tables'[search.cache], search.at, e, m)
    BY DEF SearchInv
  <1> DEFINE d == search.cache
             p == search.at
  <1>1. d \in DOMAIN tables /\ \A m \in search.due : Covers(m, search.pc)
    BY DEF SearchInv
  <1>2. PICK e \in Nat : /\ Linked(tables[d], p, e) /\ Settled(tables[d], e)
                         /\ \A m \in search.due : InSlots(tables[d], p, e, m)
    BY DEF SearchInv
  <1>3. DOMAIN tables' = DOMAIN tables
    BY DEF Replaces
  <1>4. CASE d # c
    <2>1. tables'[d] = tables[d]
      BY <1>1, <1>4 DEF Replaces
    <2> QED BY <1>1, <1>2, <1>3, <2>1
  <1>5. CASE d = c
    <2>1. tables'[d] = u
      BY <1>1, <1>5 DEF Replaces
    <2>2. PICK r \in Nat : /\ Linked(u, p, r) /\ Settled(u, r)
                           /\ \A n : InSlots(tables[d], p, e, n) => InSlots(u, p, r, n)
      <3> HIDE DEF p
      <3> QED BY <1>2, <1>5 DEF PathsGrow
    <2> QED BY <1>1, <1>2, <1>3, <2>1, <2>2
  <1> QED BY <1>4, <1>5

\* Where an insertion is.
LEMMA InsertionFacts ==
    ASSUME Inv, insertion # None
    PROVE  LET c == cachedTable
               t == tables[c]
               b == insertion.bucket
               m == insertion.meta
           IN /\ c \in DOMAIN tables /\ c \in Caches /\ Sound(c, t)
              /\ b \in DOMAIN t.buckets /\ b \in Nat /\ b \in BucketsOf(c, m)
              /\ m \in Metas /\ m \in Alive /\ Lies(m, c) /\ ~Holds(t, b, m)
              /\ insertion \in [meta : Metas, bucket : Nat, prepared : BOOLEAN, chain : Int]
              /\ insertion = [meta |-> m, bucket |-> b, prepared |-> insertion.prepared,
                              chain |-> insertion.chain]
  <1> DEFINE c == cachedTable
             t == tables[c]
             b == insertion.bucket
             m == insertion.meta
  <1>1. insertion \in [meta : Metas, bucket : Nat, prepared : BOOLEAN, chain : Int]
    BY DEF Inv, Types
  <1>2. /\ cachedPC # 0 /\ Lies(m, c) /\ b \in BucketsOf(c, m)
        /\ \A d \in BucketsOf(c, m) : Holds(t, d, m) <=> d < b
    BY DEF Inv, InsertionInv
  <1>3. c \in DOMAIN tables /\ c \in Caches /\ Sound(c, t)
    BY <1>2 DEF Inv, CacheInv, Types, TablesInv
  <1>4. m \in Metas /\ b \in Nat /\ insertion = [meta |-> m, bucket |-> b,
           prepared |-> insertion.prepared, chain |-> insertion.chain]
    BY <1>1
  <1>5. m \in Alive
    BY DEF Alive, Inserting
  <1>6. ~Holds(t, b, m)
    BY <1>2, <1>4
  <1>7. b \in DOMAIN t.buckets
    BY <1>2, <1>3, <1>4, BucketRange, SoundFacts
  <1> QED BY <1>1, <1>2, <1>3, <1>4, <1>5, <1>6, <1>7

\* A copied chain and one more entry fit in a new store: the methods of a bucket
\* do not overlap.
LEMMA RoomInStore ==
    ASSUME Inv, insertion # None, Here # EmptyBucket
    PROVE  Len(Entries(tables[cachedTable], insertion.bucket)) + 1 =< StoreSize
  <1> DEFINE c == cachedTable
             t == tables[c]
             b == insertion.bucket
             m == insertion.meta
             E == Entries(t, b)
             k == Len(E)
             ms == {E[i].meta : i \in 1 .. k} \cup {m}
             Near == {x \in Metas : InTable(c, x) /\ startPC[x] < endPC[x] /\ b \in BucketsOf(c, x)}
             f == [i \in 1 .. k + 1 |-> IF i = k + 1 THEN m ELSE E[i].meta]
  <1>1. /\ c \in DOMAIN tables /\ c \in Caches /\ Sound(c, t) /\ b \in DOMAIN t.buckets
        /\ b \in BucketsOf(c, m) /\ m \in Metas /\ m \in Alive /\ Lies(m, c) /\ ~Holds(t, b, m)
    BY InsertionFacts
  <1>2. b \in 0 .. DetermineBucket(c, c.end)
    BY <1>1, SoundFacts
  <1>3. GoodEntries(E)
    BY <1>1, EntriesGood DEF Here
  <1>4. k \in Nat /\ \A i, j \in 1 .. k : E[i].meta = E[j].meta => i = j
    BY <1>3 DEF GoodEntries
  <1>5. \A i \in 1 .. k : E[i].meta \in Metas /\ E[i].meta # m /\ Holds(t, b, E[i].meta)
    <2> SUFFICES ASSUME NEW i \in 1 .. k
                 PROVE  E[i].meta \in Metas /\ E[i].meta # m /\ Holds(t, b, E[i].meta)
      OBVIOUS
    <2>1. Holds(t, b, E[i].meta)
      BY DEF Holds
    <2>2. E[i] \in SlotType /\ E[i].meta # None
      BY <1>3, ElementOfSeq DEF GoodEntries
    <2> QED BY <1>1, <2>1, <2>2 DEF SlotType
  <1>6. \A x \in ms : x \in Alive /\ x \in Near
    <2>1. HeldAlive
      BY DEF Inv
    <2>2. \A x \in Metas : Holds(t, b, x) => x \in Alive /\ Lies(x, c) /\ b \in BucketsOf(c, x)
      BY <1>1, <1>2, <2>1 DEF HeldAlive
    <2> HIDE DEF t, E, k
    <2> QED BY <1>1, <1>5, <2>2 DEF Lies
  <1>7. \A x, y \in ms : x # y => ~Overlap(x, y)
    <2> HIDE DEF ms
    <2> QED BY <1>6 DEF Inv, AliveApart
  <1>8. ms \in SUBSET Near
    <2> HIDE DEF ms, Near
    <2> QED BY <1>6
  <1>9. Cardinality(ms) =< StoreSize
    <2> HIDE DEF ms, b, c
    <2> QED BY <1>1, <1>2, <1>7, <1>8, RoomAssumption
  <1>10. IsFiniteSet(ms) /\ Cardinality(ms) \in Nat
    <2>1. ms \subseteq Metas
      BY <1>8
    <2> HIDE DEF ms
    <2> QED BY <2>1, MetasAssumption, FS_Subset, FS_CardinalityType
  <1> HIDE DEF E, k, m
  <1>11. f \in [1 .. k + 1 -> ms] /\ \A i, j \in 1 .. k + 1 : f[i] = f[j] => i = j
    <2>1. ASSUME NEW i \in 1 .. k + 1 PROVE f[i] \in ms /\ (i # k + 1 => i \in 1 .. k)
      BY <1>4
    <2>2. f \in [1 .. k + 1 -> ms]
      BY <2>1
    <2>3. ASSUME NEW i \in 1 .. k + 1, NEW j \in 1 .. k + 1, f[i] = f[j] PROVE i = j
      BY <1>4, <1>5, <2>1, <2>3
    <2> QED BY <2>2, <2>3
  <1>12. f \in Injection(1 .. k + 1, ms)
    <2> HIDE DEF f, ms
    <2> QED BY <1>11 DEF Injection, IsInjective
  <1>13. Cardinality(1 .. k + 1) =< Cardinality(ms)
    <2> HIDE DEF f, ms
    <2> QED BY <1>10, <1>12, FS_Injection
  <1>14. Cardinality(1 .. k + 1) = k + 1
    BY <1>4, FS_Interval
  <1>15. k + 1 =< StoreSize
    <2> HIDE DEF ms
    <2> QED BY <1>4, <1>9, <1>10, <1>13, <1>14, StoreAssumption
  <1> QED BY <1>15 DEF k, E

\* A step of the insertion that leaves the content of the tables alone.
LEMMA ContentKept ==
    ASSUME Inv, insertion # None, NEW u, Sound(cachedTable, u),
           SameContent(tables[cachedTable], u), PathsGrow(tables[cachedTable], u),
           Replaces(cachedTable, u), NEW n \in Int,
           insertion' = [insertion EXCEPT !.prepared = TRUE, !.chain = n],
           UNCHANGED << cached, registered, partial, search >>, PreparedInv'
    PROVE  Inv'
  <1> DEFINE c == cachedTable
             t == tables[c]
             m == insertion.meta
             b == insertion.bucket
  <1>1. /\ cachedPC' = cachedPC /\ cachedTable' = c /\ retrieved' = retrieved
        /\ registered' = registered /\ partial' = partial /\ search' = search
    BY DEF cached
  <1>2. /\ c \in DOMAIN tables /\ c \in Caches /\ Sound(c, t) /\ m \in Metas
        /\ insertion \in [meta : Metas, bucket : Nat, prepared : BOOLEAN, chain : Int]
    BY InsertionFacts
  <1>3. /\ insertion' \in [meta : Metas, bucket : Nat, prepared : BOOLEAN, chain : Int]
        /\ insertion'.meta = m /\ insertion'.bucket = b /\ insertion'.prepared = TRUE
        /\ insertion' # None
    BY <1>2, NoneAssumption
  <1>4. /\ DOMAIN tables' = DOMAIN tables /\ tables'[c] = u
        /\ \A d \in DOMAIN tables : d # c => tables'[d] = tables[d]
    BY DEF Replaces
  <1>5. Alive' = Alive
    BY <1>1, <1>3 DEF Alive, Inserting
  <1>6. ASSUME NEW d \in DOMAIN tables, NEW e \in 0 .. DetermineBucket(d, d.end), NEW x
        PROVE  Holds(tables'[d], e, x) <=> Holds(tables[d], e, x)
    <2>1. CASE d = c
      <3>1. e \in DOMAIN t.buckets
        BY <1>2, <2>1, SoundFacts
      <3> QED BY <1>4, <2>1, <3>1 DEF SameContent
    <2>2. CASE d # c
      BY <1>4, <2>2
    <2> QED BY <2>1, <2>2
  <1>d. \A d \in DOMAIN tables : d \in Caches
    BY DEF Inv, Types
  <1>7. \A d \in DOMAIN tables, x \in Metas : Lies(x, d) =>
          BucketsOf(d, x) \subseteq 0 .. DetermineBucket(d, d.end)
    BY <1>d, BucketRange
  <1>8. Types'
    BY <1>1, <1>3, <1>4 DEF Inv, Types
  <1>9. TablesInv'
    BY <1>4 DEF Inv, TablesInv
  <1>10. AliveApart'
    BY <1>5 DEF Inv, AliveApart
  <1>11. RegisteredHeld'
    <2> SUFFICES ASSUME NEW x \in registered
                 PROVE  \E d \in DOMAIN tables' :
                          Lies(x, d) /\ \A e \in BucketsOf(d, x) : Holds(tables'[d], e, x)
      BY <1>1 DEF RegisteredHeld
    <2>1. PICK d \in DOMAIN tables :
            Lies(x, d) /\ \A e \in BucketsOf(d, x) : Holds(tables[d], e, x)
      BY DEF Inv, RegisteredHeld
    <2>2. x \in Metas
      BY DEF Inv, Types
    <2>3. \A e \in BucketsOf(d, x) : Holds(tables'[d], e, x)
      BY <1>6, <1>7, <2>1, <2>2
    <2> QED BY <1>4, <2>1, <2>3
  <1>12. HeldAlive'
    <2> SUFFICES ASSUME NEW d \in DOMAIN tables, NEW e \in 0 .. DetermineBucket(d, d.end),
                        NEW x \in Metas, Holds(tables'[d], e, x)
                 PROVE  /\ x \in Alive /\ Lies(x, d) /\ e \in BucketsOf(d, x)
                        /\ \A g \in BucketsOf(d, x) : g =< e => Holds(tables'[d], g, x)
      BY <1>4, <1>5 DEF HeldAlive
    <2>1. Holds(tables[d], e, x)
      BY <1>6
    <2>2. /\ x \in Alive /\ Lies(x, d) /\ e \in BucketsOf(d, x)
          /\ \A g \in BucketsOf(d, x) : g =< e => Holds(tables[d], g, x)
      BY <2>1 DEF Inv, HeldAlive
    <2> QED BY <1>6, <1>7, <2>2
  <1>13. CacheInv'
    <2>1. CacheInv
      BY DEF Inv
    <2>2. ASSUME retrieved # None
          PROVE  Holds(tables'[c], DetermineBucket(c, cachedPC), retrieved)
      <3>1. /\ Holds(tables[c], DetermineBucket(c, cachedPC), retrieved)
            /\ c.start =< cachedPC /\ cachedPC < c.end /\ cachedPC \in Nat
        BY <2>1, <2>2 DEF CacheInv, Inv, Types
      <3> QED BY <1>2, <1>6, <3>1, BucketOfPC
    <2> QED BY <1>1, <1>4, <2>1, <2>2 DEF CacheInv
  <1>14. InsertionInv'
    <2>1. /\ cachedPC # 0 /\ m \notin registered \cup partial /\ Lies(m, c) /\ b \in BucketsOf(c, m)
          /\ \A e \in BucketsOf(c, m) : Holds(tables[c], e, m) <=> e < b
      BY DEF Inv, InsertionInv
    <2>2. \A e \in BucketsOf(c, m) : Holds(tables'[c], e, m) <=> e < b
      BY <1>2, <1>6, <1>7, <2>1
    <2> QED BY <1>1, <1>3, <2>1, <2>2 DEF InsertionInv
  <1>15. SearchInv'
    BY <1>1, <1>2, SearchGoesOn DEF Inv
  <1> QED BY <1>8, <1>9, <1>10, <1>11, <1>12, <1>13, <1>14, <1>15 DEF Inv

\* insertMetaDataArrayInHash up to the write barrier.
LEMMA PrepareStep ==
    ASSUME Inv, Prepare
    PROVE  Inv'
  <1> DEFINE c == cachedTable
             t == tables[c]
             m == insertion.meta
             b == insertion.bucket
             a == t.buckets[b].chain
             new == << Slot(m, FALSE) >> \o Entries(t, b)
             Into(x) == /\ tables' = [tables EXCEPT ![c] = Writing(x, new)]
                        /\ insertion' = [insertion EXCEPT !.prepared = TRUE, !.chain = x.currentAllocate]
  <1>0. insertion # None /\ ~insertion.prepared
    BY DEF Prepare
  <1>1. UNCHANGED << cached, registered, partial, search >> /\ cachedTable' = c
    BY DEF Prepare, cached
  <1>2. /\ c \in DOMAIN tables /\ c \in Caches /\ Sound(c, t) /\ b \in DOMAIN t.buckets
        /\ m \in Metas
        /\ insertion \in [meta : Metas, bucket : Nat, prepared : BOOLEAN, chain : Int]
    BY <1>0, InsertionFacts
  <1>3. /\ Here = t.buckets[b] /\ NewChain(t, m) = new
    BY DEF Here, NewChain
  <1>4. insertion.chain = 0
    BY <1>0 DEF Inv, InsertionInv
  <1>6. CASE Here = EmptyBucket /\ tables' = tables /\ insertion' = [insertion EXCEPT !.prepared = TRUE]
    <2>1. Replaces(c, t)
      BY <1>2, <1>6 DEF Replaces
    <2>2. SameContent(t, t)
      BY DEF SameContent
    <2>3. PathsGrow(t, t)
      <3>1. KeepsEntries(t, t)
        <4>1. Len(t.slots) \in Nat
          BY <1>2, SoundFacts
        <4> QED BY <4>1 DEF KeepsEntries
      <3> QED BY <1>2, <3>1, PathsStay
    <2>4. insertion' = [insertion EXCEPT !.prepared = TRUE, !.chain = 0]
      BY <1>2, <1>4, <1>6
    <2>5. insertion'.bucket = b /\ insertion'.chain = 0
      BY <1>2, <2>4
    <2>6. Here' = EmptyBucket
      BY <1>1, <1>6, <2>5 DEF Here
    <2>7. PreparedInv'
      BY <2>5, <2>6 DEF PreparedInv
    <2> HIDE DEF t, c
    <2>8. 0 \in Int
      OBVIOUS
    <2> QED BY <1>0, <1>1, <1>2, <2>1, <2>2, <2>3, <2>4, <2>7, <2>8, ContentKept DEF c, t
  <1>7. CASE /\ RoomBehind(t, a) /\ tables' = [tables EXCEPT ![c] = ExtendChain(t, a, m)]
             /\ insertion' = [insertion EXCEPT !.prepared = TRUE, !.chain = -ChainEnd(t, a)]
    <2> DEFINE u == ExtendChain(t, a, m)
               e == ChainEnd(t, a)
               n == -e
    <2>1. /\ Sound(c, u) /\ SameContent(t, u) /\ KeepsEntries(t, u) /\ SecondEnd(u, b, e)
          /\ e \in Nat /\ e > 0
      BY <1>2, <1>7, ChainExtended
    <2>2. PathsGrow(t, u)
      BY <1>2, <2>1, PathsStay
    <2>3. Replaces(c, u)
      BY <1>2, <1>7, ReplacesTable
    <2> HIDE DEF u, e
    <2>4. n \in Int /\ n < 0 /\ -n = e
      BY <2>1
    <2>5. insertion' = [insertion EXCEPT !.prepared = TRUE, !.chain = n]
      BY <1>7 DEF e
    <2> HIDE DEF n
    <2>6. insertion'.bucket = b /\ insertion'.chain = n
      BY <1>2, <2>4, <2>5
    <2>7. tables'[c] = u
      BY <2>3 DEF Replaces
    <2>8. PreparedInv'
      BY <1>1, <2>1, <2>4, <2>6, <2>7 DEF PreparedInv
    <2> QED BY <1>0, <1>1, <1>2, <2>1, <2>2, <2>3, <2>4, <2>5, <2>8, ContentKept
  <1>8. ASSUME t.buckets[b] # EmptyBucket, NEW x, Sound(c, x), SameContent(t, x), PathsGrow(t, x),
               Fits(x, Len(new)), Into(x)
        PROVE  Inv'
    <2> DEFINE u == Writing(x, new)
               n == x.currentAllocate
    <2>1. /\ b \in DOMAIN x.buckets /\ x.buckets[b] # EmptyBucket /\ Entries(x, b) = Entries(t, b)
      BY <1>2, <1>8 DEF SameContent
    <2>2. /\ Sound(c, u) /\ SameContent(x, u) /\ KeepsEntries(x, u) /\ FreshChain(u, b, m, n)
          /\ n \in Nat /\ n > 0
      BY <1>2, <1>8, <2>1, FreshlyWritten
    <2>3. PathsGrow(t, u)
      <3> HIDE DEF u
      <3>1. PathsGrow(x, u)
        BY <1>2, <1>8, <2>2, PathsStay
      <3> QED BY <1>8, <3>1, PathsTwice
    <2>4. SameContent(t, u)
      <3> HIDE DEF u
      <3> QED BY <1>8, <2>2 DEF SameContent
    <2>5. /\ Replaces(c, u)
          /\ insertion' = [insertion EXCEPT !.prepared = TRUE, !.chain = n]
      BY <1>2, <1>8, ReplacesTable
    <2> HIDE DEF u, n
    <2>6. insertion'.meta = m /\ insertion'.bucket = b /\ insertion'.chain = n /\ n \in Int
      BY <1>2, <2>2, <2>5
    <2>7. tables'[c] = u
      BY <2>5 DEF Replaces
    <2>8. PreparedInv'
      BY <1>1, <2>2, <2>6, <2>7 DEF PreparedInv
    <2> QED BY <1>0, <1>1, <1>2, <2>2, <2>3, <2>4, <2>5, <2>6, <2>8, ContentKept
  <1>9. CASE t.buckets[b] # EmptyBucket /\ Fits(t, Len(new)) /\ Into(t)
    <2>1. SameContent(t, t)
      BY DEF SameContent
    <2>2. PathsGrow(t, t)
      <3>1. KeepsEntries(t, t)
        <4>1. Len(t.slots) \in Nat
          BY <1>2, SoundFacts
        <4> QED BY <4>1 DEF KeepsEntries
      <3> QED BY <1>2, <3>1, PathsStay
    <2> HIDE DEF Into, new
    <2> QED BY <1>2, <1>8, <1>9, <2>1, <2>2
  <1>10. CASE t.buckets[b] # EmptyBucket /\ Into(AllocateMethodStore(t))
    <2> DEFINE x == AllocateMethodStore(t)
    <2>1. /\ Sound(c, x) /\ SameContent(t, x) /\ KeepsEntries(t, x)
          /\ x.currentAllocate + StoreSize = Len(x.slots)
      BY <1>2, StoreAdded
    <2> HIDE DEF x
    <2>2. PathsGrow(t, x)
      BY <1>2, <2>1, PathsStay
    <2>3. Len(new) + 0 =< StoreSize /\ Len(new) \in Nat
      <3> DEFINE E == Entries(t, b)
                 w == << Slot(m, FALSE) >>
      <3>1. E \in Seq(SlotType) /\ Len(E) \in Nat
        BY <1>2, <1>10, EntriesGood DEF GoodEntries
      <3>2. Len(E) + 1 =< StoreSize
        BY <1>0, <1>3, <1>10, RoomInStore
      <3> DEFINE v == Slot(m, FALSE)
      <3>3. v \in SlotType /\ w = << v >>
        BY <1>2, SlotTypes
      <3> HIDE DEF E, w, v
      <3>4. w \in Seq(SlotType) /\ Len(w) = 1
        BY <3>3
      <3>5. Len(w \o E) = Len(w) + Len(E)
        BY <3>1, <3>4, ConcatProperties
      <3>6. Len(w \o E) =< StoreSize /\ Len(w \o E) \in Nat
        BY <3>1, <3>2, <3>4, <3>5, StoreAssumption
      <3> QED BY <3>6, StoreAssumption DEF E, w
    <2>4. Fits(x, Len(new))
      <3> DEFINE y == x.currentAllocate
                 L == Len(x.slots)
                 k == Len(new)
      <3>1. y \in Nat /\ L \in Nat /\ y + StoreSize = L /\ StoreSize \in Nat
        BY <1>2, <2>1, SoundFacts, StoreAssumption
      <3>2. k \in Nat /\ k + 0 =< StoreSize
        BY <2>3
      <3> HIDE DEF y, L, k
      <3>3. y + k =< L
        BY <3>1, <3>2
      <3> QED BY <3>3 DEF Fits, MethodStoreEnd, y, L, k
    <2>5. Into(x)
      BY <1>10 DEF x
    <2> HIDE DEF Into, new
    <2> QED BY <1>8, <1>10, <2>1, <2>2, <2>4, <2>5
  <1>11. \/ Here = EmptyBucket /\ tables' = tables /\ insertion' = [insertion EXCEPT !.prepared = TRUE]
         \/ /\ RoomBehind(t, a) /\ tables' = [tables EXCEPT ![c] = ExtendChain(t, a, m)]
            /\ insertion' = [insertion EXCEPT !.prepared = TRUE, !.chain = -ChainEnd(t, a)]
         \/ t.buckets[b] # EmptyBucket /\ Fits(t, Len(new)) /\ Into(t)
         \/ t.buckets[b] # EmptyBucket /\ Into(AllocateMethodStore(t))
    BY <1>3 DEF Prepare
  <1> HIDE DEF Into, new
  <1> QED BY <1>6, <1>7, <1>9, <1>10, <1>11

\* The state behind the store that enters the method in a bucket: the insertion
\* is at the next bucket, or done.
Entered(c, m, b) ==
  LET more == MoreBuckets(c, m, b)
  IN /\ insertion' = IF more THEN [meta |-> m, bucket |-> b + 1, prepared |-> FALSE, chain |-> 0]
                     ELSE None
     /\ registered' = IF more THEN registered ELSE registered \cup {m}
     /\ UNCHANGED << cached, partial, search >>

\* A step that enters the method in the bucket the insertion is at.
LEMMA EntryEntered ==
    ASSUME Inv, insertion # None, NEW u, Sound(cachedTable, u),
           Adds(tables[cachedTable], u, insertion.bucket, insertion.meta),
           PathsGrow(tables[cachedTable], u), Replaces(cachedTable, u),
           Entered(cachedTable, insertion.meta, insertion.bucket)
    PROVE  Inv'
  <1> DEFINE c == cachedTable
             t == tables[c]
             m == insertion.meta
             b == insertion.bucket
             last == DetermineBucket(c, endPC[m])
             next == [meta |-> m, bucket |-> b + 1, prepared |-> FALSE, chain |-> 0]
  <1>1. cachedPC' = cachedPC /\ cachedTable' = c /\ retrieved' = retrieved
        /\ partial' = partial /\ search' = search
    BY DEF cached, Entered
  <1>2. /\ c \in DOMAIN tables /\ c \in Caches /\ Sound(c, t) /\ m \in Metas /\ Lies(m, c)
        /\ b \in Nat /\ b \in DOMAIN t.buckets /\ b \in BucketsOf(c, m)
    BY InsertionFacts
  <1>3. /\ cachedPC # 0 /\ m \notin registered \cup partial
        /\ \A e \in BucketsOf(c, m) : Holds(tables[c], e, m) <=> e < b
    BY DEF Inv, InsertionInv
  <1>4. /\ DOMAIN tables' = DOMAIN tables /\ tables'[c] = u
        /\ \A d \in DOMAIN tables : d # c => tables'[d] = tables[d]
    BY DEF Replaces
  <1>5. /\ last \in Nat /\ DetermineBucket(c, startPC[m]) \in Nat
        /\ BucketsOf(c, m) = DetermineBucket(c, startPC[m]) .. last
    BY <1>2, BucketRange DEF BucketsOf
  <1>6. \/ /\ b + 1 =< last /\ insertion' = next /\ registered' = registered
        \/ /\ ~(b + 1 =< last) /\ insertion' = None /\ registered' = registered \cup {m}
    BY DEF Entered, MoreBuckets
  <1>7. /\ next \in [meta : Metas, bucket : Nat, prepared : BOOLEAN, chain : Int]
        /\ next.meta = m /\ next.bucket = b + 1 /\ next.prepared = FALSE /\ next.chain = 0
        /\ next # None
    <2>1. next \in [meta : Metas, bucket : Nat, prepared : BOOLEAN, chain : Int]
      BY <1>2
    <2>2. next # None
      BY <2>1, NoneAssumption
    <2> QED BY <2>1, <2>2
  <1> HIDE DEF next
  <1>8. Alive' = Alive
    BY <1>1, <1>6, <1>7 DEF Alive, Inserting
  <1>9. ASSUME NEW d \in DOMAIN tables, NEW e \in 0 .. DetermineBucket(d, d.end), NEW x \in Metas
        PROVE  Holds(tables'[d], e, x) <=> Holds(tables[d], e, x) \/ (d = c /\ e = b /\ x = m)
    <2>1. CASE d = c
      <3>1. e \in DOMAIN t.buckets
        BY <1>2, <2>1, SoundFacts
      <3> QED BY <1>4, <2>1, <3>1 DEF Adds
    <2>2. CASE d # c
      BY <1>4, <2>2
    <2> QED BY <2>1, <2>2
  <1>d. \A d \in DOMAIN tables : d \in Caches
    BY DEF Inv, Types
  <1>10. \A d \in DOMAIN tables, x \in Metas : Lies(x, d) =>
           BucketsOf(d, x) \subseteq 0 .. DetermineBucket(d, d.end)
    BY <1>d, BucketRange
  <1>11. \A e \in BucketsOf(c, m) : Holds(tables'[c], e, m) <=> e < b + 1
    <2> SUFFICES ASSUME NEW e \in BucketsOf(c, m) PROVE Holds(tables'[c], e, m) <=> e < b + 1
      OBVIOUS
    <2>1. e \in 0 .. DetermineBucket(c, c.end) /\ e \in Nat
      BY <1>2, <1>5, <1>10
    <2>2. Holds(tables'[c], e, m) <=> Holds(tables[c], e, m) \/ e = b
      BY <1>2, <1>9, <2>1
    <2>3. Holds(tables[c], e, m) <=> e < b
      BY <1>3
    <2>4. e < b + 1 <=> e < b \/ e = b
      BY <1>2, <2>1
    <2> QED BY <2>2, <2>3, <2>4
  <1>12. Types'
    BY <1>1, <1>2, <1>4, <1>6, <1>7 DEF Inv, Types
  <1>13. TablesInv'
    BY <1>4 DEF Inv, TablesInv
  <1>14. AliveApart'
    BY <1>8 DEF Inv, AliveApart
  <1>15. RegisteredHeld'
    <2> SUFFICES ASSUME NEW x \in registered'
                 PROVE  \E d \in DOMAIN tables' :
                          Lies(x, d) /\ \A e \in BucketsOf(d, x) : Holds(tables'[d], e, x)
      BY DEF RegisteredHeld
    <2>1. CASE x \in registered
      <3>1. PICK d \in DOMAIN tables :
              Lies(x, d) /\ \A e \in BucketsOf(d, x) : Holds(tables[d], e, x)
        BY <2>1 DEF Inv, RegisteredHeld
      <3>2. x \in Metas
        BY <2>1 DEF Inv, Types
      <3>3. \A e \in BucketsOf(d, x) : Holds(tables'[d], e, x)
        BY <1>9, <1>10, <3>1, <3>2
      <3> QED BY <1>4, <3>1, <3>3
    <2>2. CASE x \notin registered
      <3>1. x = m /\ ~(b + 1 =< last)
        BY <1>6, <2>2
      <3>2. \A e \in BucketsOf(c, m) : e < b + 1
        BY <1>2, <1>5, <3>1
      <3>3. \A e \in BucketsOf(c, m) : Holds(tables'[c], e, m)
        BY <1>11, <3>2
      <3> QED BY <1>2, <1>4, <3>1, <3>3
    <2> QED BY <2>1, <2>2
  <1>16. HeldAlive'
    <2> SUFFICES ASSUME NEW d \in DOMAIN tables, NEW e \in 0 .. DetermineBucket(d, d.end),
                        NEW x \in Metas, Holds(tables'[d], e, x)
                 PROVE  /\ x \in Alive /\ Lies(x, d) /\ e \in BucketsOf(d, x)
                        /\ \A g \in BucketsOf(d, x) : g =< e => Holds(tables'[d], g, x)
      BY <1>4, <1>8 DEF HeldAlive
    <2>1. CASE Holds(tables[d], e, x)
      <3>1. /\ x \in Alive /\ Lies(x, d) /\ e \in BucketsOf(d, x)
            /\ \A g \in BucketsOf(d, x) : g =< e => Holds(tables[d], g, x)
        BY <2>1 DEF Inv, HeldAlive
      <3> QED BY <1>9, <1>10, <3>1
    <2>2. CASE d = c /\ e = b /\ x = m
      <3>1. m \in Alive
        BY InsertionFacts
      <3>2. \A g \in BucketsOf(c, m) : g =< b => g < b + 1
        BY <1>2, <1>5
      <3> QED BY <1>2, <1>11, <2>2, <3>1, <3>2
    <2> QED BY <1>9, <2>1, <2>2
  <1>17. CacheInv'
    <2>1. CacheInv
      BY DEF Inv
    <2>2. ASSUME retrieved # None
          PROVE  Holds(tables'[c], DetermineBucket(c, cachedPC), retrieved)
      <3>1. /\ Holds(tables[c], DetermineBucket(c, cachedPC), retrieved) /\ retrieved \in Metas
            /\ c.start =< cachedPC /\ cachedPC < c.end /\ cachedPC \in Nat
        BY <2>1, <2>2 DEF CacheInv, Inv, Types
      <3> QED BY <1>2, <1>9, <3>1, BucketOfPC
    <2> QED BY <1>1, <1>4, <2>1, <2>2 DEF CacheInv
  <1>18. InsertionInv' /\ PreparedInv'
    <2>1. CASE insertion' = None
      BY <2>1 DEF InsertionInv, PreparedInv
    <2>2. CASE b + 1 =< last /\ insertion' = next /\ registered' = registered
      <3>1. b + 1 \in BucketsOf(c, m)
        BY <1>2, <1>5, <2>2
      <3> DEFINE k == b + 1
      <3>2. insertion'.meta = m /\ insertion'.bucket = k /\ ~insertion'.prepared /\ insertion'.chain = 0
        BY <1>7, <2>2
      <3>3. k \in BucketsOf(c, m) /\ \A e \in BucketsOf(c, m) : Holds(tables'[c], e, m) <=> e < k
        BY <1>11, <3>1
      <3> HIDE DEF k
      <3>4. InsertionInv'
        BY <1>1, <1>2, <1>3, <2>2, <3>2, <3>3 DEF InsertionInv
      <3>5. PreparedInv'
        BY <3>2 DEF PreparedInv
      <3> QED BY <3>4, <3>5
    <2> QED BY <1>6, <2>1, <2>2
  <1>19. SearchInv'
    BY <1>1, <1>2, SearchGoesOn DEF Inv
  <1> QED BY <1>12, <1>13, <1>14, <1>15, <1>16, <1>17, <1>18, <1>19 DEF Inv

\* The store behind the write barrier.
LEMMA PublishStep ==
    ASSUME Inv, Publish
    PROVE  Inv'
  <1> DEFINE c == cachedTable
             t == tables[c]
             m == insertion.meta
             b == insertion.bucket
             n == insertion.chain
             single == [t EXCEPT !.buckets = [t.buckets EXCEPT ![b] = Bucket(Slot(m, TRUE), 0)]]
             chain == [t EXCEPT !.buckets = [t.buckets EXCEPT ![b] = Bucket(Empty, n)]]
             end == [t EXCEPT !.slots = [t.slots EXCEPT ![-n] = Slot(m, FALSE)]]
  <1>1. insertion # None /\ insertion.prepared
    BY DEF Publish
  <1>2. /\ c \in DOMAIN tables /\ c \in Caches /\ Sound(c, t) /\ b \in DOMAIN t.buckets
        /\ m \in Metas /\ ~Holds(t, b, m)
        /\ insertion \in [meta : Metas, bucket : Nat, prepared : BOOLEAN, chain : Int]
    BY <1>1, InsertionFacts
  <1>3. n \in Int /\ Here = t.buckets[b]
    BY <1>2 DEF Here
  <1>4. /\ n = 0 => t.buckets[b] = EmptyBucket
        /\ n > 0 => FreshChain(t, b, m, n)
        /\ n < 0 => SecondEnd(t, b, -n)
    BY <1>1, <1>3 DEF Inv, PreparedInv
  <1>5. Entered(c, m, b)
    BY DEF Publish, Entered
  <1>6. tables' = [tables EXCEPT ![c] = IF t.buckets[b] = EmptyBucket THEN single
                                        ELSE IF n < 0 THEN end ELSE chain]
    BY <1>3 DEF Publish
  <1>7. n # 0 => t.buckets[b] # EmptyBucket
    <2>1. n > 0 => t.buckets[b] # EmptyBucket
      BY <1>4 DEF FreshChain
    <2>2. n < 0 => t.buckets[b] # EmptyBucket
      BY <1>4 DEF SecondEnd, ChainBuckets, EmptyBucket, Bucket
    <2> QED BY <1>3, <2>1, <2>2
  <1>8. CASE n = 0
    <2>1. Replaces(c, single)
      BY <1>2, <1>4, <1>6, <1>8, ReplacesTable
    <2>2. Sound(c, single) /\ Adds(t, single, b, m) /\ PathsGrow(t, single)
      BY <1>2, <1>4, <1>8, SinglePublished
    <2> HIDE DEF single
    <2> QED BY <1>1, <1>5, <2>1, <2>2, EntryEntered
  <1>9. CASE n > 0
    <2>1. Replaces(c, chain)
      <3>1. ~(n < 0) /\ t.buckets[b] # EmptyBucket
        BY <1>3, <1>7, <1>9
      <3> HIDE DEF chain, single, end
      <3> QED BY <1>2, <1>6, <3>1, ReplacesTable
    <2>2. Sound(c, chain) /\ Adds(t, chain, b, m) /\ PathsGrow(t, chain)
      BY <1>2, <1>4, <1>9, ChainPublished
    <2> HIDE DEF chain
    <2> QED BY <1>1, <1>5, <2>1, <2>2, EntryEntered
  <1>10. CASE n < 0
    <2>1. Replaces(c, end)
      <3>1. n < 0 /\ t.buckets[b] # EmptyBucket
        BY <1>3, <1>7, <1>10
      <3> HIDE DEF chain, single, end
      <3> QED BY <1>2, <1>6, <3>1, ReplacesTable
    <2>2. Sound(c, end) /\ Adds(t, end, b, m) /\ PathsGrow(t, end)
      <3> DEFINE e == -n
      <3>1. SecondEnd(t, b, e)
        BY <1>4, <1>10
      <3>2. end = [t EXCEPT !.slots = [t.slots EXCEPT ![e] = Slot(m, FALSE)]]
        OBVIOUS
      <3> HIDE DEF e, end
      <3> QED BY <1>2, <3>1, <3>2, EndPublished
    <2> HIDE DEF end
    <2> QED BY <1>1, <1>5, <2>1, <2>2, EntryEntered
  <1> QED BY <1>3, <1>8, <1>9, <1>10

\* removeMetaData.
LEMMA RemoveMetaDataStep ==
    ASSUME Inv, NEW m \in Metas, RemoveMetaData(m)
    PROVE  Inv'
  <1> DEFINE pc == startPC[m]
             c == Search(pc)
             t == tables[c]
             u == RemoveRange(t, c, m)
             found == FindMetaDataForPC(pc) = m
  <1>1. /\ insertion = None /\ insertion' = None /\ search = None /\ search' = None /\ Known(pc)
        /\ cachedPC' = pc /\ cachedTable' = TableFor(pc) /\ retrieved' = None
        /\ registered' = IF found THEN registered \ {m} ELSE registered
        /\ partial' = IF found THEN partial \ {m} ELSE partial
    BY DEF RemoveMetaData, Quiet, UpdateCache
  <1>2. Types /\ CacheInv /\ HeldAlive /\ TablesInv
    BY DEF Inv
  <1>3. pc \in Nat /\ endPC[m] \in Nat /\ pc =< endPC[m] /\ m # None
    BY MetasAssumption
  <1>4. c \in DOMAIN tables /\ c \in Caches /\ c.start =< pc /\ pc < c.end /\ pc # 0
    BY <1>1, <1>2, <1>3, SearchFacts
  <1>5. TableFor(pc) = c /\ c # None
    BY <1>1, <1>2, <1>3, TableOfPC DEF Known
  <1>6. Sound(c, t)
    BY <1>2, <1>4 DEF TablesInv
  <1>7. tables' = IF found /\ InTable(c, m) THEN [tables EXCEPT ![c] = u] ELSE tables
    <2>1. tables' = IF found /\ TableFor(pc) # None /\ InTable(TableFor(pc), m)
                    THEN [tables EXCEPT ![TableFor(pc)] =
                            RemoveRange(tables[TableFor(pc)], TableFor(pc), m)]
                    ELSE tables
      BY DEF RemoveMetaData
    <2> QED BY <1>5, <2>1
  <1>8. found => Lies(m, c)
    <2> SUFFICES ASSUME found PROVE Lies(m, c)
      OBVIOUS
    <2>1. HeldFor(c, pc, m)
      BY <1>1, <1>3, FoundForPC
    <2>2. DetermineBucket(c, pc) \in 0 .. DetermineBucket(c, c.end)
      BY <1>3, <1>4, BucketOfPC
    <2> QED BY <1>2, <1>4, <2>1, <2>2 DEF HeldAlive, HeldFor
  <1>9. InsertionInv' /\ PreparedInv' /\ SearchInv'
    BY <1>1 DEF InsertionInv, PreparedInv, SearchInv
  <1>10. CASE ~found
    <2>1. tables' = tables /\ registered' = registered /\ partial' = partial
      BY <1>1, <1>7, <1>10
    <2>2. Alive' = Alive
      BY <1>1, <2>1 DEF Alive, Inserting
    <2> HIDE DEF c, pc, found
    <2>3. Types' /\ TablesInv' /\ AliveApart' /\ RegisteredHeld' /\ HeldAlive'
      BY <1>1, <1>3, <2>1, <2>2 DEF Inv, Types, TablesInv, AliveApart, RegisteredHeld, HeldAlive
    <2>4. CacheInv'
      BY <1>1, <1>4, <1>5, <2>1 DEF CacheInv
    <2> QED BY <1>9, <2>3, <2>4 DEF Inv
  <1>11. CASE found
    <2>1. Lies(m, c) /\ InTable(c, m)
      BY <1>8, <1>11 DEF Lies
    <2>2. tables' = [tables EXCEPT ![c] = u] /\ registered' = registered \ {m} /\ partial' = partial \ {m}
      BY <1>1, <1>7, <1>11, <2>1
    <2>3. /\ Sound(c, u)
          /\ \A d \in DOMAIN t.buckets, x \in Metas :
               Holds(u, d, x) <=> Holds(t, d, x) /\ ~(x = m /\ d \in RoundsOf(t, c, m))
      BY <1>4, <1>6, <2>1, RangeRemoved
    <2>4. Replaces(c, u)
      BY <1>4, <2>2, ReplacesTable
    <2> HIDE DEF u, found, pc, c
    <2>5. /\ DOMAIN tables' = DOMAIN tables /\ tables'[c] = u
          /\ \A d \in DOMAIN tables : d # c => tables'[d] = tables[d]
      BY <2>4 DEF Replaces
    <2>6. Alive' = Alive \ {m}
      BY <1>1, <2>2 DEF Alive, Inserting
    <2>d. \A d \in DOMAIN tables : d \in Caches
      BY <1>2 DEF Types
    <2>7. ASSUME NEW d \in DOMAIN tables, NEW e \in 0 .. DetermineBucket(d, d.end), NEW x \in Metas
          PROVE  /\ x # m => (Holds(tables'[d], e, x) <=> Holds(tables[d], e, x))
                 /\ ~Holds(tables'[d], e, m)
      <3>1. CASE d = c
        <4>1. e \in DOMAIN t.buckets
          BY <1>4, <1>6, <3>1, SoundFacts
        <4>2. x # m => (Holds(u, e, x) <=> Holds(t, e, x))
          BY <2>3, <4>1
        <4>3. Holds(t, e, m) => e \in RoundsOf(t, c, m)
          <5> SUFFICES ASSUME Holds(t, e, m) PROVE e \in RoundsOf(t, c, m)
            OBVIOUS
          <5>1. /\ e \in BucketsOf(c, m)
                /\ \A g \in BucketsOf(c, m) : g =< e => Holds(tables[c], g, m)
            BY <1>2, <1>4, <3>1 DEF HeldAlive
          <5> QED BY <5>1 DEF RoundsOf
        <4>4. ~Holds(u, e, m)
          BY <2>3, <4>1, <4>3
        <4> QED BY <2>5, <3>1, <4>2, <4>4
      <3>2. CASE d # c
        <4>1. tables'[d] = tables[d]
          BY <2>5, <3>2
        <4>2. ASSUME Holds(tables[d], e, m) PROVE FALSE
          <5>1. Lies(m, d) /\ d \in Caches
            BY <1>2, <2>d, <4>2 DEF HeldAlive
          <5>2. d.start =< pc /\ pc < d.end
            BY <1>3, <5>1, CachesAssumption DEF Lies, InTable, pc
          <5> QED BY <1>3, <1>4, <3>2, <5>1, <5>2, OneCache
        <4> QED BY <4>1, <4>2
      <3> QED BY <3>1, <3>2
    <2>8. \A d \in DOMAIN tables, x \in Metas : Lies(x, d) =>
            BucketsOf(d, x) \subseteq 0 .. DetermineBucket(d, d.end)
      BY <2>d, BucketRange
    <2>9. Types'
      BY <1>1, <1>2, <1>3, <2>2, <2>5 DEF Types
    <2>10. TablesInv'
      BY <1>2, <2>3, <2>5 DEF TablesInv
    <2>11. AliveApart'
      <3>1. AliveApart
        BY DEF Inv
      <3> QED BY <2>6, <3>1 DEF AliveApart
    <2>12. RegisteredHeld'
      <3> SUFFICES ASSUME NEW x \in registered, x # m
                   PROVE  \E d \in DOMAIN tables' :
                            Lies(x, d) /\ \A e \in BucketsOf(d, x) : Holds(tables'[d], e, x)
        BY <2>2 DEF RegisteredHeld
      <3>1. PICK d \in DOMAIN tables :
              Lies(x, d) /\ \A e \in BucketsOf(d, x) : Holds(tables[d], e, x)
        BY DEF Inv, RegisteredHeld
      <3>2. x \in Metas
        BY <1>2 DEF Types
      <3>3. \A e \in BucketsOf(d, x) : Holds(tables'[d], e, x)
        BY <2>7, <2>8, <3>1, <3>2
      <3> QED BY <2>5, <3>1, <3>3
    <2>13. HeldAlive'
      <3> SUFFICES ASSUME NEW d \in DOMAIN tables, NEW e \in 0 .. DetermineBucket(d, d.end),
                          NEW x \in Metas, Holds(tables'[d], e, x)
                   PROVE  /\ x \in Alive' /\ Lies(x, d) /\ e \in BucketsOf(d, x)
                          /\ \A g \in BucketsOf(d, x) : g =< e => Holds(tables'[d], g, x)
        BY <2>5 DEF HeldAlive
      <3>1. x # m
        BY <2>7
      <3>2. Holds(tables[d], e, x)
        BY <2>7, <3>1
      <3>3. /\ x \in Alive /\ Lies(x, d) /\ e \in BucketsOf(d, x)
            /\ \A g \in BucketsOf(d, x) : g =< e => Holds(tables[d], g, x)
        BY <1>2, <3>2 DEF HeldAlive
      <3>4. \A g \in BucketsOf(d, x) : g =< e => Holds(tables'[d], g, x)
        BY <2>7, <2>8, <3>1, <3>3
      <3> QED BY <2>6, <3>1, <3>3, <3>4
    <2>14. CacheInv'
      BY <1>1, <1>4, <1>5, <2>5 DEF CacheInv
    <2> QED BY <1>9, <2>9, <2>10, <2>11, <2>12, <2>13, <2>14 DEF Inv
  <1> QED BY <1>10, <1>11

-----------------------------------------------------------------------------
(***************************************************************************)
(* The theorems                                                            *)
(***************************************************************************)

\* Every step preserves the invariant.
LEMMA NextStep ==
    ASSUME Inv, [MetaNext]_metaVars
    PROVE  Inv'
  <1>1. PCs \subseteq Nat
    <2> SUFFICES ASSUME NEW c \in Caches, NEW pc \in c.start .. c.end - 1 PROVE pc \in Nat
      BY DEF PCs
    <2>1. c.start \in Nat /\ c.end \in Nat
      BY CachesAssumption
    <2> QED BY <2>1
  <1>2. ASSUME NEW c \in Caches, AddCodeCache(c) PROVE Inv'
    BY <1>2, AddCodeCacheStep
  <1>3. ASSUME NEW pc \in PCs, Find(pc) PROVE Inv'
    BY <1>1, <1>3, FindStep
  <1>4. ASSUME NEW m \in Metas, BeginInsert(m) PROVE Inv'
    BY <1>4, BeginInsertStep
  <1>5. CASE Prepare
    BY <1>5, PrepareStep
  <1>6. CASE PrepareFails
    BY <1>6, PrepareFailsStep
  <1>7. CASE Publish
    BY <1>7, PublishStep
  <1>8. ASSUME NEW m \in Metas, RemoveMetaData(m) PROVE Inv'
    BY <1>8, RemoveMetaDataStep
  <1>9. ASSUME NEW c \in Caches, NEW pc \in PCs, BeginSearch(c, pc) PROVE Inv'
    BY <1>1, <1>9, BeginSearchStep
  <1>10. CASE SearchSlot
    BY <1>10, SearchSlotStep
  <1>11. CASE UNCHANGED metaVars
    BY <1>11, StutterStep
  <1> QED
    BY <1>2, <1>3, <1>4, <1>5, <1>6, <1>7, <1>8, <1>9, <1>10, <1>11 DEF MetaNext

\* The invariant holds in every reachable state.
LEMMA InvAlways == MetaSpec => []Inv
  <1>1. MetaInit => Inv
    BY InitInv
  <1>2. Inv /\ [MetaNext]_metaVars => Inv'
    BY NextStep
  <1> QED BY <1>1, <1>2, PTL DEF MetaSpec

\* After any sequence of insertions and removals, whether there was memory or
\* not, no two buckets share a slot of the method stores, and no chain reaches
\* an empty slot, the free part of the last store or a terminator
\* (insertMetaDataArrayInHash, removeMetaDataArrayFromHash).
THEOREM StoresStaySound == MetaSpec => []StoresSound
  <1>1. Inv => StoresSound
    BY InvStores
  <1> QED BY <1>1, InvAlways, PTL

\* A search of a table beside an insertion, whatever stores of the insertion
\* come between two of its steps, reads entries only until it is at an end, and
\* still has before it the method that was registered for its pc
\* (findMetaDataInHash beside insertMetaDataRangeInHash).
THEOREM SearchStaysSafe == MetaSpec => []SearchSafe
  <1>1. Inv => SearchSafe
    BY InvSearch
  <1> QED BY <1>1, InvAlways, PTL

\* findMetaDataForPC answers every address of a registered method with that
\* method and no other address with a registered one, through the remembered
\* answer and through the tables (findMetaDataForPC, updateCache).
THEOREM LookupStaysExact == MetaSpec => []LookupExact
  <1>1. Inv => LookupExact
    BY InvLookup
  <1> QED BY <1>1, InvAlways, PTL

\* What was inserted with success can be removed with success, whatever was
\* inserted, removed or left incomplete meanwhile (removeMetaData,
\* removeMetaDataRangeFromHash).
THEOREM RemovalAlwaysSucceeds == MetaSpec => []RemovalSucceeds
  <1>1. Inv => RemovalSucceeds
    BY InvRemoval
  <1> QED BY <1>1, InvAlways, PTL

=============================================================================
