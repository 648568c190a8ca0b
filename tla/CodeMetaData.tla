---------------------------- MODULE CodeMetaData ----------------------------
(***************************************************************************)
(* The code metadata manager (OMRCodeMetaDataManager.cpp): which method's  *)
(* code contains a pc.  Each code cache has a hash table; a bucket stands  *)
(* for BucketSize bytes of code and holds nothing, one entry, or the       *)
(* address of a chain of entries in the table's method store, whose last   *)
(* entry is tagged.  The manager remembers the last pc it was asked about, *)
(* the table of that pc and what it found.                                 *)
(*                                                                         *)
(* Calls are made one at a time (the header asks callers for a monitor),   *)
(* but the insertion orders its stores so that a search of a table may     *)
(* overlap it: it is modelled store by store, with a search beside it.     *)
(* A removal moves entries and never overlaps a search.                    *)
(***************************************************************************)
EXTENDS Integers, Sequences, FiniteSets

CONSTANTS
  Caches,        \* code caches: records [start, end]
  Metas,         \* metadata of compiled methods
  startPC,       \* first address of a method's code
  endPC,         \* address behind it
  BucketSize,    \* BUCKET_SIZE
  StoreSize,     \* METHOD_STORE_SIZE
  MaxStores,     \* bound: method stores there is memory for, per table
  None           \* NULL

ASSUME CachesAssumption ==
  /\ IsFiniteSet(Caches)
  /\ \A c \in Caches : c.start \in Nat \ {0} /\ c.end \in Nat /\ c.start < c.end
  /\ \A c, d \in Caches : c = d \/ c.end =< d.start \/ d.end =< c.start
ASSUME MetasAssumption ==
  /\ IsFiniteSet(Metas) /\ None \notin Metas
  /\ \A m \in Metas : startPC[m] \in Nat \ {0} /\ endPC[m] \in Nat /\ startPC[m] =< endPC[m]
ASSUME NoneAssumption ==
  /\ None \notin Caches
  /\ None \notin [meta : Metas, bucket : Nat, prepared : BOOLEAN, chain : Int]
  /\ None \notin [cache : Caches, pc : Nat, at : Nat, due : SUBSET Metas]
ASSUME StoreAssumption ==
  BucketSize \in Nat \ {0} /\ StoreSize \in Nat \ {0, 1} /\ MaxStores \in Nat \ {0}

VARIABLES
  tables,      \* the hash tables in the AVL tree, by their code cache
  cachedPC,    \* _cachedPC
  cachedTable, \* _cachedHashTable, a cache that has a table or None
  retrieved,   \* _retrievedMetaDataCache
  insertion,   \* an insertion under way: [meta, bucket, prepared], or None
  registered,  \* metadata inserted with success and not removed
  partial,     \* metadata whose insertion failed, not removed since
  search       \* a search of a table under way: [cache, pc, at], or None

cached == << cachedPC, cachedTable, retrieved >>
metaVars == << tables, cached, insertion, registered, partial, search >>

PCs == UNION {c.start .. c.end - 1 : c \in Caches}
Covers(m, pc) == startPC[m] =< pc /\ pc < endPC[m]
Overlap(m, n) == startPC[m] < endPC[n] /\ startPC[n] < endPC[m]

\* A slot of a method store, or the content of a bucket without a chain.
Slot(m, tagged) == [meta |-> m, tagged |-> tagged]
Empty == Slot(None, FALSE)
Terminator == Slot(None, TRUE)   \* 0xBAAD076D

\* A bucket: a single entry, or a chain that begins at the slot chain # 0.
Bucket(entry, chain) == [entry |-> entry, chain |-> chain]
EmptyBucket == Bucket(Empty, 0)

-----------------------------------------------------------------------------
\* A hash table and its method stores, one behind the other in slots

DetermineBucket(c, pc) == (pc - c.start) \div BucketSize

NewStore == [i \in 1 .. StoreSize + 1 |-> IF i > StoreSize THEN Terminator ELSE Empty]

\* allocateCodeMetaDataHash.
NewTable(c) ==
  [buckets |-> [b \in 0 .. DetermineBucket(c, c.end) |-> EmptyBucket],
   slots |-> NewStore, currentAllocate |-> 1]

MethodStoreEnd(t) == Len(t.slots)

\* Do n more slots fit in the last store?
Fits(t, n) == t.currentAllocate + n =< MethodStoreEnd(t)

\* Is there memory for another store?
MayAllocate(t) == Len(t.slots) < MaxStores * (StoreSize + 1)

\* allocateMethodStoreInHash, on its success.
AllocateMethodStore(t) ==
  [t EXCEPT !.slots = t.slots \o NewStore, !.currentAllocate = Len(t.slots) + 1]

\* The slots of the chain that begins at a, up to the first tagged one.
ChainEnd(t, a) == CHOOSE i \in a .. Len(t.slots) :
  t.slots[i].tagged /\ \A j \in a .. i - 1 : ~t.slots[j].tagged
Chain(t, a) == SubSeq(t.slots, a, ChainEnd(t, a))

\* The entries of bucket b, in the order of a search.
Entries(t, b) ==
  IF t.buckets[b].chain = 0 THEN << t.buckets[b].entry >>
  ELSE Chain(t, t.buckets[b].chain)

\* findMetaDataInHash.
FindMetaDataInHash(t, c, pc) ==
  LET entries == Entries(t, DetermineBucket(c, pc))
      hits == {i \in 1 .. Len(entries) :
                 entries[i].meta # None /\ Covers(entries[i].meta, pc)}
  IN IF hits = {} THEN None
     ELSE entries[CHOOSE i \in hits : \A j \in hits : i =< j].meta

\* The buckets a range is entered in, the one of its end included.
BucketsOf(c, m) == DetermineBucket(c, startPC[m]) .. DetermineBucket(c, endPC[m])

\* Mutant: the loop stops before the bucket of the end.
MoreBucketsExclusive(c, m, b) == b + 1 < DetermineBucket(c, endPC[m])

\* Does the loop of the insertion go on behind bucket b?
MoreBuckets(c, m, b) == b + 1 =< DetermineBucket(c, endPC[m])

InTable(c, m) == startPC[m] >= c.start /\ endPC[m] =< c.end

\* The entries of a bucket fit in a method store.  With 512 bytes to a bucket
\* and 256 slots to a store they do if no method has less than three bytes;
\* the insertion does not check it.
ASSUME RoomAssumption ==
  \A c \in Caches : \A b \in 0 .. DetermineBucket(c, c.end) :
    \A ms \in SUBSET {m \in Metas : /\ InTable(c, m) /\ startPC[m] < endPC[m]
                                    /\ b \in BucketsOf(c, m)} :
      (\A m, n \in ms : m # n => ~Overlap(m, n)) => Cardinality(ms) =< StoreSize

-----------------------------------------------------------------------------
\* The manager's memory of its last question

\* avl_search with avl_jit_metadata_searchCompare.
Search(pc) ==
  LET hits == {c \in DOMAIN tables : c.start =< pc /\ pc < c.end}
  IN IF hits = {} THEN None ELSE CHOOSE c \in hits : TRUE

\* Callers ask about code in a cache: updateCache asserts that they do.
Known(pc) == Search(pc) # None

\* The table that is used for a pc.
TableFor(pc) == IF pc = cachedPC THEN cachedTable ELSE Search(pc)

\* updateCache, and what is remembered as found after it.
UpdateCache(pc, found) ==
  cachedPC' = pc /\ cachedTable' = TableFor(pc) /\ retrieved' = found

\* The metadata remembered once updateCache(pc) is done.
Remembered(pc) == IF pc = cachedPC THEN retrieved ELSE None

\* findMetaDataForPC: what it returns.
FindMetaDataForPC(pc) ==
  IF Remembered(pc) # None THEN Remembered(pc)
  ELSE IF TableFor(pc) = None THEN None
  ELSE FindMetaDataInHash(tables[TableFor(pc)], TableFor(pc), pc)

Quiet == insertion = None /\ search = None

\* A call of findMetaDataForPC or containsMetaData.
Find(pc) ==
  /\ insertion = None /\ Known(pc)
  /\ UpdateCache(pc, FindMetaDataForPC(pc))
  /\ UNCHANGED << tables, insertion, registered, partial, search >>

\* addCodeCache; nothing changes when there is no memory.
AddCodeCache(c) ==
  /\ insertion = None /\ c \notin DOMAIN tables
  /\ tables' = [d \in DOMAIN tables \cup {c} |-> IF d = c THEN NewTable(c) ELSE tables[d]]
  /\ UNCHANGED << cached, insertion, registered, partial, search >>

-----------------------------------------------------------------------------
\* Insertion

\* insertMetaData up to insertMetaDataRangeInHash.  Methods do not overlap:
\* the header leaves that to the caller.  A method whose insertion failed is
\* inserted again only once it has been removed.
BeginInsert(m) ==
  /\ insertion = None /\ Known(startPC[m])
  /\ \A n \in registered \cup partial : n # m /\ ~Overlap(m, n)
  /\ UpdateCache(startPC[m], Remembered(startPC[m]))
  /\ LET c == TableFor(startPC[m]) IN
     insertion' = IF c = None \/ ~InTable(c, m) \/ startPC[m] = endPC[m] THEN None
                  ELSE [meta |-> m, bucket |-> DetermineBucket(c, startPC[m]),
                        prepared |-> FALSE, chain |-> 0]
  /\ UNCHANGED << tables, registered, partial, search >>

\* The bucket the insertion is at.
Here == tables[cachedTable].buckets[insertion.bucket]

\* No memory for a method store: what is entered stays.
OutOfMemory ==
  /\ insertion' = None
  /\ partial' = partial \cup {insertion.meta}
  /\ UNCHANGED << tables, cached, registered, search >>

\* Writes the entries at currentAllocate of t, where nothing sees them yet.
Writing(t, entries) ==
  [t EXCEPT !.slots = [i \in 1 .. Len(t.slots) |->
      IF i \in t.currentAllocate .. t.currentAllocate + Len(entries) - 1
      THEN entries[i - t.currentAllocate + 1] ELSE t.slots[i]],
   !.currentAllocate = t.currentAllocate + Len(entries)]

\* Mutant: the new end does not move the allocation point.
ExtendChainKeepsPoint(t, a, m) ==
  LET e == ChainEnd(t, a)
  IN [t EXCEPT !.slots = [t.slots EXCEPT ![e + 1] = t.slots[e]]]

\* Mutant: the new entry is written before the end of the chain has moved.
ExtendChainEntryFirst(t, a, m) ==
  LET e == ChainEnd(t, a)
  IN [t EXCEPT !.slots = [t.slots EXCEPT ![e] = Slot(m, FALSE)],
      !.currentAllocate = IF e + 1 = @ THEN @ + 1 ELSE @]

\* There is a free slot behind the chain: its end is copied there.
ExtendChain(t, a, m) ==
  LET e == ChainEnd(t, a)
  IN [t EXCEPT !.slots = [t.slots EXCEPT ![e + 1] = t.slots[e]],
      !.currentAllocate = IF e + 1 = @ THEN @ + 1 ELSE @]

\* Does a chain at a have a free slot behind it?
RoomBehind(t, a) == a # 0 /\ t.slots[ChainEnd(t, a) + 1] = Empty

\* The entries of a new chain with m first.
NewChain(t, m) == << Slot(m, FALSE) >> \o Entries(t, insertion.bucket)

\* insertMetaDataArrayInHash up to the write barrier.  The slot of the chain
\* that is to be published is noted: a new chain's first, or for a chain that
\* is extended the negative of the slot its end had.
Prepare ==
  /\ insertion # None /\ ~insertion.prepared
  /\ LET t == tables[cachedTable]
         a == Here.chain
         new == NewChain(t, insertion.meta)
         Place(u) == /\ tables' = [tables EXCEPT ![cachedTable] = Writing(u, new)]
                     /\ insertion' = [insertion EXCEPT !.prepared = TRUE,
                                                       !.chain = u.currentAllocate]
     IN \/ /\ Here = EmptyBucket
           /\ insertion' = [insertion EXCEPT !.prepared = TRUE]
           /\ UNCHANGED tables
        \/ /\ RoomBehind(t, a)
           /\ tables' = [tables EXCEPT ![cachedTable] = ExtendChain(t, a, insertion.meta)]
           /\ insertion' = [insertion EXCEPT !.prepared = TRUE, !.chain = -ChainEnd(t, a)]
        \/ /\ Here # EmptyBucket /\ ~RoomBehind(t, a)
           /\ \/ Fits(t, Len(new)) /\ Place(t)
              \/ ~Fits(t, Len(new)) /\ MayAllocate(t) /\ Place(AllocateMethodStore(t))
  /\ UNCHANGED << cached, registered, partial, search >>

\* allocateMethodStoreInHash returns NULL.
PrepareFails ==
  /\ insertion # None /\ ~insertion.prepared /\ Here # EmptyBucket
  /\ LET t == tables[cachedTable]
     IN ~RoomBehind(t, Here.chain) /\ ~Fits(t, Len(NewChain(t, insertion.meta)))
  /\ OutOfMemory

\* The store behind the write barrier, and on to the next bucket.
Publish ==
  /\ insertion # None /\ insertion.prepared
  /\ LET t == tables[cachedTable]
         m == insertion.meta
         b == insertion.bucket
     IN tables' = [tables EXCEPT ![cachedTable] =
          IF Here = EmptyBucket
          THEN [t EXCEPT !.buckets = [t.buckets EXCEPT ![b] = Bucket(Slot(m, TRUE), 0)]]
          ELSE IF insertion.chain < 0
          THEN [t EXCEPT !.slots = [t.slots EXCEPT ![-insertion.chain] = Slot(m, FALSE)]]
          ELSE [t EXCEPT !.buckets = [t.buckets EXCEPT ![b] = Bucket(Empty, insertion.chain)]]]
  /\ LET m == insertion.meta
         more == MoreBuckets(cachedTable, m, insertion.bucket)
     IN /\ insertion' = IF more THEN [meta |-> m, bucket |-> insertion.bucket + 1,
                                      prepared |-> FALSE, chain |-> 0]
                        ELSE None
        /\ registered' = IF more THEN registered ELSE registered \cup {m}
  /\ UNCHANGED << cached, partial, search >>

-----------------------------------------------------------------------------
\* Removal

Holds(t, b, m) == \E i \in 1 .. Len(Entries(t, b)) : Entries(t, b)[i].meta = m

\* The place of m in a chain: the last, if there are several.
RemoveSpot(entries, m) == CHOOSE i \in 1 .. Len(entries) :
  entries[i].meta = m /\ \A j \in i + 1 .. Len(entries) : entries[j].meta # m

\* What is at place i of the chain once the entries behind m have moved up.
Kept(entries, m, i) == IF i < RemoveSpot(entries, m) THEN entries[i] ELSE entries[i + 1]

\* removeMetaDataArrayFromHash: what it leaves in the slots of the chain, of
\* which there are two at least.
Contracted(entries, m) ==
  [i \in 1 .. Len(entries) |->
     IF Len(entries) = 2 \/ i = Len(entries) THEN Empty
     ELSE IF i = Len(entries) - 1 THEN Slot(Kept(entries, m, i).meta, TRUE)
     ELSE Kept(entries, m, i)]

\* One round of the loop of removeMetaDataRangeFromHash, m being in bucket b.
RemoveFromBucket(t, b, m) ==
  LET a == t.buckets[b].chain
      entries == Entries(t, b)
      new == Contracted(entries, m)
  IN IF a = 0 THEN [t EXCEPT !.buckets = [t.buckets EXCEPT ![b] = EmptyBucket]]
     ELSE [t EXCEPT !.slots = [i \in 1 .. Len(t.slots) |->
             IF i \in a .. a + Len(new) - 1 THEN new[i - a + 1] ELSE t.slots[i]],
           !.buckets = [t.buckets EXCEPT ![b] =
             IF Len(entries) = 2 THEN Bucket(Slot(Kept(entries, m, 1).meta, TRUE), 0) ELSE @]]

\* The buckets the loop comes to before one that does not hold m.
RoundsOf(t, c, m) ==
  {b \in BucketsOf(c, m) : \A d \in BucketsOf(c, m) : d =< b => Holds(t, d, m)}

\* removeMetaDataRangeFromHash: the table it leaves, after one bucket after the
\* other, and whether it reports success.
RemoveRange(t, c, m) ==
  LET first == DetermineBucket(c, startPC[m])
      rounds == DetermineBucket(c, endPC[m]) + 1 - first
      after[n \in 0 .. rounds] ==
        IF n = 0 THEN t
        ELSE IF first + n - 1 \in RoundsOf(t, c, m)
        THEN RemoveFromBucket(after[n - 1], first + n - 1, m)
        ELSE after[n - 1]
  IN after[rounds]
RemoveSucceeds(m) ==
  LET c == TableFor(startPC[m])
  IN /\ FindMetaDataForPC(startPC[m]) = m /\ c # None
     /\ InTable(c, m) /\ RoundsOf(tables[c], c, m) = BucketsOf(c, m)

\* Mutant: what was retrieved last is kept.
RemoveMetaDataKeepsRetrieved(m) ==
  /\ Quiet /\ Known(startPC[m])
  /\ LET c == TableFor(startPC[m])
         found == FindMetaDataForPC(startPC[m]) = m
     IN /\ UpdateCache(startPC[m], FindMetaDataForPC(startPC[m]))
        /\ tables' = IF found /\ c # None /\ InTable(c, m)
                     THEN [tables EXCEPT ![c] = RemoveRange(tables[c], c, m)] ELSE tables
        /\ registered' = IF found THEN registered \ {m} ELSE registered
        /\ partial' = IF found THEN partial \ {m} ELSE partial
  /\ UNCHANGED << insertion, search >>

\* removeMetaData.
RemoveMetaData(m) ==
  /\ Quiet /\ Known(startPC[m])
  /\ LET c == TableFor(startPC[m])
         found == FindMetaDataForPC(startPC[m]) = m
     IN /\ UpdateCache(startPC[m], None)
        /\ tables' = IF found /\ c # None /\ InTable(c, m)
                     THEN [tables EXCEPT ![c] = RemoveRange(tables[c], c, m)] ELSE tables
        /\ registered' = IF found THEN registered \ {m} ELSE registered
        /\ partial' = IF found THEN partial \ {m} ELSE partial
  /\ UNCHANGED << insertion, search >>

-----------------------------------------------------------------------------
\* A search of a table while entries are inserted

\* findMetaDataInHash up to the bucket's chain; a bucket without one is
\* searched in this step.
BeginSearch(c, pc) ==
  /\ search = None /\ c \in DOMAIN tables /\ c.start =< pc /\ pc < c.end
  /\ LET a == tables[c].buckets[DetermineBucket(c, pc)].chain
     IN a # 0 /\ search' = [cache |-> c, pc |-> pc, at |-> a,
                            due |-> {m \in registered : Covers(m, pc)}]
  /\ UNCHANGED << tables, cached, insertion, registered, partial >>

\* The next slot of the chain: found, at its end, or on.
SearchSlot ==
  /\ search # None
  /\ LET s == tables[search.cache].slots[search.at]
     IN search' = IF s.tagged \/ s.meta = None \/ Covers(s.meta, search.pc) THEN None
                  ELSE [search EXCEPT !.at = @ + 1]
  /\ UNCHANGED << tables, cached, insertion, registered, partial >>

-----------------------------------------------------------------------------
MetaInit ==
  /\ tables = << >>
  /\ cachedPC = 0 /\ cachedTable = None /\ retrieved = None
  /\ insertion = None /\ registered = {} /\ partial = {} /\ search = None

MetaNext ==
  \/ \E c \in Caches : AddCodeCache(c)
  \/ \E pc \in PCs : Find(pc)
  \/ \E m \in Metas : BeginInsert(m)
  \/ Prepare
  \/ PrepareFails
  \/ Publish
  \/ \E m \in Metas : RemoveMetaData(m)
  \/ \E c \in Caches, pc \in PCs : BeginSearch(c, pc)
  \/ SearchSlot

MetaSpec == MetaInit /\ [][MetaNext]_metaVars

-----------------------------------------------------------------------------
\* Properties

\* The variables have their types: buckets name slots of the table's stores,
\* and the allocation point lies in the last store or at its end.
MetaTypeOK ==
  /\ DOMAIN tables \subseteq Caches
  /\ \A c \in DOMAIN tables :
       /\ \A i \in 1 .. Len(tables[c].slots) :
            tables[c].slots[i] \in [meta : Metas \cup {None}, tagged : BOOLEAN]
       /\ tables[c].currentAllocate \in
            Len(tables[c].slots) - StoreSize .. Len(tables[c].slots)
       /\ \A b \in DOMAIN tables[c].buckets :
            tables[c].buckets[b].chain \in 0 .. Len(tables[c].slots)
  /\ cachedTable \in DOMAIN tables \cup {None}
  /\ retrieved \in Metas \cup {None}
  /\ registered \subseteq Metas /\ partial \subseteq Metas

\* Every address in the code of a registered method is answered with that
\* method, and any other address with NULL or with a method whose insertion
\* ran out of memory, whatever was asked, inserted and removed before
\* (findMetaDataForPC through insertRange, removeRange and the remembered
\* answer).
LookupExact ==
  insertion = None => \A pc \in PCs : Known(pc) =>
    LET owners == {m \in registered : Covers(m, pc)}
    IN IF owners # {} THEN FindMetaDataForPC(pc) \in owners
       ELSE FindMetaDataForPC(pc) \in {None} \cup {m \in partial : Covers(m, pc)}

\* A registered method can be removed: every bucket of its range holds it
\* (removeMetaDataRangeFromHash gives up at the first that does not).
RemovalSucceeds == insertion = None => \A m \in registered : RemoveSucceeds(m)

\* The slots of the chain that begins at a.
SlotsOf(t, a) == a .. ChainEnd(t, a)
ChainBuckets(t) == {b \in DOMAIN t.buckets : t.buckets[b].chain # 0}

\* Chains lie in slots of their own, before the allocation point when in the
\* last store, and reach no empty slot and no terminator: in-place growth,
\* copying and the reuse of freed slots never let two buckets share memory
\* (insertMetaDataArrayInHash, removeMetaDataArrayFromHash).
ChainsUnshared ==
  insertion = None => \A c \in DOMAIN tables :
    LET t == tables[c]
    IN \A b \in ChainBuckets(t) :
         /\ \A i \in SlotsOf(t, t.buckets[b].chain) :
              t.slots[i].meta # None
              /\ (i > Len(t.slots) - StoreSize - 1 => i < t.currentAllocate)
         /\ \A d \in ChainBuckets(t) \ {b} :
              SlotsOf(t, t.buckets[b].chain) \cap SlotsOf(t, t.buckets[d].chain) = {}

\* The tables and their method stores are sound after any sequence of
\* insertions and removals.
StoresSound == MetaTypeOK /\ ChainsUnshared

\* A search that overlaps an insertion comes to the end of its chain through
\* entries only, and to the method that was registered for its pc when it
\* began (the write barriers of insertMetaDataRangeInHash and
\* insertMetaDataArrayInHash are for this).
SearchSafe ==
  search # None =>
    LET t == tables[search.cache]
        Reaches(i) == \A j \in search.at .. i : t.slots[j].meta # None
                                               /\ (j < i => ~t.slots[j].tagged)
    IN /\ \E i \in search.at .. Len(t.slots) : t.slots[i].tagged /\ Reaches(i)
       /\ \A m \in search.due :
            \E i \in search.at .. Len(t.slots) : t.slots[i].meta = m /\ Reaches(i)
=============================================================================
