-------------------------- MODULE TrampolinesProofs --------------------------
(***************************************************************************)
(* Proofs about the method trampolines of a code cache, for any number of  *)
(* threads, methods, trampolines and synchronization blocks: the layout    *)
(* stays sound, a reservation is always honoured, a replacement request is *)
(* lost by a full synchronization only, and the cache implements the       *)
(* targets of calls.                                                       *)
(***************************************************************************)
EXTENDS Trampolines, FiniteSetTheorems, SequenceTheorems, NaturalsInduction,
        WellFoundedInduction, TLAPS

-----------------------------------------------------------------------------
(***************************************************************************)
(* The inductive invariant                                                 *)
(***************************************************************************)

\* A thread reserves a trampoline only inside of the monitor, for a method
\* that nobody has given an entry to since.
WorkInv ==
  \A t \in Threads :
    work[t] # NoMethod => monitor = t /\ work[t] \notin resolvedMethods

\* A method without an entry has neither a trampoline nor a start address.
EntriesInv ==
  \A m \in Methods \ resolvedMethods :
    currentTrampoline[m] = NoSlot /\ currentStartPC[m] = 0

\* Methods with a permanent trampoline.
Served == {m \in resolvedMethods : currentTrampoline[m] # NoSlot}

\* Only methods with a permanent trampoline wait for a safe point.
SavedServed == Saved(trampolineSyncList) \subseteq Served

\* The blocks of a list have the size of their arrays at most.
Blocks(list) ==
  /\ list \in Seq(Seq(Methods))
  /\ \A i \in 1 .. Len(list) : Len(list[i]) =< SyncArraySize

\* No method is in two places of the blocks.
Once(list) ==
  \A i, k \in 1 .. Len(list) :
    \A j \in 1 .. Len(list[i]), l \in 1 .. Len(list[k]) :
      list[i][j] = list[k][l] => i = k /\ j = l

SavedOnce == Once(trampolineSyncList)

Inv ==
  /\ TrampolinesTypeOK
  /\ WorkInv
  /\ EntriesInv
  /\ TrampolinesUnshared
  /\ ReservationHonoured
  /\ SavedServed
  /\ SavedOnce
  /\ SyncListBounded

-----------------------------------------------------------------------------
(***************************************************************************)
(* The blocks of saved methods                                             *)
(***************************************************************************)

\* A method is saved if it is in some place of some block.
LEMMA SavedSomewhere ==
    ASSUME NEW list, NEW m
    PROVE  m \in Saved(list) <=>
             \E i \in 1 .. Len(list) : \E j \in 1 .. Len(list[i]) : list[i][j] = m
  BY DEF Saved, Elements

\* The saved methods are methods.
LEMMA SavedAreMethods ==
    ASSUME NEW list \in Seq(Seq(Methods))
    PROVE  Saved(list) \subseteq Methods
  <1> SUFFICES ASSUME NEW m \in Saved(list) PROVE m \in Methods
    OBVIOUS
  <1>0. PICK i \in 1 .. Len(list) : \E j \in 1 .. Len(list[i]) : list[i][j] = m
    BY SavedSomewhere
  <1>1. PICK j \in 1 .. Len(list[i]) : list[i][j] = m
    BY <1>0
  <1>2. list[i] \in Seq(Methods)
    BY ElementOfSeq
  <1> QED BY <1>1, <1>2, ElementOfSeq

\* The list with m at the end of its k-th block.
Appended(list, k, m) == [list EXCEPT ![k] = Append(@, m)]

\* Saving a method in a block with room appends it there and nowhere else.
LEMMA AppendedBlock ==
    ASSUME NEW list, Blocks(list), NEW k \in 1 .. Len(list),
           Len(list[k]) < SyncArraySize, NEW m \in Methods, NEW new,
           new = Appended(list, k, m)
    PROVE  /\ Blocks(new)
           /\ Len(new) = Len(list)
           /\ Saved(new) = Saved(list) \cup {m}
           /\ Once(list) /\ m \notin Saved(list) => Once(new)
  <1> DEFINE b == Append(list[k], m)
  <1>1. list \in Seq(Seq(Methods)) /\ list[k] \in Seq(Methods) /\ Len(list[k]) \in Nat
    BY ElementOfSeq, LenProperties DEF Blocks
  <1>2. /\ b \in Seq(Methods) /\ Len(b) = Len(list[k]) + 1
        /\ \A j \in 1 .. Len(list[k]) : b[j] = list[k][j]
        /\ b[Len(list[k]) + 1] = m
    BY <1>1, AppendProperties
  <1>3. new = [list EXCEPT ![k] = b]
    BY DEF Appended
  <1>4. /\ new \in Seq(Seq(Methods)) /\ Len(new) = Len(list)
        /\ new[k] = b /\ \A i \in 1 .. Len(list) : i # k => new[i] = list[i]
    BY <1>1, <1>2, <1>3, ExceptSeq
  <1>5. \A i \in 1 .. Len(list) : Len(list[i]) \in Nat
    BY <1>1, ElementOfSeq, LenProperties
  <1> HIDE DEF b
  <1>6. Blocks(new)
    <2>1. ASSUME NEW i \in 1 .. Len(new) PROVE Len(new[i]) =< SyncArraySize
      <3>1. CASE i = k
        BY <1>1, <1>2, <1>4, <3>1, TempAssumption
      <3>2. CASE i # k
        BY <1>4, <3>2 DEF Blocks
      <3> QED BY <3>1, <3>2
    <2> QED BY <1>4, <2>1 DEF Blocks
  <1>7. Saved(new) = Saved(list) \cup {m}
    <2>1. ASSUME NEW x \in Saved(new) PROVE x \in Saved(list) \cup {m}
      <3>0. PICK i \in 1 .. Len(new) : \E j \in 1 .. Len(new[i]) : new[i][j] = x
        BY ONLY SavedSomewhere, <2>1
      <3>1. PICK j \in 1 .. Len(new[i]) : new[i][j] = x
        BY <3>0
      <3>2. CASE i = k /\ j = Len(list[k]) + 1
        BY <1>2, <1>4, <3>1, <3>2
      <3>3. CASE ~(i = k /\ j = Len(list[k]) + 1)
        <4>1. i \in 1 .. Len(list) /\ j \in 1 .. Len(list[i]) /\ list[i][j] = x
          <5>1. CASE i = k
            <6>1. new[i] = b /\ j \in 1 .. Len(b) /\ i \in 1 .. Len(list)
              BY <1>4, <3>1, <5>1
            <6>2. j \in 1 .. Len(list[k])
              BY <1>1, <1>2, <3>3, <5>1, <6>1
            <6> QED BY <1>2, <3>1, <5>1, <6>1, <6>2
          <5>2. CASE i # k
            BY <1>4, <3>1, <5>2
          <5> QED BY <5>1, <5>2
        <4> QED BY <4>1, SavedSomewhere
      <3> QED BY <3>2, <3>3
    <2>2. ASSUME NEW x \in Saved(list) PROVE x \in Saved(new)
      <3>0. PICK i \in 1 .. Len(list) : \E j \in 1 .. Len(list[i]) : list[i][j] = x
        BY SavedSomewhere, <2>2
      <3>1. PICK j \in 1 .. Len(list[i]) : list[i][j] = x
        BY <3>0
      <3>2. i \in 1 .. Len(new) /\ j \in 1 .. Len(new[i]) /\ new[i][j] = x
        <4>1. CASE i = k
          BY <1>1, <1>2, <1>4, <3>1, <4>1
        <4>2. CASE i # k
          BY <1>4, <3>1, <4>2
        <4> QED BY <4>1, <4>2
      <3> QED BY <3>2, SavedSomewhere
    <2>3. m \in Saved(new)
      <3>1. /\ k \in 1 .. Len(new) /\ Len(list[k]) + 1 \in 1 .. Len(new[k])
            /\ new[k][Len(list[k]) + 1] = m
        BY <1>1, <1>2, <1>4
      <3> QED BY <3>1, SavedSomewhere
    <2> QED BY <2>1, <2>2, <2>3
  <1>8. ASSUME Once(list), m \notin Saved(list) PROVE Once(new)
    <2>1. \A i \in 1 .. Len(list) : \A j \in 1 .. Len(list[i]) : list[i][j] # m
      BY <1>8, SavedSomewhere
    <2>2. ASSUME NEW i \in 1 .. Len(new), NEW j \in 1 .. Len(new[i])
          PROVE  \/ i = k /\ j = Len(list[k]) + 1 /\ new[i][j] = m
                 \/ i \in 1 .. Len(list) /\ j \in 1 .. Len(list[i]) /\ new[i][j] = list[i][j]
      <3>1. CASE i = k
        <4>1. new[i] = b /\ j \in 1 .. Len(b) /\ i \in 1 .. Len(list)
          BY <1>4, <3>1
        <4>2. j = Len(list[k]) + 1 \/ j \in 1 .. Len(list[k])
          BY <1>1, <1>2, <4>1
        <4>3. CASE j = Len(list[k]) + 1
          BY <1>2, <3>1, <4>1, <4>3
        <4>4. CASE j \in 1 .. Len(list[k])
          BY <1>2, <3>1, <4>1, <4>4
        <4> QED BY <4>2, <4>3, <4>4
      <3>2. CASE i # k
        BY <1>4, <2>2, <3>2
      <3> QED BY <3>1, <3>2
    <2> SUFFICES ASSUME NEW i \in 1 .. Len(new), NEW h \in 1 .. Len(new),
                        NEW j \in 1 .. Len(new[i]), NEW l \in 1 .. Len(new[h]),
                        new[i][j] = new[h][l]
                 PROVE  i = h /\ j = l
      BY DEF Once
    <2>3. \/ i = k /\ j = Len(list[k]) + 1 /\ new[i][j] = m
          \/ i \in 1 .. Len(list) /\ j \in 1 .. Len(list[i]) /\ new[i][j] = list[i][j]
      BY <2>2
    <2>4. \/ h = k /\ l = Len(list[k]) + 1 /\ new[h][l] = m
          \/ h \in 1 .. Len(list) /\ l \in 1 .. Len(list[h]) /\ new[h][l] = list[h][l]
      BY <2>2
    <2> QED BY <1>8, <2>1, <2>3, <2>4 DEF Once
  <1> QED BY <1>4, <1>6, <1>7, <1>8

\* A new block in front of the others holds the method and nothing else.
LEMMA PushedBlock ==
    ASSUME NEW list, Blocks(list), NEW m \in Methods, NEW new,
           new = << << m >> >> \o list
    PROVE  /\ Blocks(new)
           /\ Len(new) = Len(list) + 1
           /\ Saved(new) = Saved(list) \cup {m}
           /\ Once(list) /\ m \notin Saved(list) => Once(new)
  <1> DEFINE b == << m >>
  <1>1. list \in Seq(Seq(Methods)) /\ Len(list) \in Nat
    BY LenProperties DEF Blocks
  <1>2. b \in Seq(Methods) /\ Len(b) = 1 /\ b[1] = m
    OBVIOUS
  <1> HIDE DEF b
  <1>3. << b >> \in Seq(Seq(Methods)) /\ Len(<< b >>) = 1 /\ << b >>[1] = b
    BY <1>2
  <1>4. /\ new \in Seq(Seq(Methods)) /\ Len(new) = Len(list) + 1
        /\ \A i \in 1 .. Len(list) + 1 : new[i] = IF i = 1 THEN b ELSE list[i - 1]
    <2>1. new = << b >> \o list
      BY DEF b
    <2>2. /\ new \in Seq(Seq(Methods)) /\ Len(new) = 1 + Len(list)
          /\ \A i \in 1 .. 1 + Len(list) :
               new[i] = IF i =< 1 THEN << b >>[i] ELSE list[i - 1]
      BY <1>1, <1>3, <2>1, ConcatProperties
    <2> QED BY <1>1, <1>3, <2>2
  <1>5. \A i \in 1 .. Len(list) : Len(list[i]) \in Nat
    BY <1>1, ElementOfSeq, LenProperties
  <1>6. Blocks(new)
    <2>1. ASSUME NEW i \in 1 .. Len(new) PROVE Len(new[i]) =< SyncArraySize
      <3>1. CASE i = 1
        BY <1>1, <1>2, <1>4, <3>1, TempAssumption
      <3>2. CASE i # 1
        <4>1. i - 1 \in 1 .. Len(list) /\ new[i] = list[i - 1]
          BY <1>1, <1>4, <3>2
        <4> QED BY <4>1 DEF Blocks
      <3> QED BY <3>1, <3>2
    <2> QED BY <1>4, <2>1 DEF Blocks
  <1>7. ASSUME NEW i \in 1 .. Len(new), NEW j \in 1 .. Len(new[i])
        PROVE  \/ i = 1 /\ j = 1 /\ new[i][j] = m
               \/ /\ i # 1 /\ i - 1 \in 1 .. Len(list) /\ j \in 1 .. Len(list[i - 1])
                  /\ new[i][j] = list[i - 1][j]
    <2>1. CASE i = 1
      BY <1>1, <1>2, <1>4, <2>1
    <2>2. CASE i # 1
      BY <1>1, <1>4, <2>2
    <2> QED BY <2>1, <2>2
  <1>8. Saved(new) = Saved(list) \cup {m}
    <2>1. ASSUME NEW x \in Saved(new) PROVE x \in Saved(list) \cup {m}
      <3>0. PICK i \in 1 .. Len(new) : \E j \in 1 .. Len(new[i]) : new[i][j] = x
        BY SavedSomewhere, <2>1
      <3>1. PICK j \in 1 .. Len(new[i]) : new[i][j] = x
        BY <3>0
      <3>2. CASE i = 1 /\ j = 1 /\ new[i][j] = m
        BY <3>1, <3>2
      <3>3. CASE /\ i - 1 \in 1 .. Len(list) /\ j \in 1 .. Len(list[i - 1])
                 /\ new[i][j] = list[i - 1][j]
        BY <3>1, <3>3, SavedSomewhere
      <3> QED BY <1>7, <3>2, <3>3
    <2>2. ASSUME NEW x \in Saved(list) PROVE x \in Saved(new)
      <3>0. PICK i \in 1 .. Len(list) : \E j \in 1 .. Len(list[i]) : list[i][j] = x
        BY SavedSomewhere, <2>2
      <3>1. PICK j \in 1 .. Len(list[i]) : list[i][j] = x
        BY <3>0
      <3>2. i + 1 \in 1 .. Len(new) /\ j \in 1 .. Len(new[i + 1]) /\ new[i + 1][j] = x
        BY <1>1, <1>4, <3>1
      <3> QED BY <3>2, SavedSomewhere
    <2>3. m \in Saved(new)
      <3>1. 1 \in 1 .. Len(new) /\ 1 \in 1 .. Len(new[1]) /\ new[1][1] = m
        BY <1>1, <1>2, <1>4
      <3> QED BY <3>1, SavedSomewhere
    <2> QED BY <2>1, <2>2, <2>3
  <1>9. ASSUME Once(list), m \notin Saved(list) PROVE Once(new)
    <2>1. \A i \in 1 .. Len(list) : \A j \in 1 .. Len(list[i]) : list[i][j] # m
      BY <1>9, SavedSomewhere
    <2> SUFFICES ASSUME NEW i \in 1 .. Len(new), NEW h \in 1 .. Len(new),
                        NEW j \in 1 .. Len(new[i]), NEW l \in 1 .. Len(new[h]),
                        new[i][j] = new[h][l]
                 PROVE  i = h /\ j = l
      BY DEF Once
    <2>2. \/ i = 1 /\ j = 1 /\ new[i][j] = m
          \/ /\ i # 1 /\ i - 1 \in 1 .. Len(list) /\ j \in 1 .. Len(list[i - 1])
             /\ new[i][j] = list[i - 1][j]
      BY <1>7
    <2>3. \/ h = 1 /\ l = 1 /\ new[h][l] = m
          \/ /\ h # 1 /\ h - 1 \in 1 .. Len(list) /\ l \in 1 .. Len(list[h - 1])
             /\ new[h][l] = list[h - 1][l]
      BY <1>7
    <2>4. CASE i = 1 /\ j = 1 /\ new[i][j] = m
      BY <2>1, <2>3, <2>4
    <2>5. CASE h = 1 /\ l = 1 /\ new[h][l] = m
      BY <2>1, <2>2, <2>5
    <2>6. CASE i # 1 /\ h # 1
      <3>1. i - 1 = h - 1 /\ j = l
        BY <1>9, <2>2, <2>3, <2>6 DEF Once
      <3> QED BY <1>1, <1>4, <3>1
    <2> QED BY <2>2, <2>3, <2>4, <2>5, <2>6
  <1> QED BY <1>4, <1>6, <1>8, <1>9

\* Blocks that are all full and save no method twice save as many methods as
\* they have places.
LEMMA FullBlocks ==
    ASSUME NEW list, Blocks(list), Once(list), FreeBlocks(list) = {},
           IsFiniteSet(Saved(list))
    PROVE  Len(list) * SyncArraySize =< Cardinality(Saved(list))
  <1> DEFINE I == 1 .. Len(list)
             J == 1 .. SyncArraySize
             f == [p \in I \X J |-> list[p[1]][p[2]]]
  <1>1. Len(list) \in Nat /\ \A i \in I : Len(list[i]) \in Nat
    BY ElementOfSeq, LenProperties DEF Blocks
  <1>2. \A i \in I : Len(list[i]) = SyncArraySize
    <2> SUFFICES ASSUME NEW i \in I PROVE Len(list[i]) = SyncArraySize
      OBVIOUS
    <2>1. i \notin FreeBlocks(list)
      OBVIOUS
    <2>2. ~(Len(list[i]) < SyncArraySize)
      BY <2>1 DEF FreeBlocks
    <2>3. Len(list[i]) =< SyncArraySize
      BY DEF Blocks
    <2> QED BY <1>1, <2>2, <2>3, TempAssumption
  <1>3. \A p \in I \X J : /\ p[1] \in 1 .. Len(list)
                          /\ p[2] \in 1 .. Len(list[p[1]])
                          /\ p = << p[1], p[2] >>
    BY <1>2
  <1>4. f \in [I \X J -> Saved(list)]
    BY <1>3, SavedSomewhere
  <1>5. ASSUME NEW p \in I \X J, NEW q \in I \X J, f[p] = f[q] PROVE p = q
    <2>1. list[p[1]][p[2]] = list[q[1]][q[2]]
      BY <1>5
    <2>2. p[1] = q[1] /\ p[2] = q[2]
      BY <1>3, <2>1 DEF Once
    <2> QED BY <1>3, <2>2
  <1>6. f \in Injection(I \X J, Saved(list))
    <2> HIDE DEF f, I, J
    <2> QED BY <1>4, <1>5 DEF Injection, IsInjective
  <1>7. Cardinality(I \X J) =< Cardinality(Saved(list))
    BY <1>6, FS_Injection
  <1>8. IsFiniteSet(I) /\ Cardinality(I) = Len(list)
    BY <1>1, FS_Interval
  <1>9. IsFiniteSet(J) /\ Cardinality(J) = SyncArraySize
    BY TempAssumption, FS_Interval
  <1>10. Cardinality(I \X J) = Len(list) * SyncArraySize
    <2> HIDE DEF I, J
    <2> QED BY <1>8, <1>9, FS_Product
  <1> QED BY <1>7, <1>10

\* A set of natural numbers that is not empty has a least one.
LEMMA LeastPlace ==
    ASSUME NEW S \in SUBSET Nat, S # {}
    PROVE  \E i \in S : \A j \in S : i =< j
  <1>1. PICK i \in S : \A j \in S : ~(<< j, i >> \in OpToRel(<, Nat))
    BY NatLessThanWellFounded, WFMin
  <1>2. \A j \in S : ~(j < i)
    BY <1>1 DEF OpToRel
  <1> QED BY <1>2

\* saveTempTrampoline keeps the blocks well formed, saves the method or asks
\* for a full synchronization, and gets a new block only when every place of
\* the old ones holds a method with an entry.
LEMMA SaveEffect ==
    ASSUME TrampolinesTypeOK, SavedOnce, SavedServed, SyncListBounded,
           NEW m \in Served, SaveTempTrampoline(m)
    PROVE  /\ Blocks(trampolineSyncList')
           /\ Once(trampolineSyncList')
           /\ Saved(trampolineSyncList') \in
                {Saved(trampolineSyncList), Saved(trampolineSyncList) \cup {m}}
           /\ (Len(trampolineSyncList') - 1) * SyncArraySize =<
                Cardinality(resolvedMethods)
           /\ fullSyncRequired' \in BOOLEAN
           /\ \/ /\ Saved(trampolineSyncList') = Saved(trampolineSyncList) \cup {m}
                 /\ fullSyncRequired' = fullSyncRequired
              \/ /\ Saved(trampolineSyncList') = Saved(trampolineSyncList)
                 /\ fullSyncRequired' = TRUE
  <1> DEFINE list == trampolineSyncList
             new == trampolineSyncList'
  <1>1. Blocks(list) /\ Once(list) /\ m \in Methods /\ Len(list) \in Nat
    BY LenProperties DEF TrampolinesTypeOK, Blocks, SavedOnce, Served
  <1>2. IsFiniteSet(resolvedMethods) /\ Cardinality(resolvedMethods) \in Nat
    BY MethodsAssumption, FS_Subset, FS_CardinalityType DEF TrampolinesTypeOK
  <1>3. (Len(list) - 1) * SyncArraySize =< Cardinality(resolvedMethods)
    BY DEF SyncListBounded
  <1>4. fullSyncRequired \in BOOLEAN
    BY DEF TrampolinesTypeOK
  <1>5. CASE UNCHANGED << trampolineSyncList, fullSyncRequired >> /\ HasSaved(list, m)
    <2>1. new = list /\ fullSyncRequired' = fullSyncRequired
      BY <1>5
    <2>2. Saved(list) = Saved(list) \cup {m}
      BY <1>5, Zenon DEF HasSaved
    <2> HIDE DEF list, new
    <2>3. Saved(new) = Saved(list)
      BY <2>1
    <2> QED BY <1>1, <1>3, <1>4, <2>1, <2>2, <2>3 DEF list, new
  <1>6. CASE /\ ~HasSaved(list, m)
             /\ FreeBlocks(list) # {}
             /\ new = [list EXCEPT ![FirstFree(list)] = Append(@, m)]
             /\ UNCHANGED fullSyncRequired
    <2>1. FirstFree(list) \in FreeBlocks(list)
      <3>1. \E i \in FreeBlocks(list) : \A j \in FreeBlocks(list) : i =< j
        <4>1. FreeBlocks(list) \in SUBSET Nat
          BY DEF FreeBlocks
        <4> HIDE DEF list
        <4> QED BY <1>6, <4>1, LeastPlace
      <3> HIDE DEF list
      <3> QED BY <3>1 DEF FirstFree
    <2>2. FirstFree(list) \in 1 .. Len(list) /\ Len(list[FirstFree(list)]) < SyncArraySize
      BY <2>1 DEF FreeBlocks
    <2>3. m \notin Saved(list)
      BY <1>6 DEF HasSaved
    <2>4. Blocks(new) /\ Len(new) = Len(list) /\ Saved(new) = Saved(list) \cup {m} /\ Once(new)
      <3> DEFINE k == FirstFree(list)
      <3>1. new = Appended(list, k, m)
        BY <1>6 DEF Appended
      <3>2. k \in 1 .. Len(list) /\ Len(list[k]) < SyncArraySize
        BY <2>2
      <3> HIDE DEF list, new, k
      <3> QED BY ONLY <1>1, <2>3, <3>1, <3>2, AppendedBlock
    <2> QED BY <1>3, <1>4, <1>6, <2>4
  <1>7. CASE /\ ~HasSaved(list, m)
             /\ FreeBlocks(list) = {}
             /\ new = << << m >> >> \o list
             /\ UNCHANGED fullSyncRequired
    <2>1. m \notin Saved(list)
      BY <1>7 DEF HasSaved
    <2>2. Blocks(new) /\ Len(new) = Len(list) + 1 /\ Saved(new) = Saved(list) \cup {m} /\ Once(new)
      BY <1>1, <1>7, <2>1, PushedBlock
    <2>3. Saved(list) \in SUBSET resolvedMethods
      BY DEF SavedServed, Served
    <2>4. IsFiniteSet(Saved(list)) /\ Cardinality(Saved(list)) =< Cardinality(resolvedMethods)
      BY <1>2, <2>3, FS_Subset
    <2>5. Len(list) * SyncArraySize =< Cardinality(Saved(list)) /\ Cardinality(Saved(list)) \in Nat
      BY <1>1, <1>7, <2>4, FullBlocks, FS_CardinalityType
    <2>6. (Len(new) - 1) * SyncArraySize = Len(list) * SyncArraySize
      BY <1>1, <2>2
    <2>7. Len(list) * SyncArraySize \in Int
      BY <1>1, TempAssumption
    <2>8. (Len(new) - 1) * SyncArraySize =< Cardinality(resolvedMethods)
      BY <1>2, <2>4, <2>5, <2>6, <2>7
    <2> QED BY <1>4, <1>7, <2>2, <2>8
  <1>8. CASE /\ "block" \in MayFail
             /\ fullSyncRequired' = TRUE
             /\ UNCHANGED trampolineSyncList
    <2>1. new = list
      BY <1>8
    <2> HIDE DEF list, new
    <2>2. Saved(new) = Saved(list)
      BY <2>1
    <2> QED BY <1>1, <1>3, <1>8, <2>1, <2>2 DEF list, new
  <1> QED BY <1>5, <1>6, <1>7, <1>8 DEF SaveTempTrampoline

\* A safe point empties every block and keeps the blocks.
LEMMA EmptiedBlocks ==
    ASSUME NEW list, Blocks(list), NEW new, new = [i \in 1 .. Len(list) |-> << >>]
    PROVE  Blocks(new) /\ Len(new) = Len(list) /\ Saved(new) = {} /\ Once(new)
  <1>1. Len(list) \in Nat
    BY LenProperties DEF Blocks
  <1>2. << >> \in Seq(Methods) /\ Len(<< >>) = 0
    BY EmptySeq
  <1>3. new \in [1 .. Len(list) -> Seq(Methods)]
    BY <1>2
  <1>4. new \in Seq(Seq(Methods))
    BY <1>1, <1>3, SeqDef
  <1>5. Len(new) = Len(list)
    BY <1>1, <1>3, <1>4, LenProperties
  <1>6. \A i \in 1 .. Len(new) : Len(new[i]) = 0
    BY <1>2, <1>5
  <1>7. Blocks(new)
    BY <1>4, <1>6, TempAssumption DEF Blocks
  <1>8. \A i \in 1 .. Len(new) : \A j \in 1 .. Len(new[i]) : FALSE
    BY <1>6
  <1>9. Saved(new) = {}
    BY <1>8, SavedSomewhere
  <1> QED BY <1>5, <1>7, <1>8, <1>9 DEF Once

-----------------------------------------------------------------------------
(***************************************************************************)
(* Entries and reservations                                                *)
(***************************************************************************)

\* The sets of methods with an entry are finite.
LEMMA FiniteEntries ==
    ASSUME TrampolinesTypeOK
    PROVE  /\ IsFiniteSet(Promised) /\ Cardinality(Promised) \in Nat
           /\ IsFiniteSet(resolvedMethods) /\ Cardinality(resolvedMethods) \in Nat
  <1>1. resolvedMethods \in SUBSET Methods /\ Promised \in SUBSET Methods
    BY DEF TrampolinesTypeOK, Promised
  <1> QED BY <1>1, MethodsAssumption, FS_Subset, FS_CardinalityType

\* A method or a caller that is owed a trampoline finds the allocation mark
\* above the reservation mark.
LEMMA OwedMeansRoom ==
    ASSUME TrampolinesTypeOK, ReservationHonoured, Promised # {} \/ direct > 0
    PROVE  trampolineAllocationMark >= trampolineReservationMark + 1
  <1>1. IsFiniteSet(Promised) /\ Cardinality(Promised) \in Nat
    BY FiniteEntries
  <1>2. Promised # {} => Cardinality(Promised) >= 1
    BY <1>1, FS_EmptySet
  <1>3. /\ direct \in Nat /\ trampolineAllocationMark \in Nat
        /\ trampolineReservationMark \in Nat
    BY SlotsAssumption DEF TrampolinesTypeOK
  <1> QED BY <1>1, <1>2, <1>3 DEF ReservationHonoured

\* addResolvedMethod promises a trampoline to one more method and changes
\* nothing of what the methods have.
LEMMA AddEffect ==
    ASSUME Inv, NEW m \in Methods \ resolvedMethods, AddResolvedMethod(m)
    PROVE  /\ resolvedMethods' = resolvedMethods \cup {m}
           /\ UNCHANGED << currentTrampoline, currentStartPC >>
           /\ slabRoom' \in 0 .. SlabEntries
           /\ Cardinality(Promised') = Cardinality(Promised) + 1
           /\ Served' = Served
  <1>1. resolvedMethods' = resolvedMethods \cup {m}
    BY DEF AddResolvedMethod
  <1>2. currentTrampoline[m] = NoSlot /\ currentStartPC[m] = 0
    BY DEF Inv, EntriesInv
  <1>3. currentTrampoline' = currentTrampoline /\ currentStartPC' = currentStartPC
    BY <1>2 DEF AddResolvedMethod, Inv, TrampolinesTypeOK
  <1>4. slabRoom' \in 0 .. SlabEntries
    BY SlabAssumption DEF AddResolvedMethod, AllocateHashEntry, Inv, TrampolinesTypeOK
  <1>5. Promised' = Promised \cup {m} /\ m \notin Promised
    BY <1>1, <1>2, <1>3 DEF Promised
  <1>6. Cardinality(Promised') = Cardinality(Promised) + 1
    <2>1. IsFiniteSet(Promised)
      BY FiniteEntries DEF Inv
    <2>2. Cardinality(Promised \cup {m}) = Cardinality(Promised) + 1
      BY <1>5, <2>1, FS_AddElement
    <2> QED BY <1>5, <2>2
  <1>7. Served' = Served
    BY <1>1, <1>2, <1>3 DEF Served
  <1> QED BY <1>1, <1>3, <1>4, <1>6, <1>7

\* allocateTrampoline finds the trampoline of a method that was promised one,
\* below all that were created before.
LEMMA CreateEffect ==
    ASSUME Inv, NEW m \in Promised, NEW pc, CreatePermanent(m, pc)
    PROVE  /\ trampolineAllocationMark - 1 \in 0 .. Slots - 1
           /\ trampolineAllocationMark - 1 >= trampolineReservationMark
           /\ trampolineAllocationMark' = trampolineAllocationMark - 1
           /\ currentTrampoline' =
                [currentTrampoline EXCEPT ![m] = trampolineAllocationMark - 1]
           /\ currentStartPC' = [currentStartPC EXCEPT ![m] = pc]
           /\ code' = [code EXCEPT ![trampolineAllocationMark - 1] = pc]
           /\ UNCHANGED << trampolineReservationMark, resolvedMethods >>
           /\ Cardinality(Promised') = Cardinality(Promised) - 1
           /\ Served' = Served \cup {m}
  <1>1. trampolineAllocationMark >= trampolineReservationMark + 1
    BY OwedMeansRoom DEF Inv
  <1>2. /\ trampolineAllocationMark \in 0 .. Slots
        /\ trampolineReservationMark \in 0 .. Slots
        /\ currentTrampoline \in [Methods -> (0 .. Slots - 1) \cup {NoSlot}]
        /\ m \in Methods /\ m \in resolvedMethods /\ resolvedMethods \subseteq Methods
    BY DEF Inv, TrampolinesTypeOK, Promised
  <1>3. AllocateTrampoline = [slot |-> trampolineAllocationMark - 1,
                              mark |-> trampolineAllocationMark - 1]
    BY <1>1, <1>2, SlotsAssumption DEF AllocateTrampoline
  <1>4. /\ trampolineAllocationMark - 1 \in 0 .. Slots - 1
        /\ trampolineAllocationMark - 1 >= trampolineReservationMark
    BY <1>1, <1>2, SlotsAssumption
  <1>5. /\ trampolineAllocationMark' = trampolineAllocationMark - 1
        /\ currentTrampoline' =
             [currentTrampoline EXCEPT ![m] = trampolineAllocationMark - 1]
        /\ currentStartPC' = [currentStartPC EXCEPT ![m] = pc]
        /\ code' = [code EXCEPT ![trampolineAllocationMark - 1] = pc]
        /\ UNCHANGED << trampolineReservationMark, resolvedMethods >>
    BY <1>3 DEF CreatePermanent
  <1>6. trampolineAllocationMark - 1 # NoSlot
    BY <1>4, SlotsAssumption
  <1>7. Promised' = Promised \ {m} /\ Served' = Served \cup {m}
    BY <1>2, <1>5, <1>6 DEF Promised, Served
  <1>8. Cardinality(Promised') = Cardinality(Promised) - 1
    <2>1. IsFiniteSet(Promised)
      BY FiniteEntries DEF Inv
    <2>2. Cardinality(Promised \ {m}) = Cardinality(Promised) - 1
      BY <2>1, FS_RemoveElement
    <2> QED BY <1>7, <2>2
  <1> QED BY <1>4, <1>5, <1>7, <1>8

-----------------------------------------------------------------------------
(***************************************************************************)
(* Every action preserves the invariant                                    *)
(***************************************************************************)

\* A step that leaves the blocks alone and takes no entry or trampoline away
\* leaves what the blocks hold sound.
LEMMA ListKept ==
    ASSUME Inv, UNCHANGED trampolineSyncList, Served \subseteq Served',
           resolvedMethods \subseteq resolvedMethods', resolvedMethods' \subseteq Methods
    PROVE  SavedServed' /\ SavedOnce' /\ SyncListBounded'
  <1>1. SavedServed'
    BY DEF Inv, SavedServed
  <1>2. SavedOnce'
    BY DEF Inv, SavedOnce
  <1>3. Cardinality(resolvedMethods) =< Cardinality(resolvedMethods')
    <2>1. IsFiniteSet(resolvedMethods')
      BY MethodsAssumption, FS_Subset
    <2> QED BY <2>1, FS_Subset
  <1>4. /\ Cardinality(resolvedMethods) \in Nat /\ Cardinality(resolvedMethods') \in Nat
        /\ Len(trampolineSyncList) \in Nat
    <2>1. IsFiniteSet(resolvedMethods')
      BY MethodsAssumption, FS_Subset
    <2> QED BY <2>1, FiniteEntries, FS_CardinalityType, LenProperties DEF Inv, TrampolinesTypeOK
  <1>5. SyncListBounded'
    <2>1. (Len(trampolineSyncList) - 1) * SyncArraySize =< Cardinality(resolvedMethods)
      BY DEF Inv, SyncListBounded
    <2>2. (Len(trampolineSyncList) - 1) * SyncArraySize \in Int
      BY <1>4, TempAssumption
    <2>3. (Len(trampolineSyncList) - 1) * SyncArraySize =< Cardinality(resolvedMethods')
      BY <1>3, <1>4, <2>1, <2>2
    <2> QED BY <2>3 DEF SyncListBounded
  <1> QED BY <1>1, <1>2, <1>5

\* A step that changes nothing preserves the invariant.
LEMMA StutterKeeps ==
    ASSUME Inv, UNCHANGED trampolineVars
    PROVE  Inv'
  <1> USE DEF trampolineVars, marks, entries, syncs, environment
  <1>1. TrampolinesTypeOK'
    BY DEF Inv, TrampolinesTypeOK
  <1>2. WorkInv' /\ EntriesInv' /\ TrampolinesUnshared'
    BY DEF Inv, WorkInv, EntriesInv, TrampolinesUnshared
  <1>3. Promised' = Promised /\ Served' = Served
    BY DEF Promised, Served
  <1>4. ReservationHonoured'
    BY <1>3 DEF Inv, ReservationHonoured
  <1>5. SavedServed' /\ SavedOnce' /\ SyncListBounded'
    BY <1>1, <1>3, ListKept DEF TrampolinesTypeOK
  <1> QED BY <1>1, <1>2, <1>4, <1>5 DEF Inv

\* Initially nothing is reserved, created or saved.
LEMMA InitInv == TrampolinesInit => Inv
  <1> SUFFICES ASSUME TrampolinesInit PROVE Inv
    OBVIOUS
  <1> USE DEF TrampolinesInit
  <1>1. << << >> >> \in Seq(Seq(Methods)) /\ Len(<< << >> >>) = 1 /\ << << >> >>[1] = << >>
    OBVIOUS
  <1>2. Len(<< >>) = 0
    BY EmptySeq
  <1>3. \A i \in 1 .. Len(trampolineSyncList) : Len(trampolineSyncList[i]) = 0
    BY <1>1, <1>2
  <1>4. TrampolinesTypeOK
    <2>1. /\ trampolineSyncList \in Seq(Seq(Methods))
          /\ \A i \in 1 .. Len(trampolineSyncList) :
               Len(trampolineSyncList[i]) =< SyncArraySize
      BY <1>1, <1>3, TempAssumption
    <2>2. /\ monitor \in Threads \cup {NoThread}
          /\ work \in [Threads -> Methods \cup {NoMethod}]
          /\ resolvedMethods \subseteq Methods
          /\ currentTrampoline \in [Methods -> (0 .. Slots - 1) \cup {NoSlot}]
          /\ fullSyncRequired \in BOOLEAN /\ almostFull \in BOOLEAN
      OBVIOUS
    <2>3. /\ trampolineReservationMark \in 0 .. Slots
          /\ trampolineAllocationMark \in 0 .. Slots
          /\ tempTrampolineNext \in TempTrampolineBase .. TempTrampolineTop
          /\ slabRoom \in 0 .. SlabEntries
      BY SlotsAssumption, TempAssumption, SlabAssumption
         DEF TempTrampolineBase, TempTrampolineTop
    <2>4. /\ currentStartPC \in [Methods -> 0 .. MaxPC]
          /\ code \in [0 .. Slots - 1 -> 0 .. MaxPC]
          /\ startPC \in [Methods -> 1 .. MaxPC]
          /\ direct \in 0 .. MaxDirect
          /\ asked \in [Methods -> 0 .. MaxPC]
      BY BoundAssumption
    <2> QED BY <2>1, <2>2, <2>3, <2>4 DEF TrampolinesTypeOK
  <1>5. WorkInv /\ EntriesInv /\ TrampolinesUnshared
    BY DEF WorkInv, EntriesInv, TrampolinesUnshared
  <1>6. ReservationHonoured
    <2>1. Promised = {}
      BY DEF Promised
    <2>2. Cardinality(Promised) = 0
      BY <2>1, FS_EmptySet
    <2> QED BY <2>2, SlotsAssumption DEF ReservationHonoured, TempTrampolineBase
  <1>7. SavedServed /\ SavedOnce
    <2>1. \A i \in 1 .. Len(trampolineSyncList) :
            \A j \in 1 .. Len(trampolineSyncList[i]) : FALSE
      BY <1>3
    <2>2. Saved(trampolineSyncList) = {}
      BY <2>1, SavedSomewhere
    <2> QED BY <2>1, <2>2 DEF SavedServed, SavedOnce, Once
  <1>8. SyncListBounded
    <2>1. Cardinality(resolvedMethods) = 0
      BY FS_EmptySet
    <2>2. Len(trampolineSyncList) - 1 = 0
      BY <1>1
    <2> QED BY <2>1, <2>2, TempAssumption DEF SyncListBounded
  <1> QED BY <1>4, <1>5, <1>6, <1>7, <1>8 DEF Inv

\* reserveSpaceForTrampoline lowers the reservation mark by what it grants.
LEMMA ReserveSpaceKeeps ==
    ASSUME Inv, NEW n \in 1 .. MaxDirect, ReserveSpaceForTrampoline(n)
    PROVE  Inv'
  <1> USE DEF ReserveSpaceForTrampoline, ReserveSpace, RoomFor, entries, syncs
  <1>1. TrampolinesTypeOK'
    BY SlotsAssumption, BoundAssumption DEF Inv, TrampolinesTypeOK
  <1>2. WorkInv' /\ EntriesInv' /\ TrampolinesUnshared'
    BY DEF Inv, WorkInv, EntriesInv, TrampolinesUnshared
  <1>3. Promised' = Promised /\ Served' = Served
    BY DEF Promised, Served
  <1>4. ReservationHonoured'
    <2>1. Cardinality(Promised') = Cardinality(Promised) /\ Cardinality(Promised) \in Nat
      BY <1>3, FiniteEntries DEF Inv
    <2>2. /\ direct \in Nat /\ trampolineAllocationMark \in Nat
          /\ trampolineReservationMark \in Nat
      BY SlotsAssumption DEF Inv, TrampolinesTypeOK
    <2> QED BY <2>1, <2>2 DEF Inv, ReservationHonoured
  <1>5. SavedServed' /\ SavedOnce' /\ SyncListBounded'
    BY <1>1, <1>3, ListKept DEF TrampolinesTypeOK
  <1> QED BY <1>1, <1>2, <1>4, <1>5 DEF Inv

\* unreserveSpaceForTrampoline raises the reservation mark by one that is
\* owed, so it stays at or below the allocation mark.
LEMMA UnreserveSpaceKeeps ==
    ASSUME Inv, UnreserveSpaceForTrampoline
    PROVE  Inv'
  <1> USE DEF UnreserveSpaceForTrampoline, entries, syncs
  <1>1. trampolineAllocationMark >= trampolineReservationMark + 1
    BY OwedMeansRoom DEF Inv
  <1>2. TrampolinesTypeOK'
    BY <1>1, SlotsAssumption, BoundAssumption DEF Inv, TrampolinesTypeOK
  <1>3. WorkInv' /\ EntriesInv' /\ TrampolinesUnshared'
    BY DEF Inv, WorkInv, EntriesInv, TrampolinesUnshared
  <1>4. Promised' = Promised /\ Served' = Served
    BY DEF Promised, Served
  <1>5. ReservationHonoured'
    <2>1. Cardinality(Promised') = Cardinality(Promised) /\ Cardinality(Promised) \in Nat
      BY <1>4, FiniteEntries DEF Inv
    <2>2. /\ direct \in Nat /\ trampolineAllocationMark \in Nat
          /\ trampolineReservationMark \in Nat
      BY SlotsAssumption DEF Inv, TrampolinesTypeOK
    <2> QED BY <2>1, <2>2 DEF Inv, ReservationHonoured
  <1>6. SavedServed' /\ SavedOnce' /\ SyncListBounded'
    BY <1>2, <1>4, ListKept DEF TrampolinesTypeOK
  <1> QED BY <1>2, <1>3, <1>5, <1>6 DEF Inv

\* findOrAddResolvedMethod turns a reservation into the promise to a method,
\* or fails and leaves the reservation with the caller.
LEMMA FindOrAddKeeps ==
    ASSUME Inv, NEW m \in Methods, FindOrAddResolvedMethod(m)
    PROVE  Inv'
  <1> USE DEF marks, syncs
  <1>1. /\ direct \in Nat /\ trampolineAllocationMark \in Nat
        /\ trampolineReservationMark \in Nat
        /\ Cardinality(Promised) \in Nat
    BY FiniteEntries, SlotsAssumption DEF Inv, TrampolinesTypeOK
  <1>2. CASE AddResolvedMethod(m) /\ direct' = direct - 1
    <2>1. m \in Methods \ resolvedMethods
      BY DEF FindOrAddResolvedMethod
    <2>2. /\ resolvedMethods' = resolvedMethods \cup {m}
          /\ UNCHANGED << currentTrampoline, currentStartPC >>
          /\ slabRoom' \in 0 .. SlabEntries
          /\ Cardinality(Promised') = Cardinality(Promised) + 1
          /\ Served' = Served
      BY <1>2, <2>1, AddEffect
    <2>3. TrampolinesTypeOK'
      <3>1. direct' \in 0 .. MaxDirect /\ resolvedMethods' \subseteq Methods
        BY <1>2, <2>2, BoundAssumption DEF FindOrAddResolvedMethod, Inv, TrampolinesTypeOK
      <3> QED BY <2>2, <3>1 DEF FindOrAddResolvedMethod, Inv, TrampolinesTypeOK
    <2>4. WorkInv'
      <3>1. \A t \in Threads : work[t] = NoMethod
        BY MonitorAssumption DEF FindOrAddResolvedMethod, Inv, WorkInv
      <3> QED BY <3>1 DEF FindOrAddResolvedMethod, WorkInv
    <2>5. EntriesInv' /\ TrampolinesUnshared'
      BY <2>2 DEF FindOrAddResolvedMethod, Inv, EntriesInv, TrampolinesUnshared
    <2>6. ReservationHonoured'
      BY <1>1, <1>2, <2>2 DEF FindOrAddResolvedMethod, Inv, ReservationHonoured
    <2>7. SavedServed' /\ SavedOnce' /\ SyncListBounded'
      BY <2>2, <2>3, ListKept DEF FindOrAddResolvedMethod, TrampolinesTypeOK
    <2> QED BY <2>3, <2>4, <2>5, <2>6, <2>7 DEF Inv
  <1>3. CASE NoHashEntry /\ UNCHANGED direct
    <2>1. UNCHANGED trampolineVars
      BY <1>3 DEF NoHashEntry, FindOrAddResolvedMethod, trampolineVars, environment
    <2> QED BY <2>1, StutterKeeps
  <1> QED BY <1>2, <1>3 DEF FindOrAddResolvedMethod

\* reserveResolvedTrampoline begins by taking the monitor.
LEMMA BeginKeeps ==
    ASSUME Inv, NEW t \in Threads, NEW m \in Methods, BeginReserveResolved(t, m)
    PROVE  Inv'
  <1> USE DEF BeginReserveResolved, marks, entries, syncs, environment
  <1>1. TrampolinesTypeOK'
    BY DEF Inv, TrampolinesTypeOK
  <1>2. WorkInv'
    <2>1. \A u \in Threads : work[u] = NoMethod
      BY MonitorAssumption DEF Inv, WorkInv
    <2>2. work' = [work EXCEPT ![t] = m] /\ work \in [Threads -> Methods \cup {NoMethod}]
      BY DEF Inv, TrampolinesTypeOK
    <2> QED BY <2>1, <2>2 DEF WorkInv
  <1>3. EntriesInv' /\ TrampolinesUnshared'
    BY DEF Inv, EntriesInv, TrampolinesUnshared
  <1>4. Promised' = Promised /\ Served' = Served
    BY DEF Promised, Served
  <1>5. ReservationHonoured'
    BY <1>4 DEF Inv, ReservationHonoured
  <1>6. SavedServed' /\ SavedOnce' /\ SyncListBounded'
    BY <1>1, <1>4, ListKept DEF TrampolinesTypeOK
  <1> QED BY <1>1, <1>2, <1>3, <1>5, <1>6 DEF Inv

\* reserveResolvedTrampoline ends with the space reserved and an entry for the
\* method, with the space reserved for nothing because there was no hash
\* entry, or with neither; no promise is made without space in any case.
LEMMA ReserveResolvedKeeps ==
    ASSUME Inv, NEW t \in Threads, ReserveResolved(t)
    PROVE  Inv'
  <1> USE DEF syncs, environment
  <1>1. /\ trampolineAllocationMark \in Nat /\ trampolineReservationMark \in Nat
        /\ direct \in Nat /\ Cardinality(Promised) \in Nat
    BY FiniteEntries, SlotsAssumption DEF Inv, TrampolinesTypeOK
  <1>2. work[t] \in Methods \ resolvedMethods /\ monitor = t
    BY DEF ReserveResolved, Inv, TrampolinesTypeOK, WorkInv
  <1>3. monitor' = NoThread /\ work' = [work EXCEPT ![t] = NoMethod]
    BY DEF ReserveResolved, Leave
  <1>4. /\ trampolineReservationMark' \in 0 .. Slots
        /\ trampolineReservationMark' =< trampolineReservationMark
        /\ RoomFor(1) => trampolineReservationMark' = trampolineReservationMark - 1
        /\ ~RoomFor(1) => trampolineReservationMark' = trampolineReservationMark
        /\ almostFull' \in BOOLEAN
        /\ UNCHANGED trampolineAllocationMark
    BY SlotsAssumption DEF ReserveResolved, ReserveSpace, RoomFor, Inv, TrampolinesTypeOK
  <1>5. /\ resolvedMethods \subseteq resolvedMethods'
        /\ resolvedMethods' \subseteq resolvedMethods \cup {work[t]}
        /\ UNCHANGED << currentTrampoline, currentStartPC >>
        /\ slabRoom' \in 0 .. SlabEntries
        /\ Cardinality(Promised') \in Nat
        /\ Cardinality(Promised') + trampolineReservationMark' =<
             Cardinality(Promised) + trampolineReservationMark
        /\ Served' = Served
    <2>1. CASE RoomFor(1) /\ AddResolvedMethod(work[t])
      <3>1. /\ resolvedMethods' = resolvedMethods \cup {work[t]}
            /\ UNCHANGED << currentTrampoline, currentStartPC >>
            /\ slabRoom' \in 0 .. SlabEntries
            /\ Cardinality(Promised') = Cardinality(Promised) + 1
            /\ Served' = Served
        BY <1>2, <2>1, AddEffect
      <3> QED BY <1>1, <1>4, <2>1, <3>1
    <2>2. CASE UNCHANGED << slabRoom, entries >>
      <3>1. UNCHANGED << slabRoom, resolvedMethods, currentTrampoline, currentStartPC >>
        BY <2>2 DEF entries
      <3>2. Promised' = Promised /\ Served' = Served
        BY <3>1 DEF Promised, Served
      <3>3. slabRoom' \in 0 .. SlabEntries
        BY <3>1 DEF Inv, TrampolinesTypeOK
      <3>4. Cardinality(Promised') = Cardinality(Promised)
        BY <3>2
      <3> QED BY <1>1, <1>4, <3>1, <3>2, <3>3, <3>4, SlotsAssumption
    <2> QED BY <2>1, <2>2 DEF ReserveResolved, NoHashEntry
  <1>6. TrampolinesTypeOK'
    <2>1. resolvedMethods' \subseteq Methods /\ work' \in [Threads -> Methods \cup {NoMethod}]
      BY <1>2, <1>3, <1>5 DEF Inv, TrampolinesTypeOK
    <2> QED BY <1>3, <1>4, <1>5, <2>1 DEF ReserveResolved, Inv, TrampolinesTypeOK
  <1>7. WorkInv'
    <2>1. \A u \in Threads : u # t => work[u] = NoMethod
      BY <1>2 DEF Inv, WorkInv
    <2>2. \A u \in Threads : work'[u] = NoMethod
      BY <1>3, <2>1 DEF Inv, TrampolinesTypeOK
    <2> QED BY <2>2 DEF WorkInv
  <1>8. EntriesInv' /\ TrampolinesUnshared'
    BY <1>4, <1>5 DEF Inv, EntriesInv, TrampolinesUnshared
  <1>9. ReservationHonoured'
    BY <1>1, <1>4, <1>5, SlotsAssumption DEF ReserveResolved, Inv, ReservationHonoured
  <1>10. SavedServed' /\ SavedOnce' /\ SyncListBounded'
    BY <1>5, <1>6, ListKept DEF ReserveResolved, TrampolinesTypeOK
  <1> QED BY <1>6, <1>7, <1>8, <1>9, <1>10 DEF Inv

\* A permanent trampoline is created where none is, for a method that was
\* promised one.
LEMMA CreateKeeps ==
    ASSUME Inv, NEW m \in Promised, NEW pc \in 1 .. MaxPC, CreatePermanent(m, pc),
           UNCHANGED << monitor, work, syncs, almostFull, slabRoom, startPC, direct >>,
           asked' \in [Methods -> 0 .. MaxPC]
    PROVE  Inv'
  <1> USE DEF syncs
  <1> DEFINE slot == trampolineAllocationMark - 1
  <1>1. /\ slot \in 0 .. Slots - 1
        /\ slot >= trampolineReservationMark
        /\ trampolineAllocationMark' = slot
        /\ currentTrampoline' = [currentTrampoline EXCEPT ![m] = slot]
        /\ currentStartPC' = [currentStartPC EXCEPT ![m] = pc]
        /\ code' = [code EXCEPT ![slot] = pc]
        /\ UNCHANGED << trampolineReservationMark, resolvedMethods >>
        /\ Cardinality(Promised') = Cardinality(Promised) - 1
        /\ Served' = Served \cup {m}
    BY CreateEffect
  <1>2. /\ trampolineAllocationMark \in Nat /\ trampolineReservationMark \in Nat
        /\ direct \in Nat /\ Cardinality(Promised) \in Nat /\ slot < trampolineAllocationMark
    BY FiniteEntries, SlotsAssumption DEF Inv, TrampolinesTypeOK
  <1>3. m \in Methods /\ m \in resolvedMethods
    BY DEF Promised, Inv, TrampolinesTypeOK
  <1>4. slot # NoSlot
    BY <1>1, SlotsAssumption
  <1>5. ReservationHonoured'
    BY <1>1, <1>2 DEF Inv, ReservationHonoured
  <1> HIDE DEF slot
  <1>6. TrampolinesTypeOK'
    <2>1. trampolineAllocationMark' \in 0 .. Slots
      BY <1>1, SlotsAssumption
    <2>2. currentTrampoline' \in [Methods -> (0 .. Slots - 1) \cup {NoSlot}]
      BY <1>1 DEF Inv, TrampolinesTypeOK
    <2>3. currentStartPC' \in [Methods -> 0 .. MaxPC] /\ code' \in [0 .. Slots - 1 -> 0 .. MaxPC]
      <3>1. pc \in 0 .. MaxPC
        BY BoundAssumption
      <3>2. /\ currentStartPC \in [Methods -> 0 .. MaxPC]
            /\ code \in [0 .. Slots - 1 -> 0 .. MaxPC]
        BY DEF Inv, TrampolinesTypeOK
      <3>3. currentStartPC' \in [Methods -> 0 .. MaxPC]
        BY <1>1, <3>1, <3>2
      <3>4. code' \in [0 .. Slots - 1 -> 0 .. MaxPC]
        BY <1>1, <3>1, <3>2
      <3> QED BY <3>3, <3>4
    <2> QED BY <1>1, <2>1, <2>2, <2>3 DEF Inv, TrampolinesTypeOK
  <1>7. WorkInv' /\ EntriesInv'
    BY <1>1, <1>3 DEF Inv, TrampolinesTypeOK, WorkInv, EntriesInv
  <1>8. TrampolinesUnshared'
    <2>1. \A n \in Methods : currentTrampoline[n] # NoSlot =>
            /\ currentTrampoline[n] \in Nat
            /\ currentTrampoline[n] > slot
      BY <1>1, <1>2, SlotsAssumption DEF Inv, TrampolinesTypeOK, TrampolinesUnshared
    <2>2. \A n \in Methods \ {m} : currentTrampoline'[n] = currentTrampoline[n]
      BY <1>1 DEF Inv, TrampolinesTypeOK
    <2>3. currentTrampoline'[m] = slot
      BY <1>1, <1>3 DEF Inv, TrampolinesTypeOK
    <2> SUFFICES ASSUME NEW p \in Methods, currentTrampoline'[p] # NoSlot
                 PROVE  /\ currentTrampoline'[p] >= slot
                        /\ \A n \in Methods \ {p} :
                             currentTrampoline'[n] # currentTrampoline'[p]
      BY <1>1 DEF TrampolinesUnshared
    <2>4. CASE p = m
      BY <1>1, <1>4, <2>1, <2>2, <2>3, <2>4
    <2>5. CASE p # m
      <3>1. currentTrampoline'[p] = currentTrampoline[p] /\ currentTrampoline[p] > slot
        BY <2>1, <2>2, <2>5
      <3>2. \A n \in Methods \ {p} : currentTrampoline[n] # currentTrampoline[p]
        BY <2>2, <2>5 DEF Inv, TrampolinesUnshared
      <3> QED BY <1>1, <2>1, <2>2, <2>3, <2>5, <3>1, <3>2
    <2> QED BY <2>4, <2>5
  <1>9. SavedServed' /\ SavedOnce' /\ SyncListBounded'
    BY <1>1, <1>6, ListKept DEF TrampolinesTypeOK
  <1> QED BY <1>5, <1>6, <1>7, <1>8, <1>9 DEF Inv

\* findTrampoline creates the trampoline that was promised.
LEMMA FindKeeps ==
    ASSUME Inv, NEW m \in Methods, FindTrampoline(m)
    PROVE  Inv'
  <1>1. m \in Promised /\ startPC[m] \in 1 .. MaxPC
    BY DEF FindTrampoline, Promised, Inv, TrampolinesTypeOK
  <1>2. asked' \in [Methods -> 0 .. MaxPC]
    BY DEF FindTrampoline, environment, Inv, TrampolinesTypeOK
  <1> QED BY <1>1, <1>2, CreateKeeps DEF FindTrampoline, environment

\* patchCallPoint creates the trampoline, rewrites it in place, or saves the
\* method for the next safe point.
LEMMA PatchKeeps ==
    ASSUME Inv, NEW m \in Methods, NEW v \in 1 .. startPC[m], PatchCallPoint(m, v)
    PROVE  Inv'
  <1>1. v \in 1 .. MaxPC /\ v \in 0 .. MaxPC
    BY BoundAssumption DEF Inv, TrampolinesTypeOK
  <1>2. asked' \in [Methods -> 0 .. MaxPC]
    BY <1>1 DEF PatchCallPoint, Inv, TrampolinesTypeOK
  <1>3. CASE ReplaceNone(m, v) /\ currentTrampoline[m] = NoSlot
    <2>1. m \in Promised
      BY <1>3 DEF PatchCallPoint, Promised
    <2> QED BY <1>1, <1>2, <1>3, <2>1, CreateKeeps DEF PatchCallPoint, ReplaceNone
  <1>4. m \in resolvedMethods /\ monitor = NoThread
    BY DEF PatchCallPoint
  <1>5. CASE ReplaceInPlace(m, v) /\ currentTrampoline[m] # NoSlot
    <2> USE DEF ReplaceInPlace, marks, syncs
    <2>1. currentStartPC' \in [Methods -> 0 .. MaxPC]
      BY <1>1, <1>5 DEF Inv, TrampolinesTypeOK
    <2>2. code' \in [0 .. Slots - 1 -> 0 .. MaxPC]
      BY <1>1, <1>5 DEF Inv, TrampolinesTypeOK
    <2>3. TrampolinesTypeOK'
      BY <1>2, <1>5, <2>1, <2>2 DEF PatchCallPoint, Inv, TrampolinesTypeOK
    <2>4. WorkInv' /\ EntriesInv' /\ TrampolinesUnshared'
      BY <1>4, <1>5 DEF PatchCallPoint, Inv, TrampolinesTypeOK, WorkInv, EntriesInv, TrampolinesUnshared
    <2>5. Promised' = Promised /\ Served' = Served
      BY <1>5 DEF Promised, Served
    <2>6. ReservationHonoured'
      BY <1>5, <2>5 DEF PatchCallPoint, Inv, ReservationHonoured
    <2>7. SavedServed' /\ SavedOnce' /\ SyncListBounded'
      BY <1>5, <2>3, <2>5, ListKept DEF TrampolinesTypeOK
    <2> QED BY <2>3, <2>4, <2>6, <2>7 DEF Inv
  <1>6. CASE ReplaceSync(m, v) /\ currentTrampoline[m] # NoSlot
    <2> USE DEF ReplaceSync, marks, syncs
    <2>1. m \in Served
      BY <1>4, <1>6 DEF Served
    <2>2. /\ Blocks(trampolineSyncList')
          /\ Once(trampolineSyncList')
          /\ Saved(trampolineSyncList') \in
               {Saved(trampolineSyncList), Saved(trampolineSyncList) \cup {m}}
          /\ (Len(trampolineSyncList') - 1) * SyncArraySize =< Cardinality(resolvedMethods)
          /\ fullSyncRequired' \in BOOLEAN
      BY <1>6, <2>1, SaveEffect DEF Inv
    <2>3. currentStartPC' \in [Methods -> 0 .. MaxPC]
      BY <1>1, <1>6 DEF Inv, TrampolinesTypeOK
    <2>4. tempTrampolineNext' \in TempTrampolineBase .. TempTrampolineTop
      BY <1>6, SlotsAssumption, TempAssumption
         DEF Inv, TrampolinesTypeOK, TempTrampolineBase, TempTrampolineTop
    <2>5. TrampolinesTypeOK'
      BY <1>2, <1>6, <2>2, <2>3, <2>4 DEF PatchCallPoint, Inv, TrampolinesTypeOK, Blocks
    <2>6. WorkInv' /\ EntriesInv' /\ TrampolinesUnshared'
      BY <1>4, <1>6 DEF PatchCallPoint, Inv, TrampolinesTypeOK, WorkInv, EntriesInv, TrampolinesUnshared
    <2>7. Promised' = Promised /\ Served' = Served
      BY <1>6 DEF Promised, Served
    <2>8. ReservationHonoured'
      BY <1>6, <2>7 DEF PatchCallPoint, Inv, ReservationHonoured
    <2>9. SavedServed'
      <3>1. Saved(trampolineSyncList') \subseteq Served
        BY <2>1, <2>2 DEF Inv, SavedServed
      <3> QED BY <2>7, <3>1 DEF SavedServed
    <2>10. SavedOnce' /\ SyncListBounded'
      BY <1>6, <2>2 DEF SavedOnce, SyncListBounded
    <2> QED BY <2>5, <2>6, <2>8, <2>9, <2>10 DEF Inv
  <1> QED BY <1>3, <1>5, <1>6 DEF PatchCallPoint

\* Compiling a method again changes nothing of the cache.
LEMMA RecompileKeeps ==
    ASSUME Inv, NEW m \in Methods, Recompile(m)
    PROVE  Inv'
  <1> USE DEF Recompile, marks, entries, syncs
  <1>1. startPC' \in [Methods -> 1 .. MaxPC]
    BY BoundAssumption DEF Inv, TrampolinesTypeOK
  <1>2. TrampolinesTypeOK'
    BY <1>1 DEF Inv, TrampolinesTypeOK
  <1>3. WorkInv' /\ EntriesInv' /\ TrampolinesUnshared'
    BY DEF Inv, WorkInv, EntriesInv, TrampolinesUnshared
  <1>4. Promised' = Promised /\ Served' = Served
    BY DEF Promised, Served
  <1>5. ReservationHonoured'
    BY <1>4 DEF Inv, ReservationHonoured
  <1>6. SavedServed' /\ SavedOnce' /\ SyncListBounded'
    BY <1>2, <1>4, ListKept DEF TrampolinesTypeOK
  <1> QED BY <1>2, <1>3, <1>5, <1>6 DEF Inv

\* Only methods with an entry and a trampoline are synchronized.
LEMMA TargetsServed ==
    ASSUME Inv
    PROVE  SyncTargets \subseteq Served
  BY DEF Inv, SavedServed, Served, SyncTargets

\* syncTempTrampolines rewrites trampolines and start addresses and empties
\* the blocks.
LEMMA SyncKeeps ==
    ASSUME Inv, SyncTempTrampolines
    PROVE  Inv'
  <1> USE DEF marks, environment
  <1>1. SyncTargets \subseteq Served /\ Served \subseteq Methods
    BY TargetsServed DEF Served, Inv, TrampolinesTypeOK
  <1>2. /\ UNCHANGED << monitor, work, marks, resolvedMethods, currentTrampoline,
                        almostFull, slabRoom, environment >>
        /\ tempTrampolineNext' = TempTrampolineBase
        /\ fullSyncRequired' = FALSE
        /\ trampolineSyncList' = [i \in 1 .. Len(trampolineSyncList) |-> << >>]
    BY DEF SyncTempTrampolines
  <1>3. Blocks(trampolineSyncList)
    BY DEF Inv, TrampolinesTypeOK, Blocks
  <1>4. /\ Blocks(trampolineSyncList') /\ Len(trampolineSyncList') = Len(trampolineSyncList)
        /\ Saved(trampolineSyncList') = {} /\ Once(trampolineSyncList')
    BY <1>2, <1>3, EmptiedBlocks
  <1>5. startPC \in [Methods -> 0 .. MaxPC]
    BY BoundAssumption DEF Inv, TrampolinesTypeOK
  <1>6. currentStartPC' \in [Methods -> 0 .. MaxPC]
    <2>1. currentStartPC' = [m \in Methods |->
            IF m \in SyncTargets THEN startPC[m] ELSE currentStartPC[m]]
      BY DEF SyncTempTrampolines
    <2> QED BY <1>5, <2>1 DEF Inv, TrampolinesTypeOK
  <1>7. code' \in [0 .. Slots - 1 -> 0 .. MaxPC]
    <2> DEFINE target(s) == CHOOSE m \in SyncTargets : currentTrampoline[m] = s
    <2>1. code' = [s \in 0 .. Slots - 1 |->
            IF \E m \in SyncTargets : currentTrampoline[m] = s
            THEN startPC[target(s)] ELSE code[s]]
      BY DEF SyncTempTrampolines, Inv, TrampolinesTypeOK
    <2>2. ASSUME NEW s \in 0 .. Slots - 1, \E m \in SyncTargets : currentTrampoline[m] = s
          PROVE  target(s) \in Methods
      BY <1>1, <2>2
    <2>3. \A s \in 0 .. Slots - 1 : code[s] \in 0 .. MaxPC
      BY DEF Inv, TrampolinesTypeOK
    <2> HIDE DEF target
    <2> QED BY <1>5, <2>1, <2>2, <2>3
  <1>8. TrampolinesTypeOK'
    <2>1. tempTrampolineNext' \in TempTrampolineBase .. TempTrampolineTop
      BY <1>2, SlotsAssumption, TempAssumption DEF TempTrampolineBase, TempTrampolineTop
    <2>2. /\ trampolineSyncList' \in Seq(Seq(Methods))
          /\ \A i \in 1 .. Len(trampolineSyncList') :
               Len(trampolineSyncList'[i]) =< SyncArraySize
      BY <1>4 DEF Blocks
    <2>3. fullSyncRequired' \in BOOLEAN
      BY <1>2
    <2>4. UNCHANGED << monitor, work, marks, resolvedMethods, currentTrampoline,
                       almostFull, slabRoom, environment >>
      BY <1>2
    <2> QED BY ONLY <1>6, <1>7, <2>1, <2>2, <2>3, <2>4, Inv DEF Inv, TrampolinesTypeOK, marks, environment
  <1>9. WorkInv' /\ TrampolinesUnshared'
    BY <1>2 DEF Inv, WorkInv, TrampolinesUnshared
  <1>10. EntriesInv'
    BY <1>1, <1>2 DEF SyncTempTrampolines, Served, Inv, EntriesInv
  <1>11. Promised' = Promised /\ Served' = Served
    BY <1>2 DEF Promised, Served
  <1>12. ReservationHonoured'
    BY <1>2, <1>11 DEF Inv, ReservationHonoured
  <1>13. SavedServed' /\ SavedOnce' /\ SyncListBounded'
    BY <1>2, <1>4 DEF Inv, SavedServed, SavedOnce, SyncListBounded
  <1> QED BY <1>8, <1>9, <1>10, <1>12, <1>13 DEF Inv

\* Every step preserves the invariant.
LEMMA NextKeeps ==
    ASSUME Inv, [TrampolinesNext]_trampolineVars
    PROVE  Inv'
  <1>1. ASSUME NEW t \in Threads, ReserveResolved(t) PROVE Inv'
    BY <1>1, ReserveResolvedKeeps
  <1>2. ASSUME NEW t \in Threads, NEW m \in Methods, BeginReserveResolved(t, m) PROVE Inv'
    BY <1>2, BeginKeeps
  <1>3. ASSUME NEW n \in 1 .. MaxDirect, ReserveSpaceForTrampoline(n) PROVE Inv'
    BY <1>3, ReserveSpaceKeeps
  <1>4. CASE UnreserveSpaceForTrampoline
    BY <1>4, UnreserveSpaceKeeps
  <1>5. ASSUME NEW m \in Methods, FindOrAddResolvedMethod(m) PROVE Inv'
    BY <1>5, FindOrAddKeeps
  <1>6. ASSUME NEW m \in Methods, FindTrampoline(m) PROVE Inv'
    BY <1>6, FindKeeps
  <1>7. ASSUME NEW m \in Methods, NEW v \in 1 .. startPC[m], PatchCallPoint(m, v) PROVE Inv'
    BY <1>7, PatchKeeps
  <1>8. ASSUME NEW m \in Methods, Recompile(m) PROVE Inv'
    BY <1>8, RecompileKeeps
  <1>9. CASE SyncTempTrampolines
    BY <1>9, SyncKeeps
  <1>10. CASE UNCHANGED trampolineVars
    BY <1>10, StutterKeeps
  <1> QED BY <1>1, <1>2, <1>3, <1>4, <1>5, <1>6, <1>7, <1>8, <1>9, <1>10 DEF TrampolinesNext

\* The invariant always holds.
LEMMA InvAlways == TrampolinesSpec => []Inv
  <1>1. Inv /\ [TrampolinesNext]_trampolineVars => Inv'
    BY NextKeeps
  <1> QED BY InitInv, <1>1, PTL DEF TrampolinesSpec

\* After any sequence of reservations, creations, replacements and safe
\* points no permanent trampoline is given to two methods or lies where the
\* next will be created, and the list of synchronization blocks has not grown
\* beyond what the methods with an entry need (allocateTrampoline,
\* saveTempTrampoline).
THEOREM LayoutAlwaysSound == TrampolinesSpec => []TrampolinesSound
  <1>1. Inv => TrampolinesSound
    BY DEF Inv, TrampolinesSound
  <1> QED BY <1>1, InvAlways, PTL

\* Whatever fails in between, allocateTrampoline has a trampoline left for
\* every method with an entry and every reservation without one, so that
\* findTrampoline and replaceTrampoline never see NULL.
THEOREM ReservationsAlwaysHonoured == TrampolinesSpec => []ReservationHonoured
  <1>1. Inv => ReservationHonoured
    BY DEF Inv
  <1> QED BY <1>1, InvAlways, PTL

-----------------------------------------------------------------------------
(***************************************************************************)
(* What a step does to the targets of calls                                *)
(***************************************************************************)

\* The address the permanent trampoline of a method jumps to, 0 without one.
Reached ==
  [m \in Methods |->
     IF currentTrampoline[m] = NoSlot THEN 0 ELSE code[currentTrampoline[m]]]

\* Nobody has asked for an address that the method does not have yet, and a
\* permanent trampoline jumps somewhere.
AddressesInv ==
  /\ \A m \in Methods : asked[m] =< startPC[m]
  /\ \A m \in Served : Reached[m] >= 1

visible == << startPC, currentStartPC, asked, Reached, Saved(trampolineSyncList),
              Served, fullSyncRequired >>

\* The kinds of steps, by what they do to the targets.
Recompiled(m) ==
  /\ startPC[m] < MaxPC
  /\ startPC' = [startPC EXCEPT ![m] = @ + 1]
  /\ UNCHANGED << currentStartPC, asked, Reached, Saved(trampolineSyncList), Served,
                  fullSyncRequired >>

Rewritten(m, v) ==
  /\ currentStartPC' = [currentStartPC EXCEPT ![m] = v]
  /\ Reached' = [Reached EXCEPT ![m] = v]
  /\ Served' = Served \cup {m}
  /\ \/ asked' = [asked EXCEPT ![m] = v]
     \/ UNCHANGED asked /\ v = startPC[m]
  /\ UNCHANGED << startPC, Saved(trampolineSyncList), fullSyncRequired >>

Postponed(m, v) ==
  /\ m \in Served
  /\ currentStartPC' \in {currentStartPC, [currentStartPC EXCEPT ![m] = v]}
  /\ \/ /\ Saved(trampolineSyncList)' = Saved(trampolineSyncList) \cup {m}
        /\ UNCHANGED fullSyncRequired
     \/ /\ UNCHANGED Saved(trampolineSyncList)
        /\ fullSyncRequired' = TRUE
  /\ asked' = [asked EXCEPT ![m] = v]
  /\ UNCHANGED << startPC, Reached, Served >>

Synchronized ==
  /\ currentStartPC' = [m \in Methods |->
       IF m \in SyncTargets THEN startPC[m] ELSE currentStartPC[m]]
  /\ Reached' = [m \in Methods |-> IF m \in SyncTargets THEN startPC[m] ELSE Reached[m]]
  /\ Saved(trampolineSyncList)' = {}
  /\ fullSyncRequired' = FALSE
  /\ UNCHANGED << startPC, asked, Served >>

\* Reached, method by method.
LEMMA ReachedType ==
    ASSUME TrampolinesTypeOK
    PROVE  /\ Reached \in [Methods -> 0 .. MaxPC]
           /\ \A m \in Methods : currentTrampoline[m] # NoSlot =>
                /\ Reached[m] = code[currentTrampoline[m]]
                /\ currentTrampoline[m] \in 0 .. Slots - 1
           /\ \A m \in Methods : currentTrampoline[m] = NoSlot => Reached[m] = 0
  BY BoundAssumption DEF TrampolinesTypeOK, Reached

\* Served methods are those with a trampoline.
LEMMA ServedHaveSlots ==
    ASSUME Inv
    PROVE  Served = {m \in Methods : currentTrampoline[m] # NoSlot}
  BY DEF Inv, TrampolinesTypeOK, EntriesInv, Served

\* A new trampoline lies below the old ones and changes none of them.
LEMMA CreateRewrites ==
    ASSUME Inv, NEW m \in Promised, NEW pc \in 1 .. MaxPC, CreatePermanent(m, pc)
    PROVE  Reached' = [Reached EXCEPT ![m] = pc]
  <1> DEFINE slot == trampolineAllocationMark - 1
  <1>1. /\ slot \in 0 .. Slots - 1
        /\ currentTrampoline' = [currentTrampoline EXCEPT ![m] = slot]
        /\ code' = [code EXCEPT ![slot] = pc]
    BY CreateEffect
  <1>2. slot # NoSlot /\ m \in Methods
    BY <1>1, SlotsAssumption DEF Promised, Inv, TrampolinesTypeOK
  <1>3. \A n \in Methods : currentTrampoline[n] # NoSlot => currentTrampoline[n] # slot
    BY SlotsAssumption DEF Inv, TrampolinesTypeOK, TrampolinesUnshared
  <1> HIDE DEF slot
  <1>4. /\ code \in [0 .. Slots - 1 -> 0 .. MaxPC]
        /\ currentTrampoline \in [Methods -> (0 .. Slots - 1) \cup {NoSlot}]
    BY DEF Inv, TrampolinesTypeOK
  <1>5. currentTrampoline'[m] = slot /\ code'[slot] = pc
    BY <1>1, <1>2, <1>4
  <1>6. ASSUME NEW n \in Methods \ {m}
        PROVE  /\ currentTrampoline'[n] = currentTrampoline[n]
               /\ currentTrampoline[n] # NoSlot =>
                    code'[currentTrampoline[n]] = code[currentTrampoline[n]]
    BY <1>1, <1>3, <1>4
  <1> QED BY <1>2, <1>5, <1>6 DEF Reached

\* replaceTrampoline in place rewrites the trampoline of one method only.
LEMMA InPlaceRewrites ==
    ASSUME Inv, NEW m \in Methods, currentTrampoline[m] # NoSlot, NEW v,
           ReplaceInPlace(m, v)
    PROVE  Reached' = [Reached EXCEPT ![m] = v]
  <1>1. /\ code' = [code EXCEPT ![currentTrampoline[m]] = v]
        /\ currentTrampoline' = currentTrampoline
    BY DEF ReplaceInPlace
  <1>2. code \in [0 .. Slots - 1 -> 0 .. MaxPC] /\ currentTrampoline[m] \in 0 .. Slots - 1
    BY DEF Inv, TrampolinesTypeOK
  <1>3. \A n \in Methods \ {m} : currentTrampoline[n] # currentTrampoline[m]
    BY DEF Inv, TrampolinesUnshared
  <1>4. code'[currentTrampoline[m]] = v
    BY <1>1, <1>2
  <1>5. ASSUME NEW n \in Methods \ {m}, currentTrampoline[n] # NoSlot
        PROVE  code'[currentTrampoline[n]] = code[currentTrampoline[n]]
    <2>1. currentTrampoline[n] \in 0 .. Slots - 1
      BY <1>5 DEF Inv, TrampolinesTypeOK
    <2> QED BY <1>1, <1>2, <1>3, <1>5, <2>1
  <1> QED BY <1>1, <1>4, <1>5 DEF Reached

\* syncTempTrampolines rewrites the trampoline of every target to its own
\* address, and no other, because no trampoline is shared.
LEMMA SyncRewrites ==
    ASSUME Inv, SyncTempTrampolines
    PROVE  Reached' = [m \in Methods |->
                         IF m \in SyncTargets THEN startPC[m] ELSE Reached[m]]
  <1> DEFINE target(s) == CHOOSE m \in SyncTargets : currentTrampoline[m] = s
             hit(s) == \E m \in SyncTargets : currentTrampoline[m] = s
  <1>1. code' = [s \in 0 .. Slots - 1 |-> IF hit(s) THEN startPC[target(s)] ELSE code[s]]
    BY DEF SyncTempTrampolines, Inv, TrampolinesTypeOK
  <1>2. currentTrampoline' = currentTrampoline
    BY DEF SyncTempTrampolines
  <1>3. SyncTargets \subseteq Methods
        /\ \A m \in SyncTargets : currentTrampoline[m] # NoSlot
    BY TargetsServed DEF Served, Inv, TrampolinesTypeOK
  <1>4. ASSUME NEW m \in Methods, currentTrampoline[m] # NoSlot
        PROVE  code'[currentTrampoline[m]] =
                 IF m \in SyncTargets THEN startPC[m] ELSE code[currentTrampoline[m]]
    <2>1. currentTrampoline[m] \in 0 .. Slots - 1
      BY <1>4 DEF Inv, TrampolinesTypeOK
    <2>2. \A n \in Methods : currentTrampoline[n] = currentTrampoline[m] => n = m
      BY <1>4 DEF Inv, TrampolinesUnshared
    <2>3. CASE m \in SyncTargets
      <3>1. hit(currentTrampoline[m])
        BY <2>3
      <3>2. /\ target(currentTrampoline[m]) \in SyncTargets
            /\ currentTrampoline[target(currentTrampoline[m])] = currentTrampoline[m]
        BY <2>3
      <3>3. target(currentTrampoline[m]) = m
        BY <1>3, <2>2, <3>2
      <3> HIDE DEF target, hit
      <3> QED BY <1>1, <2>1, <2>3, <3>1, <3>3
    <2>4. CASE m \notin SyncTargets
      <3>1. ~hit(currentTrampoline[m])
        BY <1>3, <2>2, <2>4
      <3> HIDE DEF target, hit
      <3> QED BY <1>1, <2>1, <2>4, <3>1
    <2> QED BY <2>3, <2>4
  <1>5. \A m \in Methods : currentTrampoline[m] = NoSlot => m \notin SyncTargets
    BY <1>3
  <1> QED BY <1>2, <1>4, <1>5 DEF Reached

\* Every step is of one of the five kinds or changes no target.
LEMMA StepKinds ==
    ASSUME Inv, [TrampolinesNext]_trampolineVars
    PROVE  \/ UNCHANGED visible
           \/ \E m \in Methods : Recompiled(m)
           \/ \E m \in Methods : \E v \in 1 .. startPC[m] : Rewritten(m, v) \/ Postponed(m, v)
           \/ Synchronized
  <1>1. ASSUME UNCHANGED << startPC, asked, code, resolvedMethods, currentTrampoline,
                            currentStartPC, trampolineSyncList, fullSyncRequired >>
        PROVE  UNCHANGED visible
    BY <1>1 DEF visible, Reached, Served
  <1>2. ASSUME NEW m \in Methods \ resolvedMethods, AddResolvedMethod(m),
               UNCHANGED << startPC, asked, code, trampolineSyncList, fullSyncRequired >>
        PROVE  UNCHANGED visible
    <2>1. UNCHANGED << currentTrampoline, currentStartPC, Served >>
      BY <1>2, AddEffect
    <2> QED BY <1>2, <2>1 DEF visible, Reached
  <1>3. ASSUME NEW t \in Threads, ReserveResolved(t) PROVE UNCHANGED visible
    <2>1. work[t] \in Methods \ resolvedMethods
      BY <1>3 DEF ReserveResolved, Inv, TrampolinesTypeOK, WorkInv
    <2>2. UNCHANGED << startPC, asked, code, trampolineSyncList, fullSyncRequired >>
      BY <1>3 DEF ReserveResolved, syncs, environment
    <2>3. CASE AddResolvedMethod(work[t])
      BY <1>2, <2>1, <2>2, <2>3
    <2>4. CASE UNCHANGED << slabRoom, entries >>
      BY <1>1, <2>2, <2>4 DEF entries
    <2> QED BY <1>3, <2>3, <2>4 DEF ReserveResolved, NoHashEntry
  <1>4. ASSUME NEW m \in Methods, FindOrAddResolvedMethod(m) PROVE UNCHANGED visible
    <2>1. /\ m \notin resolvedMethods
          /\ UNCHANGED << startPC, asked, code, trampolineSyncList, fullSyncRequired >>
      BY <1>4 DEF FindOrAddResolvedMethod, syncs
    <2>2. CASE AddResolvedMethod(m)
      BY <1>2, <2>1, <2>2
    <2>3. CASE NoHashEntry
      BY <1>1, <2>1, <2>3 DEF NoHashEntry, entries
    <2> QED BY <1>4, <2>2, <2>3 DEF FindOrAddResolvedMethod
  <1>5. ASSUME NEW t \in Threads, NEW m \in Methods, BeginReserveResolved(t, m)
        PROVE  UNCHANGED visible
    BY <1>1, <1>5 DEF BeginReserveResolved, entries, syncs, environment
  <1>6. ASSUME NEW n \in 1 .. MaxDirect, ReserveSpaceForTrampoline(n) PROVE UNCHANGED visible
    BY <1>1, <1>6 DEF ReserveSpaceForTrampoline, entries, syncs
  <1>7. CASE UnreserveSpaceForTrampoline
    BY <1>1, <1>7 DEF UnreserveSpaceForTrampoline, entries, syncs
  <1>8. ASSUME NEW m \in Methods, Recompile(m) PROVE Recompiled(m)
    BY <1>8 DEF Recompile, Recompiled, Reached, Served, entries, syncs
  <1>9. ASSUME NEW m \in Promised, NEW pc \in 1 .. MaxPC, CreatePermanent(m, pc),
               UNCHANGED << startPC, syncs >>,
               asked' = [asked EXCEPT ![m] = pc] \/ (UNCHANGED asked /\ pc = startPC[m])
        PROVE  Rewritten(m, pc)
    <2>1. Reached' = [Reached EXCEPT ![m] = pc]
      BY <1>9, CreateRewrites
    <2>2. Served' = Served \cup {m} /\ currentStartPC' = [currentStartPC EXCEPT ![m] = pc]
      BY <1>9, CreateEffect
    <2> QED BY <1>9, <2>1, <2>2 DEF Rewritten, syncs
  <1>10. ASSUME NEW m \in Methods, FindTrampoline(m)
         PROVE  startPC[m] \in 1 .. startPC[m] /\ Rewritten(m, startPC[m])
    <2>1. m \in Promised /\ startPC[m] \in 1 .. MaxPC
      BY <1>10 DEF FindTrampoline, Promised, Inv, TrampolinesTypeOK
    <2> QED BY <1>9, <1>10, <2>1 DEF FindTrampoline, environment
  <1>11. ASSUME NEW m \in Methods, NEW v \in 1 .. startPC[m], PatchCallPoint(m, v)
         PROVE  Rewritten(m, v) \/ Postponed(m, v)
    <2>1. /\ m \in resolvedMethods /\ asked' = [asked EXCEPT ![m] = v] /\ UNCHANGED startPC
          /\ v \in 1 .. MaxPC
      BY <1>11, BoundAssumption DEF PatchCallPoint, Inv, TrampolinesTypeOK
    <2>2. CASE currentTrampoline[m] = NoSlot /\ ReplaceNone(m, v)
      <3>1. m \in Promised
        BY <2>1, <2>2 DEF Promised
      <3> QED BY <1>9, <2>1, <2>2, <3>1 DEF ReplaceNone
    <2>3. CASE currentTrampoline[m] # NoSlot /\ ReplaceInPlace(m, v)
      <3>1. Reached' = [Reached EXCEPT ![m] = v]
        BY <2>3, InPlaceRewrites
      <3>2. Served' = Served \cup {m}
        BY <2>1, <2>3 DEF ReplaceInPlace, Served
      <3> QED BY <2>1, <2>3, <3>1, <3>2 DEF ReplaceInPlace, Rewritten, syncs
    <2>4. CASE currentTrampoline[m] # NoSlot /\ ReplaceSync(m, v)
      <3>1. m \in Served
        BY <2>1, <2>4 DEF Served
      <3>2. \/ /\ Saved(trampolineSyncList)' = Saved(trampolineSyncList) \cup {m}
               /\ fullSyncRequired' = fullSyncRequired
            \/ /\ Saved(trampolineSyncList)' = Saved(trampolineSyncList)
               /\ fullSyncRequired' = TRUE
        BY <2>4, <3>1, SaveEffect DEF ReplaceSync, Inv
      <3>3. UNCHANGED << code, resolvedMethods, currentTrampoline >>
        BY <2>4 DEF ReplaceSync
      <3>4. currentStartPC' \in {currentStartPC, [currentStartPC EXCEPT ![m] = v]}
        BY <2>4 DEF ReplaceSync
      <3>5. UNCHANGED << Reached, Served >>
        BY <3>3 DEF Reached, Served
      <3> QED BY <2>1, <3>1, <3>2, <3>4, <3>5 DEF Postponed
    <2> QED BY <1>11, <2>2, <2>3, <2>4 DEF PatchCallPoint
  <1>12. ASSUME SyncTempTrampolines PROVE Synchronized
    <2>1. Reached' = [m \in Methods |->
                        IF m \in SyncTargets THEN startPC[m] ELSE Reached[m]]
      BY <1>12, SyncRewrites
    <2>2. Saved(trampolineSyncList') = {}
      <3>1. Blocks(trampolineSyncList)
        BY DEF Inv, TrampolinesTypeOK, Blocks
      <3> QED BY <1>12, <3>1, EmptiedBlocks DEF SyncTempTrampolines
    <2>3. /\ UNCHANGED << startPC, asked, resolvedMethods, currentTrampoline >>
          /\ fullSyncRequired' = FALSE
          /\ currentStartPC' = [m \in Methods |->
               IF m \in SyncTargets THEN startPC[m] ELSE currentStartPC[m]]
      BY <1>12 DEF SyncTempTrampolines, environment
    <2>4. UNCHANGED Served
      BY <2>3 DEF Served
    <2> QED BY <2>1, <2>2, <2>3, <2>4 DEF Synchronized
  <1>13. CASE UNCHANGED trampolineVars
    BY <1>1, <1>13 DEF trampolineVars, entries, syncs, environment
  <1> QED BY <1>3, <1>4, <1>5, <1>6, <1>7, <1>8, <1>10, <1>11, <1>12, <1>13 DEF TrampolinesNext

\* Types of what the steps change.
LEMMA TargetTypes ==
    ASSUME Inv
    PROVE  /\ startPC \in [Methods -> 1 .. MaxPC] /\ asked \in [Methods -> 0 .. MaxPC]
           /\ Reached \in [Methods -> 0 .. MaxPC] /\ Served \subseteq Methods
           /\ Saved(trampolineSyncList) \subseteq Served
           /\ SyncTargets \subseteq Served
           /\ fullSyncRequired \in BOOLEAN
           /\ MaxPC \in Nat
  BY ReachedType, TargetsServed, BoundAssumption DEF Inv, TrampolinesTypeOK, Served, SavedServed

\* What a rewritten trampoline was asked for is what it jumps to, or less.
LEMMA RewrittenReaches ==
    ASSUME Inv, AddressesInv, NEW m \in Methods, NEW v \in 1 .. startPC[m], Rewritten(m, v)
    PROVE  /\ Reached'[m] = v /\ v \in Nat /\ v >= 1 /\ v =< startPC[m]
           /\ asked'[m] =< v
           /\ \A n \in Methods \ {m} : Reached'[n] = Reached[n] /\ asked'[n] = asked[n]
  <1>1. v \in Nat /\ v >= 1 /\ v =< startPC[m]
    BY TargetTypes
  <1>2. Reached'[m] = v /\ \A n \in Methods \ {m} : Reached'[n] = Reached[n]
    BY TargetTypes DEF Rewritten
  <1>3. CASE asked' = [asked EXCEPT ![m] = v]
    BY <1>1, <1>2, <1>3, TargetTypes
  <1>4. CASE UNCHANGED asked /\ v = startPC[m]
    BY <1>1, <1>2, <1>4 DEF AddressesInv
  <1> QED BY <1>3, <1>4 DEF Rewritten

\* Every step keeps the addresses in order.
LEMMA AddressesKept ==
    ASSUME Inv, Inv', AddressesInv, [TrampolinesNext]_trampolineVars
    PROVE  AddressesInv'
  <1>1. /\ \A m \in Methods : asked[m] =< startPC[m]
        /\ \A m \in Served : Reached[m] >= 1
    BY DEF AddressesInv
  <1>2. CASE UNCHANGED visible
    BY <1>2 DEF AddressesInv, visible
  <1>3. ASSUME NEW m \in Methods, Recompiled(m) PROVE AddressesInv'
    <2>1. \A n \in Methods : asked[n] =< startPC'[n]
      BY <1>1, <1>3, TargetTypes DEF Recompiled
    <2> QED BY <1>1, <1>3, <2>1 DEF Recompiled, AddressesInv
  <1>4. ASSUME NEW m \in Methods, NEW v \in 1 .. startPC[m], Rewritten(m, v)
        PROVE  AddressesInv'
    <2>1. Served' = Served \cup {m} /\ startPC' = startPC
      BY <1>4 DEF Rewritten
    <2>2. asked' \in [Methods -> 0 .. MaxPC]
      BY DEF Inv, TrampolinesTypeOK
    <2>3. \A n \in Methods : asked'[n] =< startPC'[n]
      BY <1>1, <1>4, <2>1, <2>2, TargetTypes, RewrittenReaches
    <2>4. \A n \in Served' : Reached'[n] >= 1
      BY <1>1, <1>4, <2>1, TargetTypes, RewrittenReaches
    <2> QED BY <2>3, <2>4 DEF AddressesInv
  <1>5. ASSUME NEW m \in Methods, NEW v \in 1 .. startPC[m], Postponed(m, v)
        PROVE  AddressesInv'
    <2>1. \A n \in Methods : asked'[n] =< startPC[n]
      BY <1>1, <1>5, TargetTypes DEF Postponed
    <2> QED BY <1>1, <1>5, <2>1 DEF Postponed, AddressesInv
  <1>6. CASE Synchronized
    <2>1. \A m \in Served : Reached'[m] >= 1
      BY <1>1, <1>6, TargetTypes DEF Synchronized
    <2> QED BY <1>1, <1>6, <2>1 DEF Synchronized, AddressesInv
  <1> QED BY <1>2, <1>3, <1>4, <1>5, <1>6, StepKinds

\* Initially no method has a trampoline and nothing is asked for.
LEMMA InitAddresses == TrampolinesInit => AddressesInv
  <1> SUFFICES ASSUME TrampolinesInit PROVE AddressesInv
    OBVIOUS
  <1>1. Served = {}
    BY DEF TrampolinesInit, Served
  <1>2. \A m \in Methods : asked[m] =< startPC[m]
    BY DEF TrampolinesInit
  <1> QED BY <1>1, <1>2 DEF AddressesInv

\* Both invariants together.
LEMMA AddressesAlways == TrampolinesSpec => [](Inv /\ AddressesInv)
  <1>1. Inv /\ AddressesInv /\ [TrampolinesNext]_trampolineVars => (Inv /\ AddressesInv)'
    BY NextKeeps, AddressesKept
  <1> QED BY InitInv, InitAddresses, <1>1, PTL DEF TrampolinesSpec

\* Kept, in terms of the targets of calls.
LEMMA KeptMeans ==
    ASSUME Inv, NEW m \in Methods
    PROVE  currentTrampoline[m] # NoSlot =>
             /\ m \in Served
             /\ Kept(m) <=> \/ Reached[m] >= asked[m]
                            \/ m \in Saved(trampolineSyncList)
                            \/ fullSyncRequired
  BY ServedHaveSlots, ReachedType DEF Inv, Kept

\* A step that leaves a method's request lost found it lost and asked for
\* nothing new, or is a full synchronization that found its entry current.
LEMMA StepsKeep ==
    ASSUME Inv, Inv', AddressesInv, [TrampolinesNext]_trampolineVars, NEW m \in Methods,
           m \in Served', ~(Reached'[m] >= asked'[m]),
           m \notin Saved(trampolineSyncList)', ~fullSyncRequired'
    PROVE  \/ /\ m \in Served /\ ~(Reached[m] >= asked[m]) /\ asked'[m] = asked[m]
              /\ m \notin Saved(trampolineSyncList) /\ ~fullSyncRequired
           \/ fullSyncRequired /\ currentStartPC[m] = startPC[m]
  <1>1. CASE UNCHANGED visible
    BY <1>1 DEF visible
  <1>2. ASSUME NEW n \in Methods, Recompiled(n)
        PROVE  /\ m \in Served /\ ~(Reached[m] >= asked[m]) /\ asked'[m] = asked[m]
               /\ m \notin Saved(trampolineSyncList) /\ ~fullSyncRequired
    BY <1>2 DEF Recompiled
  <1>3. ASSUME NEW n \in Methods, NEW v \in 1 .. startPC[n], Rewritten(n, v)
        PROVE  /\ m \in Served /\ ~(Reached[m] >= asked[m]) /\ asked'[m] = asked[m]
               /\ m \notin Saved(trampolineSyncList) /\ ~fullSyncRequired
    <2>1. m # n
      <3>1. asked'[n] \in Nat
        BY TargetTypes DEF Inv, TrampolinesTypeOK
      <3> QED BY <1>3, <3>1, RewrittenReaches
    <2>2. Reached'[m] = Reached[m] /\ asked'[m] = asked[m]
      BY <1>3, <2>1, RewrittenReaches
    <2> QED BY <1>3, <2>1, <2>2 DEF Rewritten
  <1>4. ASSUME NEW n \in Methods, NEW v \in 1 .. startPC[n], Postponed(n, v)
        PROVE  /\ m \in Served /\ ~(Reached[m] >= asked[m]) /\ asked'[m] = asked[m]
               /\ m \notin Saved(trampolineSyncList) /\ ~fullSyncRequired
    <2>1. m # n
      BY <1>4 DEF Postponed
    <2> QED BY <1>4, <2>1, TargetTypes DEF Postponed
  <1>5. ASSUME Synchronized
        PROVE  \/ /\ m \in Served /\ ~(Reached[m] >= asked[m]) /\ asked'[m] = asked[m]
                  /\ m \notin Saved(trampolineSyncList) /\ ~fullSyncRequired
               \/ fullSyncRequired /\ currentStartPC[m] = startPC[m]
    <2>1. m \in Served /\ asked'[m] = asked[m]
      BY <1>5 DEF Synchronized
    <2>2. m \notin SyncTargets
      BY <1>5, TargetTypes DEF Synchronized, AddressesInv
    <2>3. Reached'[m] = Reached[m]
      BY <1>5, <2>2 DEF Synchronized
    <2>4. CASE fullSyncRequired
      BY <2>1, <2>2, <2>4 DEF SyncTargets, Served
    <2>5. CASE ~fullSyncRequired
      BY <2>1, <2>2, <2>3, <2>5 DEF SyncTargets
    <2> QED BY <2>4, <2>5
  <1> QED BY <1>1, <1>2, <1>3, <1>4, <1>5, StepKinds

\* Whatever memory runs out, no replacement request is lost but by a full
\* syncTempTrampolines that finds the method's entry current: the permanent
\* trampoline jumps to the address asked for last or to a later one, or the
\* method is saved, or a full synchronization is due.
THEOREM ReplacementsAlwaysKept == TrampolinesSpec => ReplacementsKept
  <1>1. ASSUME Inv, Inv', AddressesInv, [TrampolinesNext]_trampolineVars, NEW m \in Methods,
               currentTrampoline'[m] # NoSlot, ~Kept(m)'
        PROVE  \/ currentTrampoline[m] # NoSlot /\ ~Kept(m) /\ asked'[m] = asked[m]
               \/ fullSyncRequired /\ currentStartPC[m] = startPC[m]
    <2>1. /\ m \in Served' /\ ~(Reached'[m] >= asked'[m])
          /\ m \notin Saved(trampolineSyncList)' /\ ~fullSyncRequired'
      <3>1. Reached'[m] = code'[currentTrampoline'[m]]
        BY <1>1 DEF Reached
      <3>2. m \in Served'
        BY <1>1 DEF Inv, TrampolinesTypeOK, EntriesInv, Served
      <3> QED BY <1>1, <3>1, <3>2 DEF Kept
    <2>2. CASE /\ m \in Served /\ ~(Reached[m] >= asked[m]) /\ asked'[m] = asked[m]
               /\ m \notin Saved(trampolineSyncList) /\ ~fullSyncRequired
      <3>1. currentTrampoline[m] # NoSlot
        BY <2>2 DEF Served
      <3> QED BY <1>1, <2>2, <3>1, KeptMeans
    <2> QED BY <1>1, <2>1, <2>2, StepsKeep
  <1>2. Inv /\ Inv' /\ AddressesInv /\ [TrampolinesNext]_trampolineVars =>
          [\A m \in Methods :
             currentTrampoline'[m] # NoSlot /\ ~Kept(m)' =>
               \/ currentTrampoline[m] # NoSlot /\ ~Kept(m) /\ asked'[m] = asked[m]
               \/ fullSyncRequired /\ currentStartPC[m] = startPC[m]]_trampolineVars
    BY <1>1
  <1> QED BY <1>2, AddressesAlways, PTL DEF TrampolinesSpec, ReplacementsKept

\* The initial state of the cache is one of the targets of calls.
LEMMA TargetsInit == TrampolinesInit => Targets!Init
  <1> SUFFICES ASSUME TrampolinesInit PROVE Targets!Init
    OBVIOUS
  <1>1. Saved(trampolineSyncList) = {}
    <2>1. Inv
      BY InitInv
    <2>2. Served = {}
      BY DEF TrampolinesInit, Served
    <2>3. Saved(trampolineSyncList) \subseteq Served
      BY <2>1 DEF Inv, SavedServed
    <2> QED BY <2>2, <2>3
  <1> QED BY <1>1 DEF TrampolinesInit, Targets!Init

\* A synchronization rewrites the methods that the targets call behind.
LEMMA BehindTargets ==
    ASSUME Inv, AddressesInv
    PROVE  Targets!Behind = SyncTargets
  <1>1. \A m \in Methods : m \in Served <=> Reached[m] # 0
    <2>1. \A m \in Served : Reached[m] >= 1 /\ Reached[m] \in Nat
      BY TargetTypes DEF AddressesInv
    <2>2. \A m \in Methods : m \notin Served => Reached[m] = 0
      BY ServedHaveSlots, ReachedType DEF Inv
    <2> QED BY <2>1, <2>2
  <1>2. CASE fullSyncRequired
    <2>1. Targets!Behind = {m \in Methods : Reached[m] # 0 /\ currentStartPC[m] # startPC[m]}
      BY <1>2 DEF Targets!Behind, Reached
    <2>2. SyncTargets = {m \in Served : currentStartPC[m] # startPC[m]}
      BY <1>2 DEF SyncTargets, Served
    <2> QED BY <1>1, <2>1, <2>2, TargetTypes
  <1>3. CASE ~fullSyncRequired
    BY <1>3 DEF SyncTargets, Targets!Behind
  <1> QED BY <1>2, <1>3

\* Every step of the cache is a step of the targets of calls, or none.
LEMMA TargetsNext ==
    ASSUME Inv, AddressesInv, [TrampolinesNext]_trampolineVars
    PROVE  [Targets!Next]_(Targets!vars)
  <1>1. CASE UNCHANGED visible
    BY <1>1 DEF visible, Reached, Targets!vars
  <1>2. ASSUME NEW m \in Methods, Recompiled(m) PROVE Targets!Compile(m)
    BY <1>2 DEF Recompiled, Reached, Targets!Compile
  <1>3. ASSUME NEW m \in Methods, NEW v \in 1 .. startPC[m], Rewritten(m, v)
        PROVE  Targets!Rewrite(m, v)
    BY <1>3 DEF Rewritten, Reached, Targets!Rewrite
  <1>4. ASSUME NEW m \in Methods, NEW v \in 1 .. startPC[m], Postponed(m, v)
        PROVE  Targets!Postpone(m, v)
    <2>1. Reached[m] # 0
      <3>1. Reached[m] >= 1
        BY <1>4 DEF Postponed, AddressesInv
      <3> QED BY <3>1
    <2> QED BY <1>4, <2>1 DEF Postponed, Reached, Targets!Postpone
  <1>5. ASSUME Synchronized PROVE Targets!SafePoint
    BY <1>5, BehindTargets DEF Synchronized, Reached, Targets!SafePoint
  <1> QED BY <1>1, <1>2, <1>3, <1>4, <1>5, StepKinds DEF Targets!Next

\* The marks, hash entries, blocks, temporary trampolines and the flag for a
\* full synchronization implement the targets of calls: a trampoline is
\* rewritten only where nobody can be executing it, a postponed request is
\* noted, and a safe point brings every listed method, or without a complete
\* list every method recorded with an old address, to its current address.
THEOREM TrampolinesImplementTargets == TrampolinesSpec => ImplementsTargets
  <1>1. Inv /\ AddressesInv /\ [TrampolinesNext]_trampolineVars => [Targets!Next]_(Targets!vars)
    BY TargetsNext
  <1> QED BY <1>1, TargetsInit, AddressesAlways, PTL
          DEF TrampolinesSpec, ImplementsTargets, Targets!Spec
=============================================================================
