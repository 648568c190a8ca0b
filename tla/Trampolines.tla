---------------------------- MODULE Trampolines -----------------------------
(***************************************************************************)
(* The method trampolines of one code cache (OMRCodeCache.cpp).  Permanent *)
(* trampolines are reserved by lowering one mark and created later by      *)
(* lowering a second one that follows it.  When a method gets a new start  *)
(* address while its permanent trampoline may be executing, a temporary    *)
(* trampoline serves the calls until a safe point, where the permanent     *)
(* ones that were saved in the synchronization blocks are rewritten.       *)
(*                                                                         *)
(* Addresses are counted in trampolines from _trampolineBase = 0; the      *)
(* temporary ones lie above the permanent ones.  An operation is one step  *)
(* under the cache's monitor, except for reserveResolvedTrampoline, which  *)
(* enters the monitor a second time while it holds it.                     *)
(***************************************************************************)
EXTENDS Integers, Sequences, FiniteSets

CONSTANTS
  Threads,
  NoThread,
  Methods,
  NoMethod,
  Slots,              \* permanent trampolines the cache has room for
  TempSlots,          \* _tempTrampolinesMax
  NoSlot,             \* the null pointer
  SyncArraySize,      \* codeCacheTempTrampolineSyncArraySize
  SlabEntries,        \* hash entries in a slab
  MayFail,            \* which of "slab" and "block" getMemory may refuse
  RecursiveMonitors,  \* the owner of a monitor may enter it again
  MaxPC,              \* bound: start addresses of a method
  MaxDirect           \* bound: reservations made without a method

ASSUME SlotsAssumption == Slots \in Nat /\ NoSlot \notin 0 .. Slots
ASSUME TempAssumption == TempSlots \in Nat \ {0} /\ SyncArraySize \in Nat \ {0}
ASSUME SlabAssumption == SlabEntries \in Nat \ {0}
ASSUME MethodsAssumption == IsFiniteSet(Methods) /\ NoMethod \notin Methods
ASSUME FailAssumption == MayFail \subseteq {"slab", "block"}
ASSUME MonitorAssumption == RecursiveMonitors \in BOOLEAN /\ NoThread \notin Threads
ASSUME BoundAssumption == MaxPC \in Nat \ {0} /\ MaxDirect \in Nat

VARIABLES
  monitor,                    \* owner of the cache's monitor between steps
  work,                       \* the method a thread reserves a trampoline for
  trampolineReservationMark,
  trampolineAllocationMark,
  tempTrampolineNext,
  resolvedMethods,            \* methods with an entry in _resolvedMethodHT
  currentTrampoline,          \* of the entry of a method
  currentStartPC,             \* of the entry of a method, 0 for NULL
  code,                       \* the address a permanent trampoline jumps to
  trampolineSyncList,         \* the blocks, head first, with the saved methods
  fullSyncRequired,           \* CODECACHE_FULL_SYNC_REQUIRED
  almostFull,
  slabRoom,                   \* hash entries left in the first slab
  startPC,                    \* mtd.startPC(method): later ones are larger
  direct,                     \* reservations whose method has no entry yet
  asked                       \* last address replaceTrampoline was given

marks == << trampolineReservationMark, trampolineAllocationMark >>
entries == << resolvedMethods, currentTrampoline, currentStartPC >>
syncs == << tempTrampolineNext, trampolineSyncList, fullSyncRequired >>
environment == << startPC, direct, asked >>
trampolineVars == << monitor, work, marks, entries, syncs, code, almostFull, slabRoom,
           environment >>

TempTrampolineBase == Slots
TempTrampolineTop == Slots + TempSlots

Elements(s) == {s[i] : i \in 1 .. Len(s)}

\* The methods saved in the blocks of a list.
Saved(list) == UNION {Elements(list[i]) : i \in 1 .. Len(list)}

-----------------------------------------------------------------------------
\* Reservation

\* Does reserveSpaceForTrampoline find room for n trampolines?
RoomFor(n) == trampolineReservationMark >= n

\* reserveSpaceForTrampoline, without the monitor.
ReserveSpace(n) ==
  /\ trampolineReservationMark' =
       IF RoomFor(n) THEN trampolineReservationMark - n ELSE trampolineReservationMark
  /\ almostFull' = (almostFull \/ ~RoomFor(n))
  /\ UNCHANGED trampolineAllocationMark

\* reserveSpaceForTrampoline, called for a method that is not resolved yet.
ReserveSpaceForTrampoline(n) ==
  /\ monitor = NoThread
  /\ direct + n =< MaxDirect
  /\ ReserveSpace(n)
  /\ direct' = IF RoomFor(n) THEN direct + n ELSE direct
  /\ UNCHANGED << monitor, work, entries, syncs, code, slabRoom, startPC, asked >>

\* unreserveSpaceForTrampoline: the caller gives its own reservation back.
UnreserveSpaceForTrampoline ==
  /\ direct > 0
  /\ trampolineReservationMark' = trampolineReservationMark + 1
  /\ direct' = direct - 1
  /\ UNCHANGED << monitor, work, trampolineAllocationMark, entries, syncs, code,
                  almostFull, slabRoom, startPC, asked >>

\* allocateHashEntry: from the first slab, or from a new one.
AllocateHashEntry ==
  IF slabRoom > 0 THEN slabRoom' = slabRoom - 1 ELSE slabRoom' = SlabEntries - 1

NoHashEntry == /\ slabRoom = 0
               /\ "slab" \in MayFail
               /\ UNCHANGED << slabRoom, entries >>

\* addResolvedMethod.
AddResolvedMethod(m) ==
  /\ AllocateHashEntry
  /\ resolvedMethods' = resolvedMethods \cup {m}
  /\ currentStartPC' = [currentStartPC EXCEPT ![m] = 0]
  /\ currentTrampoline' = [currentTrampoline EXCEPT ![m] = NoSlot]

\* findOrAddResolvedMethod, by a caller that has reserved the space.
FindOrAddResolvedMethod(m) ==
  /\ monitor = NoThread
  /\ direct > 0
  /\ m \notin resolvedMethods
  /\ \/ AddResolvedMethod(m) /\ direct' = direct - 1
     \/ NoHashEntry /\ UNCHANGED direct
  /\ UNCHANGED << monitor, work, marks, syncs, code, almostFull, startPC, asked >>

\* reserveResolvedTrampoline up to the call of reserveSpaceForTrampoline.
\* Nothing happens if the method has an entry.
BeginReserveResolved(t, m) ==
  /\ monitor = NoThread
  /\ m \notin resolvedMethods
  /\ monitor' = t
  /\ work' = [work EXCEPT ![t] = m]
  /\ UNCHANGED << marks, entries, syncs, code, almostFull, slabRoom, environment >>

\* May a thread enter the monitor that t has entered?
MayEnter(t) == monitor = NoThread \/ (monitor = t /\ RecursiveMonitors)

Leave(t) == /\ monitor' = NoThread
            /\ work' = [work EXCEPT ![t] = NoMethod]

\* Mutant: the method gets its entry although no space was reserved.
ReserveResolvedUnchecked(t) ==
  /\ work[t] # NoMethod
  /\ MayEnter(t)
  /\ ReserveSpace(1)
  /\ AddResolvedMethod(work[t]) \/ NoHashEntry
  /\ Leave(t)
  /\ UNCHANGED << syncs, code, environment >>

\* Mutant: without space the thread tries again, inside of the monitor.
ReserveResolvedKeepsMonitor(t) ==
  /\ work[t] # NoMethod
  /\ MayEnter(t)
  /\ IF RoomFor(1)
     THEN /\ ReserveSpace(1)
          /\ AddResolvedMethod(work[t]) \/ NoHashEntry
          /\ Leave(t)
          /\ UNCHANGED << syncs, code, environment >>
     ELSE UNCHANGED trampolineVars

\* The rest of reserveResolvedTrampoline.
ReserveResolved(t) ==
  /\ work[t] # NoMethod
  /\ MayEnter(t)
  /\ ReserveSpace(1)
  /\ IF RoomFor(1)
     THEN AddResolvedMethod(work[t]) \/ NoHashEntry
     ELSE UNCHANGED << slabRoom, entries >>
  /\ Leave(t)
  /\ UNCHANGED << syncs, code, environment >>

-----------------------------------------------------------------------------
\* Creation and replacement

\* Mutant: the mark is not lowered.
AllocateTrampolineKeepsMark ==
  IF trampolineAllocationMark > trampolineReservationMark
  THEN [slot |-> trampolineAllocationMark - 1, mark |-> trampolineAllocationMark]
  ELSE [slot |-> NoSlot, mark |-> trampolineAllocationMark]

\* allocateTrampoline: the trampoline and the new mark.
AllocateTrampoline ==
  IF trampolineAllocationMark > trampolineReservationMark
  THEN [slot |-> trampolineAllocationMark - 1, mark |-> trampolineAllocationMark - 1]
  ELSE [slot |-> NoSlot, mark |-> trampolineAllocationMark]

\* A new permanent trampoline for m that jumps to pc.
CreatePermanent(m, pc) ==
  LET a == AllocateTrampoline
  IN  /\ trampolineAllocationMark' = a.mark
      /\ currentTrampoline' = [currentTrampoline EXCEPT ![m] = a.slot]
      /\ currentStartPC' = [currentStartPC EXCEPT ![m] = pc]
      /\ code' = [code EXCEPT ![a.slot] = pc]
      /\ UNCHANGED << trampolineReservationMark, resolvedMethods >>

\* findTrampoline(method).
FindTrampoline(m) ==
  /\ monitor = NoThread
  /\ m \in resolvedMethods
  /\ currentTrampoline[m] = NoSlot
  /\ CreatePermanent(m, startPC[m])
  /\ UNCHANGED << monitor, work, syncs, almostFull, slabRoom, environment >>

\* Is the method in one of the blocks?
HasSaved(list, m) == m \in Saved(list)

\* The first block with room for one more, or none.
FreeBlocks(list) == {i \in 1 .. Len(list) : Len(list[i]) < SyncArraySize}
FirstFree(list) ==
  CHOOSE i \in FreeBlocks(list) : \A j \in FreeBlocks(list) : i =< j

\* saveTempTrampoline(entry).
SaveTempTrampoline(m) ==
  \/ /\ HasSaved(trampolineSyncList, m)
     /\ UNCHANGED << trampolineSyncList, fullSyncRequired >>
  \/ /\ ~HasSaved(trampolineSyncList, m)
     /\ FreeBlocks(trampolineSyncList) # {}
     /\ trampolineSyncList' =
          [trampolineSyncList EXCEPT ![FirstFree(trampolineSyncList)] = Append(@, m)]
     /\ UNCHANGED fullSyncRequired
  \/ /\ ~HasSaved(trampolineSyncList, m)
     /\ FreeBlocks(trampolineSyncList) = {}
     /\ trampolineSyncList' = << << m >> >> \o trampolineSyncList
     /\ UNCHANGED fullSyncRequired
  \/ /\ ~HasSaved(trampolineSyncList, m)
     /\ FreeBlocks(trampolineSyncList) = {}
     /\ "block" \in MayFail
     /\ fullSyncRequired' = TRUE
     /\ UNCHANGED trampolineSyncList

\* Mutant: a request that found no temporary trampoline is not saved.
ReplaceSavesOnlyServed(m, v) ==
  /\ IF tempTrampolineNext < TempTrampolineTop
     THEN /\ SaveTempTrampoline(m)
          /\ tempTrampolineNext' = tempTrampolineNext + 1
          /\ currentStartPC' = [currentStartPC EXCEPT ![m] = v]
     ELSE UNCHANGED << syncs, currentStartPC >>
  /\ UNCHANGED << marks, resolvedMethods, currentTrampoline, code >>

\* replaceTrampoline of a trampoline that may be executing.
ReplaceSync(m, v) ==
  /\ SaveTempTrampoline(m)
  /\ IF tempTrampolineNext < TempTrampolineTop
     THEN /\ tempTrampolineNext' = tempTrampolineNext + 1
          /\ currentStartPC' = [currentStartPC EXCEPT ![m] = v]
     ELSE UNCHANGED << tempTrampolineNext, currentStartPC >>
  /\ UNCHANGED << marks, resolvedMethods, currentTrampoline, code >>

\* replaceTrampoline of one that the caller rewrites in place.
ReplaceInPlace(m, v) ==
  /\ currentStartPC' = [currentStartPC EXCEPT ![m] = v]
  /\ code' = [code EXCEPT ![currentTrampoline[m]] = v]
  /\ UNCHANGED << marks, resolvedMethods, currentTrampoline, syncs >>

\* replaceTrampoline without an old trampoline.
ReplaceNone(m, v) == CreatePermanent(m, v) /\ UNCHANGED syncs

\* patchCallPoint, with a callback that asks for a trampoline.
PatchCallPoint(m, v) ==
  /\ monitor = NoThread
  /\ m \in resolvedMethods
  /\ asked' = [asked EXCEPT ![m] = v]
  /\ IF currentTrampoline[m] = NoSlot
     THEN ReplaceNone(m, v)
     ELSE ReplaceInPlace(m, v) \/ ReplaceSync(m, v)
  /\ UNCHANGED << monitor, work, almostFull, slabRoom, startPC, direct >>

-----------------------------------------------------------------------------
\* Synchronization

\* Mutant: only the first block is synchronized.
SyncTargetsFirstBlock ==
  IF fullSyncRequired
  THEN {m \in resolvedMethods : /\ currentTrampoline[m] # NoSlot
                                /\ currentStartPC[m] # startPC[m]}
  ELSE IF trampolineSyncList = << >> THEN {} ELSE Elements(Head(trampolineSyncList))

\* The methods whose permanent trampolines syncTempTrampolines rewrites.
SyncTargets ==
  IF fullSyncRequired
  THEN {m \in resolvedMethods : /\ currentTrampoline[m] # NoSlot
                                /\ currentStartPC[m] # startPC[m]}
  ELSE Saved(trampolineSyncList)

\* syncTempTrampolines, at a safe point.
SyncTempTrampolines ==
  /\ monitor = NoThread
  /\ code' = [s \in DOMAIN code |->
       IF \E m \in SyncTargets : currentTrampoline[m] = s
       THEN startPC[CHOOSE m \in SyncTargets : currentTrampoline[m] = s]
       ELSE code[s]]
  /\ currentStartPC' = [m \in Methods |->
       IF m \in SyncTargets THEN startPC[m] ELSE currentStartPC[m]]
  /\ trampolineSyncList' = [i \in 1 .. Len(trampolineSyncList) |-> << >>]
  /\ fullSyncRequired' = FALSE
  /\ tempTrampolineNext' = TempTrampolineBase
  /\ UNCHANGED << monitor, work, marks, resolvedMethods, currentTrampoline,
                  almostFull, slabRoom, environment >>

\* A method is compiled again.
Recompile(m) ==
  /\ startPC[m] < MaxPC
  /\ startPC' = [startPC EXCEPT ![m] = @ + 1]
  /\ UNCHANGED << monitor, work, marks, entries, syncs, code, almostFull,
                  slabRoom, direct, asked >>

-----------------------------------------------------------------------------
\* The trampolines part of CodeCache::initialize.
TrampolinesInit ==
  /\ monitor = NoThread
  /\ work = [t \in Threads |-> NoMethod]
  /\ trampolineReservationMark = TempTrampolineBase
  /\ trampolineAllocationMark = TempTrampolineBase
  /\ tempTrampolineNext = TempTrampolineBase
  /\ resolvedMethods = {}
  /\ currentTrampoline = [m \in Methods |-> NoSlot]
  /\ currentStartPC = [m \in Methods |-> 0]
  /\ code = [s \in 0 .. Slots - 1 |-> 0]
  /\ trampolineSyncList = << << >> >>
  /\ fullSyncRequired = FALSE
  /\ almostFull = FALSE
  /\ slabRoom = SlabEntries
  /\ startPC = [m \in Methods |-> 1]
  /\ direct = 0
  /\ asked = [m \in Methods |-> 0]

TrampolinesNext ==
  \/ \E t \in Threads : ReserveResolved(t)
  \/ \E t \in Threads, m \in Methods : BeginReserveResolved(t, m)
  \/ \E n \in 1 .. MaxDirect : ReserveSpaceForTrampoline(n)
  \/ UnreserveSpaceForTrampoline
  \/ \E m \in Methods : \/ FindOrAddResolvedMethod(m)
                        \/ FindTrampoline(m)
                        \/ \E v \in 1 .. startPC[m] : PatchCallPoint(m, v)
                        \/ Recompile(m)
  \/ SyncTempTrampolines

TrampolinesSpec == TrampolinesInit /\ [][TrampolinesNext]_trampolineVars

\* A thread in the middle of reserveResolvedTrampoline goes on when it can.
TrampolinesFairSpec == TrampolinesSpec /\ \A t \in Threads : WF_trampolineVars(ReserveResolved(t))

-----------------------------------------------------------------------------
\* The marks, entries, blocks and flags keep their types and ranges.
TrampolinesTypeOK ==
  /\ monitor \in Threads \cup {NoThread}
  /\ work \in [Threads -> Methods \cup {NoMethod}]
  /\ trampolineReservationMark \in 0 .. Slots
  /\ trampolineAllocationMark \in 0 .. Slots
  /\ tempTrampolineNext \in TempTrampolineBase .. TempTrampolineTop
  /\ resolvedMethods \subseteq Methods
  /\ currentTrampoline \in [Methods -> (0 .. Slots - 1) \cup {NoSlot}]
  /\ currentStartPC \in [Methods -> 0 .. MaxPC]
  /\ code \in [0 .. Slots - 1 -> 0 .. MaxPC]
  /\ trampolineSyncList \in Seq(Seq(Methods))
  /\ \A i \in 1 .. Len(trampolineSyncList) : Len(trampolineSyncList[i]) =< SyncArraySize
  /\ fullSyncRequired \in BOOLEAN
  /\ almostFull \in BOOLEAN
  /\ slabRoom \in 0 .. SlabEntries
  /\ startPC \in [Methods -> 1 .. MaxPC]
  /\ direct \in 0 .. MaxDirect
  /\ asked \in [Methods -> 0 .. MaxPC]

\* Methods that have an entry but no trampoline yet.
Promised == {m \in resolvedMethods : currentTrampoline[m] = NoSlot}

\* Every method with an entry finds its trampoline's space when it is needed
\* at last (findTrampoline, replaceTrampoline): allocateTrampoline, which
\* returns NULL otherwise, has a reserved trampoline for each of them and for
\* each reservation that has no method yet, whatever fails in between.
ReservationHonoured ==
  Cardinality(Promised) + direct =<
    trampolineAllocationMark - trampolineReservationMark

\* No permanent trampoline is given to two methods, none is given out again
\* and none lies where the next one will be created.
TrampolinesUnshared ==
  \A m \in Methods :
    currentTrampoline[m] # NoSlot =>
      /\ currentTrampoline[m] >= trampolineAllocationMark
      /\ \A n \in Methods \ {m} : currentTrampoline[n] # currentTrampoline[m]

\* The permanent trampoline of m jumps to the address asked for last or to a
\* later one, or m is noted for the next synchronization.
Kept(m) ==
  \/ code[currentTrampoline[m]] >= asked[m]
  \/ m \in Saved(trampolineSyncList)
  \/ fullSyncRequired

\* "rely on the sync later on to update the old one" (replaceTrampoline): a
\* replacement request is never lost, whatever memory runs out.
NoLostReplacement ==
  \A m \in Methods : currentTrampoline[m] # NoSlot => Kept(m)

\* Whatever memory runs out, a request is lost in one way only: by a full
\* synchronization that finds the address of the method's entry current.  A
\* request that found no temporary trampoline or no block, a block that is
\* emptied and a method compiled again lose none, and a new request for a
\* method whose last one was lost is kept again.
ReplacementsKept ==
  [][\A m \in Methods :
       currentTrampoline'[m] # NoSlot /\ ~Kept(m)' =>
         \/ currentTrampoline[m] # NoSlot /\ ~Kept(m) /\ asked'[m] = asked[m]
         \/ fullSyncRequired /\ currentStartPC[m] = startPC[m]]_trampolineVars

\* The list of synchronization blocks does not grow with the number of
\* replacements, only with the number of methods.
SyncListBounded ==
  (Len(trampolineSyncList) - 1) * SyncArraySize =< Cardinality(resolvedMethods)

\* The layout of the trampolines is sound after any sequence of reservations,
\* creations, replacements and safe points.
TrampolinesSound == TrampolinesTypeOK /\ TrampolinesUnshared /\ SyncListBounded

\* "Returns 0 on success or a negative error code on failure": once
\* reserveResolvedTrampoline has entered the cache's monitor it returns.
ReservationReturns ==
  \A t \in Threads : monitor = t ~> monitor = NoThread

\* The marks, blocks and temporary trampolines implement the targets of calls,
\* with a list of the late methods or, without memory for it, with a full
\* synchronization.
Targets == INSTANCE CallTargets WITH
  current <- startPC,
  recorded <- currentStartPC,
  reached <- [m \in Methods |->
                IF currentTrampoline[m] = NoSlot THEN 0 ELSE code[currentTrampoline[m]]],
  late <- Saved(trampolineSyncList),
  unlisted <- fullSyncRequired

ImplementsTargets == Targets!Spec
=============================================================================
