-------------------------- MODULE OptimizationPlan --------------------------
(***************************************************************************)
(* The pool of optimization plans (OptimizationPlan.cpp).  Every           *)
(* compilation takes a plan from the pool, or from persistent memory when  *)
(* the pool is empty, and puts it back at its end; a pool that has grown   *)
(* over a threshold is cut to half of it.  Pool and counters are protected *)
(* by a monitor, which is not held during calls of the persistent          *)
(* allocator.  A step is one critical section or one such call.            *)
(***************************************************************************)
EXTENDS Integers, Sequences, FiniteSets

CONSTANTS
  Threads,          \* threads that compile
  Plans,            \* addresses at which persistent memory may place a plan
  NoPlan,           \* the null pointer
  PoolThreshold,    \* POOL_THRESHOLD
  AllocMayFail,     \* persistent memory may be exhausted
  MaxTotal          \* bound: no allocation fails once this many are counted

ASSUME PlansAssumption == IsFiniteSet(Plans) /\ NoPlan \notin Plans
ASSUME ThreadsAssumption == IsFiniteSet(Threads)
ASSUME ThresholdAssumption == PoolThreshold \in Nat
ASSUME FailureAssumption == AllocMayFail \in BOOLEAN /\ MaxTotal \in Nat

VARIABLES
  pool,                     \* _pool, head first
  poolSize,                 \* _poolSize
  totalNumAllocatedPlans,   \* _totalNumAllocatedPlans
  heap,                     \* plans that persistent memory has handed out
  inUse,                    \* plans whose _inUse is set
  pc,
  plan,                     \* the plan of a thread's compilation
  listToBeFreed,            \* plans cut from the pool by a thread
  remainingPlans,           \* last result of freeEntirePool
  failures                  \* history: allocations that found no memory

planVars == << pool, poolSize, totalNumAllocatedPlans, heap, inUse, pc, plan,
           listToBeFreed, remainingPlans, failures >>

PlansOf(s) == {s[i] : i \in 1 .. Len(s)}

Goto(t, label) == pc' = [pc EXCEPT ![t] = label]

-----------------------------------------------------------------------------
\* Mutant: the pool's size is decremented before the pool is looked at.
NewDecrementsFirst(t) ==
  /\ pc[t] = "idle"
  /\ poolSize' = poolSize - 1
  /\ IF pool # << >>
     THEN /\ plan' = [plan EXCEPT ![t] = Head(pool)]
          /\ pool' = Tail(pool)
          /\ Goto(t, "init")
          /\ UNCHANGED totalNumAllocatedPlans
     ELSE /\ totalNumAllocatedPlans' = totalNumAllocatedPlans + 1
          /\ Goto(t, "persistentAlloc")
          /\ UNCHANGED << plan, pool >>
  /\ UNCHANGED << heap, inUse, listToBeFreed, remainingPlans, failures >>

\* Mutant: the head of the pool is used but not unlinked.
NewKeepsHead(t) ==
  /\ pc[t] = "idle"
  /\ IF pool # << >>
     THEN /\ plan' = [plan EXCEPT ![t] = Head(pool)]
          /\ Goto(t, "init")
          /\ UNCHANGED totalNumAllocatedPlans
     ELSE /\ totalNumAllocatedPlans' = totalNumAllocatedPlans + 1
          /\ Goto(t, "persistentAlloc")
          /\ UNCHANGED plan
  /\ UNCHANGED << pool, poolSize, heap, inUse, listToBeFreed,
                  remainingPlans, failures >>

\* operator new, the critical section: take a plan from the pool, or count
\* the plan that is about to be allocated.
New(t) ==
  /\ pc[t] = "idle"
  /\ IF pool # << >>
     THEN /\ plan' = [plan EXCEPT ![t] = Head(pool)]
          /\ pool' = Tail(pool)
          /\ poolSize' = poolSize - 1
          /\ Goto(t, "init")
          /\ UNCHANGED totalNumAllocatedPlans
     ELSE /\ totalNumAllocatedPlans' = totalNumAllocatedPlans + 1
          /\ Goto(t, "persistentAlloc")
          /\ UNCHANGED << plan, pool, poolSize >>
  /\ UNCHANGED << heap, inUse, listToBeFreed, remainingPlans, failures >>

\* jitPersistentAlloc, outside of the monitor.
PersistentAlloc(t) ==
  /\ pc[t] = "persistentAlloc"
  /\ \E p \in Plans \ heap : /\ heap' = heap \cup {p}
                             /\ plan' = [plan EXCEPT ![t] = p]
  /\ Goto(t, "init")
  /\ UNCHANGED << pool, poolSize, totalNumAllocatedPlans, inUse, listToBeFreed,
                  remainingPlans, failures >>

\* It finds no memory: the compilation is not begun.
PersistentAllocFails(t) ==
  /\ pc[t] = "persistentAlloc"
  /\ AllocMayFail /\ totalNumAllocatedPlans =< MaxTotal
  /\ failures' = failures + 1
  /\ Goto(t, "idle")
  /\ UNCHANGED << pool, poolSize, totalNumAllocatedPlans, heap, inUse, plan,
                  listToBeFreed, remainingPlans >>

\* TR_OptimizationPlan::init, outside of the monitor.
InitPlan(t) ==
  /\ pc[t] = "init"
  /\ inUse' = inUse \cup {plan[t]}
  /\ Goto(t, "compile")
  /\ UNCHANGED << pool, poolSize, totalNumAllocatedPlans, heap, plan,
                  listToBeFreed, remainingPlans, failures >>

\* Mutant: nothing is ever cut off.
SurplusNone(n) == 0

\* How many plans a pool of n plans loses at its head.
Surplus(n) == IF n > PoolThreshold THEN n - PoolThreshold \div 2 ELSE 0

\* freeOptimizationPlan, the critical section.
FreeOptimizationPlan(t) ==
  /\ pc[t] = "compile"
  /\ LET pushed == << plan[t] >> \o pool
         k == Surplus(poolSize + 1)
     IN  /\ pool' = SubSeq(pushed, k + 1, Len(pushed))
         /\ poolSize' = poolSize + 1 - k
         /\ totalNumAllocatedPlans' = totalNumAllocatedPlans - k
         /\ listToBeFreed' = [listToBeFreed EXCEPT ![t] = SubSeq(pushed, 1, k)]
  /\ inUse' = inUse \ {plan[t]}
  /\ plan' = [plan EXCEPT ![t] = NoPlan]
  /\ Goto(t, "release")
  /\ UNCHANGED << heap, remainingPlans, failures >>

\* The rest of freeOptimizationPlan: jitPersistentFree of what was cut off,
\* outside of the monitor.
ReleaseList(t) ==
  /\ pc[t] = "release"
  /\ heap' = heap \ PlansOf(listToBeFreed[t])
  /\ listToBeFreed' = [listToBeFreed EXCEPT ![t] = << >>]
  /\ Goto(t, "idle")
  /\ UNCHANGED << pool, poolSize, totalNumAllocatedPlans, inUse, plan,
                  remainingPlans, failures >>

\* freeEntirePool, all under the monitor, while other threads may compile.
freeEntirePool ==
  /\ heap' = heap \ PlansOf(pool)
  /\ pool' = << >>
  /\ poolSize' = poolSize - Len(pool)
  /\ totalNumAllocatedPlans' = totalNumAllocatedPlans - Len(pool)
  /\ remainingPlans' = totalNumAllocatedPlans'
  /\ UNCHANGED << inUse, pc, plan, listToBeFreed, failures >>

-----------------------------------------------------------------------------
PlanInit ==
  /\ pool = << >>
  /\ poolSize = 0
  /\ totalNumAllocatedPlans = 0
  /\ heap = {}
  /\ inUse = {}
  /\ pc = [t \in Threads |-> "idle"]
  /\ plan = [t \in Threads |-> NoPlan]
  /\ listToBeFreed = [t \in Threads |-> << >>]
  /\ remainingPlans = 0
  /\ failures = 0

PlanNext ==
  \/ \E t \in Threads :
       \/ New(t) \/ PersistentAlloc(t) \/ PersistentAllocFails(t) \/ InitPlan(t)
       \/ FreeOptimizationPlan(t) \/ ReleaseList(t)
  \/ freeEntirePool

PlanSpec == PlanInit /\ [][PlanNext]_planVars

-----------------------------------------------------------------------------
(***************************************************************************)
(* Properties.                                                             *)
(***************************************************************************)

\* Type correctness of the pool, its counters and the threads' locals.
PlanTypeOK ==
  /\ pool \in Seq(Plans)
  /\ poolSize \in Nat
  /\ totalNumAllocatedPlans \in Nat
  /\ heap \subseteq Plans
  /\ inUse \subseteq Plans
  /\ pc \in [Threads -> {"idle", "persistentAlloc", "init", "compile", "release"}]
  /\ plan \in [Threads -> Plans \cup {NoPlan}]
  /\ listToBeFreed \in [Threads -> Seq(Plans)]
  /\ remainingPlans \in Nat
  /\ failures \in Nat

NoDuplicates(s) == \A i, j \in 1 .. Len(s) : s[i] = s[j] => i = j

\* The plans of running compilations.
Taken == {plan[t] : t \in Threads} \ {NoPlan}

\* A plan is in one place only, and its memory is not released while it is
\* there: the pool, the compilations and the lists of plans to be freed
\* never share a plan, whatever the order in which threads take, return and
\* free plans; only plans of running compilations are marked in use.
PlansUnshared ==
  /\ NoDuplicates(pool) /\ PlansOf(pool) \cup Taken \subseteq heap
  /\ PlansOf(pool) \cap Taken = {}
  /\ \A t, u \in Threads : t # u /\ plan[t] # NoPlan => plan[t] # plan[u]
  /\ \A t \in Threads :
       /\ NoDuplicates(listToBeFreed[t]) /\ PlansOf(listToBeFreed[t]) \subseteq heap
       /\ PlansOf(listToBeFreed[t]) \cap (PlansOf(pool) \cup Taken) = {}
       /\ \A u \in Threads \ {t} :
            PlansOf(listToBeFreed[t]) \cap PlansOf(listToBeFreed[u]) = {}
  /\ inUse \subseteq Taken

Allocating == {t \in Threads : pc[t] = "persistentAlloc"}

\* The counters: _poolSize is the length of the pool, which is cut in time,
\* and _totalNumAllocatedPlans, the base of the assertions
\* "_totalNumAllocatedPlans should be greater than _poolSize", counts every
\* plan in the pool, in use or being allocated, and every plan that found no
\* memory: that count is never taken back, so that it is the "number of
\* elements in the system" only until an allocation fails.
PoolAccounted ==
  /\ poolSize = Len(pool)
  /\ poolSize =< PoolThreshold
  /\ totalNumAllocatedPlans =
       Len(pool) + Cardinality(Taken) + Cardinality(Allocating) + failures

\* freeEntirePool "Returns the number of plans still in use somewhere in the
\* system": the compilations that have, or are getting, a plan.
RemainingPlansInUse ==
  [][freeEntirePool =>
       remainingPlans' = Cardinality(Taken) + Cardinality(Allocating)]_planVars

=============================================================================
