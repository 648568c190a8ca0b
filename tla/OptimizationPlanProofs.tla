----------------------- MODULE OptimizationPlanProofs -----------------------
(***************************************************************************)
(* Proofs about OptimizationPlan for every set of threads, every threshold *)
(* and every order of steps.                                               *)
(***************************************************************************)
EXTENDS OptimizationPlan, FiniteSetTheorems, TLAPS

-----------------------------------------------------------------------------
(* Lists of plans *)

\* Taking the head of a list without duplicates.
LEMMA TakeHead ==
    ASSUME NEW s \in Seq(Plans), s # << >>, NoDuplicates(s)
    PROVE  /\ Head(s) \in PlansOf(s)
           /\ Tail(s) \in Seq(Plans)
           /\ Len(Tail(s)) = Len(s) - 1
           /\ NoDuplicates(Tail(s))
           /\ PlansOf(Tail(s)) \subseteq PlansOf(s) \ {Head(s)}
  <1>1. Len(s) \in Nat \ {0} /\ Head(s) = s[1]
    OBVIOUS
  <1>2. /\ Tail(s) \in Seq(Plans)
        /\ Len(Tail(s)) = Len(s) - 1
        /\ \A i \in 1 .. Len(s) - 1 : Tail(s)[i] = s[i + 1]
    OBVIOUS
  <1>3. NoDuplicates(Tail(s))
    <2> SUFFICES ASSUME NEW i \in 1 .. Len(Tail(s)), NEW j \in 1 .. Len(Tail(s)),
                        Tail(s)[i] = Tail(s)[j]
                 PROVE  i = j
      BY DEF NoDuplicates
    <2>1. i + 1 \in 1 .. Len(s) /\ j + 1 \in 1 .. Len(s) /\ s[i + 1] = s[j + 1]
      BY <1>1, <1>2
    <2>2. i + 1 = j + 1
      BY <2>1 DEF NoDuplicates
    <2> QED BY <2>2
  <1>4. PlansOf(Tail(s)) \subseteq PlansOf(s) \ {Head(s)}
    <2> SUFFICES ASSUME NEW i \in 1 .. Len(Tail(s))
                 PROVE  Tail(s)[i] \in PlansOf(s) /\ Tail(s)[i] # s[1]
      BY <1>1 DEF PlansOf
    <2>1. i + 1 \in 1 .. Len(s) /\ Tail(s)[i] = s[i + 1]
      BY <1>1, <1>2
    <2>2. s[i + 1] # s[1]
      BY <1>1, <2>1 DEF NoDuplicates
    <2> QED BY <2>1, <2>2 DEF PlansOf
  <1>5. Head(s) \in PlansOf(s)
    BY <1>1 DEF PlansOf
  <1> QED BY <1>2, <1>3, <1>4, <1>5

\* Pushing a plan that the list does not hold.
LEMMA Push ==
    ASSUME NEW s \in Seq(Plans), NEW p \in Plans, p \notin PlansOf(s), NoDuplicates(s)
    PROVE  /\ << p >> \o s \in Seq(Plans)
           /\ Len(<< p >> \o s) = Len(s) + 1
           /\ NoDuplicates(<< p >> \o s)
           /\ PlansOf(<< p >> \o s) = PlansOf(s) \cup {p}
  <1> DEFINE r == << p >> \o s
  <1>1. /\ r \in Seq(Plans)
        /\ Len(r) = Len(s) + 1
        /\ r[1] = p
        /\ \A i \in 2 .. Len(s) + 1 : r[i] = s[i - 1]
        /\ \A i \in 1 .. Len(s) : s[i] = r[i + 1]
    OBVIOUS
  <1> HIDE DEF r
  <1>2. NoDuplicates(r)
    <2> SUFFICES ASSUME NEW i \in 1 .. Len(r), NEW j \in 1 .. Len(r), r[i] = r[j]
                 PROVE  i = j
      BY DEF NoDuplicates
    <2>1. \A n \in 1 .. Len(s) : s[n] # p
      BY DEF PlansOf
    <2>2. CASE i = 1 /\ j # 1
      <3>1. j - 1 \in 1 .. Len(s) /\ s[j - 1] = p
        BY <1>1, <2>2
      <3> QED BY <2>1, <3>1
    <2>3. CASE i # 1 /\ j = 1
      <3>1. i - 1 \in 1 .. Len(s) /\ s[i - 1] = p
        BY <1>1, <2>3
      <3> QED BY <2>1, <3>1
    <2>4. CASE i # 1 /\ j # 1
      <3>1. i - 1 \in 1 .. Len(s) /\ j - 1 \in 1 .. Len(s) /\ s[i - 1] = s[j - 1]
        BY <1>1, <2>4
      <3>2. i - 1 = j - 1
        BY <3>1 DEF NoDuplicates
      <3> QED BY <3>2
    <2> QED BY <2>2, <2>3, <2>4
  <1>3. PlansOf(r) \subseteq PlansOf(s) \cup {p}
    <2> SUFFICES ASSUME NEW i \in 1 .. Len(r)
                 PROVE  r[i] \in PlansOf(s) \cup {p}
      BY DEF PlansOf
    <2>1. CASE i = 1
      BY <1>1, <2>1
    <2>2. CASE i # 1
      <3>1. i - 1 \in 1 .. Len(s) /\ r[i] = s[i - 1]
        BY <1>1, <2>2
      <3> QED BY <3>1 DEF PlansOf
    <2> QED BY <2>1, <2>2
  <1>4. PlansOf(s) \cup {p} \subseteq PlansOf(r)
    <2>1. p \in PlansOf(r)
      BY <1>1 DEF PlansOf
    <2>2. ASSUME NEW i \in 1 .. Len(s) PROVE s[i] \in PlansOf(r)
      BY <1>1, SMTT(20) DEF PlansOf
    <2> QED BY <2>1, <2>2 DEF PlansOf
  <1> QED BY <1>1, <1>2, <1>3, <1>4 DEF r

\* Cutting a list without duplicates in two.
LEMMA Cut ==
    ASSUME NEW s \in Seq(Plans), NoDuplicates(s), NEW k \in 0 .. Len(s)
    PROVE  LET front == SubSeq(s, 1, k)
               back == SubSeq(s, k + 1, Len(s))
           IN  /\ front \in Seq(Plans) /\ back \in Seq(Plans)
               /\ NoDuplicates(front) /\ NoDuplicates(back)
               /\ Len(back) = Len(s) - k
               /\ PlansOf(front) \cup PlansOf(back) \subseteq PlansOf(s)
               /\ PlansOf(front) \cap PlansOf(back) = {}
  <1> DEFINE front == SubSeq(s, 1, k)
             back == SubSeq(s, k + 1, Len(s))
  <1>1. /\ front \in Seq(Plans)
        /\ Len(front) = k
        /\ \A i \in 1 .. k : front[i] = s[i]
    OBVIOUS
  <1>2. /\ back \in Seq(Plans)
        /\ Len(back) = Len(s) - k
        /\ \A i \in 1 .. Len(s) - k : back[i] = s[i + k]
    OBVIOUS
  <1> HIDE DEF front, back
  <1>3. NoDuplicates(front) /\ NoDuplicates(back)
    <2>1. NoDuplicates(front)
      BY <1>1 DEF NoDuplicates
    <2>2. ASSUME NEW i \in 1 .. Len(back), NEW j \in 1 .. Len(back), back[i] = back[j]
          PROVE  i = j
      <3>1. i + k \in 1 .. Len(s) /\ j + k \in 1 .. Len(s) /\ s[i + k] = s[j + k]
        BY <1>2, <2>2
      <3>2. i + k = j + k
        BY <3>1 DEF NoDuplicates
      <3> QED BY <3>2
    <2> QED BY <2>1, <2>2 DEF NoDuplicates
  <1>4. PlansOf(front) \cup PlansOf(back) \subseteq PlansOf(s)
    <2>1. ASSUME NEW i \in 1 .. Len(front) PROVE front[i] \in PlansOf(s)
      <3>1. i \in 1 .. Len(s) /\ front[i] = s[i]
        BY <1>1
      <3> QED BY <3>1 DEF PlansOf
    <2>2. ASSUME NEW i \in 1 .. Len(back) PROVE back[i] \in PlansOf(s)
      <3>1. i + k \in 1 .. Len(s) /\ back[i] = s[i + k]
        BY <1>2
      <3> QED BY <3>1 DEF PlansOf
    <2> QED BY <2>1, <2>2 DEF PlansOf
  <1>5. PlansOf(front) \cap PlansOf(back) = {}
    <2> SUFFICES ASSUME NEW i \in 1 .. Len(front), NEW j \in 1 .. Len(back),
                        front[i] = back[j]
                 PROVE  FALSE
      BY DEF PlansOf
    <2>1. i \in 1 .. Len(s) /\ j + k \in 1 .. Len(s) /\ s[i] = s[j + k]
      BY <1>1, <1>2
    <2>2. i = j + k
      BY <2>1 DEF NoDuplicates
    <2> QED BY <1>1, <2>2
  <1> QED BY <1>1, <1>2, <1>3, <1>4, <1>5 DEF front, back

-----------------------------------------------------------------------------
(* The inductive invariant *)

\* A thread has a plan from the end of operator new to the critical section
\* of freeOptimizationPlan.
PlanHeld == \A t \in Threads : plan[t] # NoPlan <=> pc[t] \in {"init", "compile"}

Inv == PlanTypeOK /\ PlansUnshared /\ PoolAccounted /\ PlanHeld

\* The sets that the counters are compared with are finite.
LEMMA Finite ==
    ASSUME PlanTypeOK
    PROVE  /\ IsFiniteSet(Taken) /\ Cardinality(Taken) \in Nat
           /\ IsFiniteSet(Allocating) /\ Cardinality(Allocating) \in Nat
  <1>1. Taken \subseteq Plans /\ Allocating \subseteq Threads
    BY DEF PlanTypeOK, Taken, Allocating
  <1> QED BY <1>1, PlansAssumption, ThreadsAssumption, FS_Subset, FS_CardinalityType

\* A thread without a plan gets one.
LEMMA TakePlan ==
    ASSUME PlanTypeOK, NEW t \in Threads, plan[t] = NoPlan, NEW p \in Plans, p \notin Taken,
           plan' = [plan EXCEPT ![t] = p]
    PROVE  /\ plan' \in [Threads -> Plans \cup {NoPlan}]
           /\ plan'[t] = p
           /\ \A u \in Threads \ {t} : plan'[u] = plan[u]
           /\ Taken' = Taken \cup {p}
           /\ Cardinality(Taken') = Cardinality(Taken) + 1
  <1>1. /\ plan' \in [Threads -> Plans \cup {NoPlan}]
        /\ plan'[t] = p
        /\ \A u \in Threads \ {t} : plan'[u] = plan[u]
    BY DEF PlanTypeOK
  <1>2. p # NoPlan
    BY PlansAssumption
  <1>3. Taken' = Taken \cup {p}
    BY <1>1, <1>2 DEF Taken
  <1>4. Cardinality(Taken') = Cardinality(Taken) + 1
    BY <1>3, Finite, FS_AddElement
  <1> QED BY <1>1, <1>3, <1>4

\* A thread gives its plan back.
LEMMA GivePlan ==
    ASSUME PlanTypeOK, PlansUnshared, NEW t \in Threads, plan[t] # NoPlan,
           plan' = [plan EXCEPT ![t] = NoPlan]
    PROVE  /\ plan' \in [Threads -> Plans \cup {NoPlan}]
           /\ plan'[t] = NoPlan
           /\ \A u \in Threads \ {t} : plan'[u] = plan[u]
           /\ plan[t] \in Taken /\ plan[t] \in Plans
           /\ Taken' = Taken \ {plan[t]}
           /\ Cardinality(Taken') = Cardinality(Taken) - 1
  <1>1. /\ plan' \in [Threads -> Plans \cup {NoPlan}]
        /\ plan'[t] = NoPlan
        /\ \A u \in Threads \ {t} : plan'[u] = plan[u]
    BY DEF PlanTypeOK
  <1>2. plan[t] \in Taken /\ plan[t] \in Plans
    BY DEF Taken, PlanTypeOK
  <1>3. \A u \in Threads \ {t} : plan[u] # plan[t]
    BY DEF PlansUnshared
  <1>4. Taken' = Taken \ {plan[t]}
    BY <1>1, <1>3 DEF Taken
  <1>5. Cardinality(Taken') = Cardinality(Taken) - 1
    BY <1>2, <1>4, Finite, FS_RemoveElement
  <1> QED BY <1>1, <1>2, <1>4, <1>5

\* A thread enters, leaves or stays out of the persistent allocator.
LEMMA EnterAllocator ==
    ASSUME PlanTypeOK, NEW t \in Threads, pc[t] # "persistentAlloc", Goto(t, "persistentAlloc")
    PROVE  Cardinality(Allocating') = Cardinality(Allocating) + 1
  <1>1. Allocating' = Allocating \cup {t} /\ t \notin Allocating
    BY DEF PlanTypeOK, Goto, Allocating
  <1> QED BY <1>1, Finite, FS_AddElement

LEMMA LeaveAllocator ==
    ASSUME PlanTypeOK, NEW t \in Threads, pc[t] = "persistentAlloc",
           NEW label, label # "persistentAlloc", Goto(t, label)
    PROVE  Cardinality(Allocating') = Cardinality(Allocating) - 1
  <1>1. Allocating' = Allocating \ {t} /\ t \in Allocating
    BY DEF PlanTypeOK, Goto, Allocating
  <1> QED BY <1>1, Finite, FS_RemoveElement

LEMMA OutsideAllocator ==
    ASSUME PlanTypeOK, NEW t \in Threads, pc[t] # "persistentAlloc",
           NEW label, label # "persistentAlloc", Goto(t, label)
    PROVE  Allocating' = Allocating
  BY DEF PlanTypeOK, Goto, Allocating

-----------------------------------------------------------------------------
(* One lemma per action *)

\* operator new keeps the invariant: the head of the pool becomes a plan of
\* the thread, or the plan to be allocated is counted.
LEMMA NewKeepsInv ==
    ASSUME Inv, NEW t \in Threads, New(t)
    PROVE  Inv'
  <1> USE DEF Inv
  <1>1. pc[t] = "idle" /\ plan[t] = NoPlan
    BY DEF New, PlanHeld, PlanTypeOK
  <1>2. CASE pool # << >>
    <2> DEFINE p == Head(pool)
    <2>1. /\ plan' = [plan EXCEPT ![t] = p]
          /\ pool' = Tail(pool)
          /\ poolSize' = poolSize - 1
          /\ Goto(t, "init")
          /\ UNCHANGED << totalNumAllocatedPlans, heap, inUse, listToBeFreed,
                          remainingPlans, failures >>
      BY <1>2 DEF New
    <2>2. /\ p \in PlansOf(pool) /\ pool' \in Seq(Plans) /\ Len(pool') = Len(pool) - 1
          /\ NoDuplicates(pool') /\ PlansOf(pool') \subseteq PlansOf(pool) \ {p}
      BY <1>2, <2>1, TakeHead DEF PlanTypeOK, PlansUnshared
    <2>3. p \in Plans /\ p \notin Taken /\ Len(pool) \in Nat \ {0}
      BY <1>2, <2>2 DEF PlansUnshared, PlanTypeOK, PlansOf
    <2> HIDE DEF p
    <2>4. /\ plan' \in [Threads -> Plans \cup {NoPlan}]
          /\ plan'[t] = p
          /\ \A u \in Threads \ {t} : plan'[u] = plan[u]
          /\ Taken' = Taken \cup {p}
          /\ Cardinality(Taken') = Cardinality(Taken) + 1
      BY <1>1, <2>1, <2>3, TakePlan
    <2>5. /\ pc' \in [Threads -> {"idle", "persistentAlloc", "init", "compile", "release"}]
          /\ pc'[t] = "init"
          /\ \A u \in Threads \ {t} : pc'[u] = pc[u]
      BY <2>1 DEF PlanTypeOK, Goto
    <2>6. Allocating' = Allocating
      BY <1>1, <2>1, OutsideAllocator
    <2>7. PlanTypeOK'
      BY <2>1, <2>2, <2>3, <2>4, <2>5 DEF PlanTypeOK, PoolAccounted
    <2>8. PlansUnshared'
      <3>1. \A u \in Threads : plan[u] # p
        BY <2>3, PlansAssumption DEF Taken
      <3>2. \A u, v \in Threads : u # v /\ plan'[u] # NoPlan => plan'[u] # plan'[v]
        BY <2>4, <3>1 DEF PlansUnshared
      <3>3. /\ PlansOf(pool') \cup Taken' \subseteq heap
            /\ PlansOf(pool') \cap Taken' = {}
            /\ inUse \subseteq Taken'
        BY <2>2, <2>4 DEF PlansUnshared
      <3>4. \A u \in Threads :
              PlansOf(listToBeFreed[u]) \cap (PlansOf(pool') \cup Taken') = {}
        BY <2>2, <2>4 DEF PlansUnshared
      <3> QED BY <2>1, <2>2, <3>2, <3>3, <3>4 DEF PlansUnshared
    <2>9. PoolAccounted'
      <3>1. /\ Len(pool) \in Nat /\ poolSize \in Nat /\ totalNumAllocatedPlans \in Nat
            /\ Cardinality(Taken) \in Nat /\ Cardinality(Allocating) \in Nat
            /\ failures \in Nat
        BY <2>3, Finite DEF PlanTypeOK
      <3>2. poolSize' = Len(pool') /\ poolSize' =< PoolThreshold
        BY <2>1, <2>2, <3>1, ThresholdAssumption DEF PoolAccounted
      <3>3. totalNumAllocatedPlans =
              Len(pool) + Cardinality(Taken) + Cardinality(Allocating) + failures
        BY DEF PoolAccounted
      <3>4. totalNumAllocatedPlans =
              (Len(pool) - 1) + (Cardinality(Taken) + 1) + Cardinality(Allocating) + failures
        BY <3>1, <3>3
      <3> QED BY <2>1, <2>2, <2>4, <2>6, <3>2, <3>4 DEF PoolAccounted
    <2>10. PlanHeld'
      BY <2>3, <2>4, <2>5, PlansAssumption DEF PlanHeld
    <2> QED BY <2>7, <2>8, <2>9, <2>10
  <1>3. CASE pool = << >>
    <2>1. /\ totalNumAllocatedPlans' = totalNumAllocatedPlans + 1
          /\ Goto(t, "persistentAlloc")
          /\ UNCHANGED << plan, pool, poolSize, heap, inUse, listToBeFreed, remainingPlans, failures >>
      BY <1>3 DEF New
    <2>2. Taken' = Taken
      BY <2>1 DEF Taken
    <2>3. Cardinality(Allocating') = Cardinality(Allocating) + 1
      BY <1>1, <2>1, EnterAllocator
    <2>4. PlanTypeOK'
      BY <2>1 DEF PlanTypeOK, Goto
    <2>5. PlansUnshared'
      BY <2>1, <2>2 DEF PlansUnshared
    <2>6. PoolAccounted'
      <3>1. /\ Len(pool) \in Nat /\ totalNumAllocatedPlans \in Nat
            /\ Cardinality(Taken) \in Nat /\ Cardinality(Allocating) \in Nat
            /\ failures \in Nat
        BY Finite DEF PlanTypeOK
      <3> QED BY <2>1, <2>2, <2>3, <3>1 DEF PoolAccounted
    <2>7. PlanHeld'
      BY <1>1, <2>1 DEF PlanHeld, Goto, PlanTypeOK
    <2> QED BY <2>4, <2>5, <2>6, <2>7
  <1> QED BY <1>2, <1>3

\* jitPersistentAlloc keeps the invariant: its plan is new to everyone, and
\* it was counted before.
LEMMA PersistentAllocKeepsInv ==
    ASSUME Inv, NEW t \in Threads, PersistentAlloc(t)
    PROVE  Inv'
  <1> USE DEF Inv
  <1>1. PICK p \in Plans \ heap : heap' = heap \cup {p} /\ plan' = [plan EXCEPT ![t] = p]
    BY DEF PersistentAlloc
  <1>2. /\ pc[t] = "persistentAlloc" /\ Goto(t, "init")
        /\ UNCHANGED << pool, poolSize, totalNumAllocatedPlans, inUse, listToBeFreed,
                        remainingPlans, failures >>
    BY DEF PersistentAlloc
  <1>3. plan[t] = NoPlan
    BY <1>2 DEF PlanHeld
  <1>4. p \notin Taken
    BY DEF PlansUnshared
  <1>5. /\ plan' \in [Threads -> Plans \cup {NoPlan}]
        /\ plan'[t] = p
        /\ \A u \in Threads \ {t} : plan'[u] = plan[u]
        /\ Taken' = Taken \cup {p}
        /\ Cardinality(Taken') = Cardinality(Taken) + 1
    BY <1>1, <1>3, <1>4, TakePlan
  <1>6. Cardinality(Allocating') = Cardinality(Allocating) - 1
    BY <1>2, LeaveAllocator
  <1>7. PlanTypeOK'
    BY <1>1, <1>2, <1>5 DEF PlanTypeOK, Goto
  <1>8. PlansUnshared'
    <2>1. \A u \in Threads : plan[u] # p
      BY <1>4, PlansAssumption DEF Taken
    <2>2. \A u, v \in Threads : u # v /\ plan'[u] # NoPlan => plan'[u] # plan'[v]
      BY <1>5, <2>1 DEF PlansUnshared
    <2> QED BY <1>1, <1>2, <1>5, <2>2 DEF PlansUnshared
  <1>9. PoolAccounted'
    BY <1>2, <1>5, <1>6, Finite DEF PoolAccounted, PlanTypeOK
  <1>10. PlanHeld'
    BY <1>2, <1>5, PlansAssumption DEF PlanHeld, Goto, PlanTypeOK
  <1> QED BY <1>7, <1>8, <1>9, <1>10

\* A failure of jitPersistentAlloc keeps the invariant: the plan stays
\* counted, and so is the failure.
LEMMA PersistentAllocFailsKeepsInv ==
    ASSUME Inv, NEW t \in Threads, PersistentAllocFails(t)
    PROVE  Inv'
  <1> USE DEF Inv
  <1>1. /\ pc[t] = "persistentAlloc" /\ failures' = failures + 1 /\ Goto(t, "idle")
        /\ UNCHANGED << pool, poolSize, totalNumAllocatedPlans, heap, inUse, plan,
                        listToBeFreed, remainingPlans >>
    BY DEF PersistentAllocFails
  <1>2. Taken' = Taken /\ Cardinality(Allocating') = Cardinality(Allocating) - 1
    BY <1>1, LeaveAllocator DEF Taken
  <1>3. PlanTypeOK'
    BY <1>1 DEF PlanTypeOK, Goto
  <1>4. PlansUnshared'
    BY <1>1, <1>2 DEF PlansUnshared
  <1>5. PoolAccounted'
    BY <1>1, <1>2, Finite DEF PoolAccounted, PlanTypeOK
  <1>6. PlanHeld'
    BY <1>1 DEF PlanHeld, Goto, PlanTypeOK
  <1> QED BY <1>3, <1>4, <1>5, <1>6

\* TR_OptimizationPlan::init keeps the invariant.
LEMMA InitPlanKeepsInv ==
    ASSUME Inv, NEW t \in Threads, InitPlan(t)
    PROVE  Inv'
  <1> USE DEF Inv
  <1>1. /\ pc[t] = "init" /\ inUse' = inUse \cup {plan[t]} /\ Goto(t, "compile")
        /\ UNCHANGED << pool, poolSize, totalNumAllocatedPlans, heap, plan, listToBeFreed,
                        remainingPlans, failures >>
    BY DEF InitPlan
  <1>2. plan[t] \in Taken /\ plan[t] \in Plans
    BY <1>1 DEF PlanHeld, Taken, PlanTypeOK
  <1>3. Taken' = Taken /\ Allocating' = Allocating
    BY <1>1, OutsideAllocator DEF Taken
  <1>4. PlanTypeOK'
    BY <1>1, <1>2 DEF PlanTypeOK, Goto
  <1>5. PlansUnshared'
    BY <1>1, <1>2, <1>3 DEF PlansUnshared
  <1>6. PoolAccounted'
    BY <1>1, <1>3 DEF PoolAccounted
  <1>7. PlanHeld'
    BY <1>1 DEF PlanHeld, Goto, PlanTypeOK
  <1> QED BY <1>4, <1>5, <1>6, <1>7

\* What is cut from a pool leaves no more than the threshold.
LEMMA SurplusBounds ==
    ASSUME NEW n \in Nat
    PROVE  Surplus(n) \in 0 .. n /\ n - Surplus(n) =< PoolThreshold
  <1>1. PoolThreshold \div 2 \in Nat /\ PoolThreshold \div 2 =< PoolThreshold
    BY ThresholdAssumption
  <1> QED BY <1>1, ThresholdAssumption DEF Surplus

\* The critical section of freeOptimizationPlan keeps the invariant: the
\* plan moves to the pool, or with the head of the pool to the thread's list.
LEMMA FreeOptimizationPlanKeepsInv ==
    ASSUME Inv, NEW t \in Threads, FreeOptimizationPlan(t)
    PROVE  Inv'
  <1> USE DEF Inv
  <1> DEFINE p == plan[t]
             pushed == << p >> \o pool
             k == Surplus(poolSize + 1)
             front == SubSeq(pushed, 1, k)
  <1>1. /\ pc[t] = "compile" /\ Goto(t, "release")
        /\ pool' = SubSeq(pushed, k + 1, Len(pushed))
        /\ poolSize' = poolSize + 1 - k
        /\ totalNumAllocatedPlans' = totalNumAllocatedPlans - k
        /\ listToBeFreed' = [listToBeFreed EXCEPT ![t] = front]
        /\ inUse' = inUse \ {p}
        /\ plan' = [plan EXCEPT ![t] = NoPlan]
        /\ UNCHANGED << heap, remainingPlans, failures >>
    BY DEF FreeOptimizationPlan
  <1>2. plan[t] # NoPlan
    BY <1>1 DEF PlanHeld
  <1>3. /\ plan' \in [Threads -> Plans \cup {NoPlan}]
        /\ plan'[t] = NoPlan
        /\ \A u \in Threads \ {t} : plan'[u] = plan[u]
        /\ p \in Taken /\ p \in Plans
        /\ Taken' = Taken \ {p}
        /\ Cardinality(Taken') = Cardinality(Taken) - 1
    BY <1>1, <1>2, GivePlan
  <1>4. /\ pushed \in Seq(Plans) /\ Len(pushed) = Len(pool) + 1
        /\ NoDuplicates(pushed) /\ PlansOf(pushed) = PlansOf(pool) \cup {p}
    <2>1. p \notin PlansOf(pool)
      BY <1>3 DEF PlansUnshared
    <2> QED BY <1>3, <2>1, Push DEF PlanTypeOK, PlansUnshared
  <1>5. Len(pool) \in Nat /\ poolSize = Len(pool)
    BY DEF PlanTypeOK, PoolAccounted
  <1> HIDE DEF p, pushed
  <1>6. k \in 0 .. Len(pushed) /\ poolSize + 1 - k =< PoolThreshold
    <2>1. poolSize + 1 \in Nat /\ Len(pushed) = poolSize + 1
      BY <1>4, <1>5
    <2>2. \A n \in Nat : Surplus(n) \in 0 .. n /\ n - Surplus(n) =< PoolThreshold
      BY SurplusBounds
    <2>3. k \in 0 .. (poolSize + 1) /\ (poolSize + 1) - k =< PoolThreshold
      BY <2>1, <2>2, Zenon
    <2> HIDE DEF k
    <2> QED BY <1>5, <2>1, <2>3
  <1> HIDE DEF k
  <1>7. /\ front \in Seq(Plans) /\ pool' \in Seq(Plans)
        /\ NoDuplicates(front) /\ NoDuplicates(pool')
        /\ Len(pool') = Len(pushed) - k
        /\ PlansOf(front) \cup PlansOf(pool') \subseteq PlansOf(pool) \cup {p}
        /\ PlansOf(front) \cap PlansOf(pool') = {}
    BY <1>1, <1>4, <1>6, Cut
  <1> HIDE DEF front
  <1>8. /\ listToBeFreed' \in [Threads -> Seq(Plans)]
        /\ listToBeFreed'[t] = front
        /\ \A u \in Threads \ {t} : listToBeFreed'[u] = listToBeFreed[u]
    BY <1>1, <1>7 DEF PlanTypeOK
  <1>9. /\ totalNumAllocatedPlans \in Nat /\ failures \in Nat
        /\ Cardinality(Taken) \in Nat /\ Cardinality(Allocating) \in Nat
        /\ Cardinality(Taken') \in Nat
    <2>1. IsFiniteSet(Taken')
      BY <1>3, Finite, FS_Subset
    <2> QED BY <2>1, Finite, FS_CardinalityType DEF PlanTypeOK
  <1>10. Allocating' = Allocating
    BY <1>1, OutsideAllocator
  <1>11. PlanTypeOK'
    <2>1. poolSize' \in Nat /\ totalNumAllocatedPlans' \in Nat
      <3>1. Len(pool) + 1 - k \in Nat /\ k \in Nat /\ Cardinality(Taken) - 1 \in Nat
        BY <1>3, <1>4, <1>5, <1>6, <1>9
      <3>2. totalNumAllocatedPlans =
              Len(pool) + Cardinality(Taken) + Cardinality(Allocating) + failures
        BY DEF PoolAccounted
      <3> DEFINE a == Len(pool)
                 b == Cardinality(Taken)
                 c == Cardinality(Allocating)
      <3>3. a \in Nat /\ b \in Nat /\ c \in Nat /\ a + 1 - k \in Nat /\ b - 1 \in Nat
        BY <1>5, <1>9, <3>1
      <3> HIDE DEF a, b, c
      <3>4. totalNumAllocatedPlans = a + b + c + failures
        BY <3>2 DEF a, b, c
      <3>5. totalNumAllocatedPlans - k \in Nat
        BY <1>9, <3>1, <3>3, <3>4
      <3>6. poolSize + 1 - k \in Nat
        BY <1>5, <3>1
      <3> QED BY <1>1, <3>5, <3>6
    <2>2. pc' \in [Threads -> {"idle", "persistentAlloc", "init", "compile", "release"}]
      BY <1>1 DEF PlanTypeOK, Goto
    <2> QED BY <1>1, <1>3, <1>7, <1>8, <2>1, <2>2 DEF PlanTypeOK
  <1>12. PlansUnshared'
    <2>1. /\ PlansOf(pool') \cup Taken' \subseteq heap
          /\ PlansOf(pool') \cap Taken' = {}
          /\ inUse' \subseteq Taken'
      BY <1>1, <1>3, <1>7 DEF PlansUnshared
    <2>2. \A u, v \in Threads : u # v /\ plan'[u] # NoPlan => plan'[u] # plan'[v]
      BY <1>3 DEF PlansUnshared
    <2>3. /\ NoDuplicates(front) /\ PlansOf(front) \subseteq heap
          /\ PlansOf(front) \cap (PlansOf(pool') \cup Taken') = {}
      BY <1>3, <1>7 DEF PlansUnshared
    <2>4. ASSUME NEW u \in Threads \ {t}
          PROVE  /\ NoDuplicates(listToBeFreed[u]) /\ PlansOf(listToBeFreed[u]) \subseteq heap
                 /\ PlansOf(listToBeFreed[u]) \cap (PlansOf(pool') \cup Taken') = {}
                 /\ PlansOf(listToBeFreed[u]) \cap PlansOf(front) = {}
      BY <1>3, <1>7 DEF PlansUnshared
    <2>5. ASSUME NEW u \in Threads
          PROVE  /\ NoDuplicates(listToBeFreed'[u]) /\ PlansOf(listToBeFreed'[u]) \subseteq heap
                 /\ PlansOf(listToBeFreed'[u]) \cap (PlansOf(pool') \cup Taken') = {}
                 /\ \A v \in Threads \ {u} :
                      PlansOf(listToBeFreed'[u]) \cap PlansOf(listToBeFreed'[v]) = {}
      <3>1. CASE u = t
        BY <1>8, <2>3, <2>4, <3>1
      <3>2. CASE u # t
        BY <1>8, <2>4, <3>2 DEF PlansUnshared
      <3> QED BY <3>1, <3>2
    <2> QED BY <1>1, <1>7, <2>1, <2>2, <2>5 DEF PlansUnshared
  <1>13. /\ Len(pool') = Len(pool) + 1 - k /\ k \in Nat
         /\ totalNumAllocatedPlans' = totalNumAllocatedPlans - k
         /\ Cardinality(Taken') = Cardinality(Taken) - 1
         /\ Cardinality(Allocating') = Cardinality(Allocating)
    BY <1>1, <1>3, <1>4, <1>5, <1>6, <1>7, <1>10
  <1>14. PoolAccounted'
    <2>1. poolSize' = Len(pool') /\ poolSize' =< PoolThreshold
      BY <1>1, <1>4, <1>5, <1>6, <1>7
    <2>2. totalNumAllocatedPlans =
            Len(pool) + Cardinality(Taken) + Cardinality(Allocating) + failures
      BY DEF PoolAccounted
    <2>3. totalNumAllocatedPlans' =
            Len(pool') + Cardinality(Taken') + Cardinality(Allocating') + failures
      <3>1. totalNumAllocatedPlans - k =
              (Len(pool) + 1 - k) + (Cardinality(Taken) - 1) + Cardinality(Allocating) + failures
        <4> DEFINE a == Len(pool)
                   b == Cardinality(Taken)
                   c == Cardinality(Allocating)
        <4>1. a \in Nat /\ b \in Nat /\ c \in Nat /\ k \in Nat /\ failures \in Nat
          BY <1>5, <1>9, <1>13
        <4>2. totalNumAllocatedPlans = a + b + c + failures
          BY <2>2
        <4> HIDE DEF a, b, c
        <4>3. totalNumAllocatedPlans - k = (a + 1 - k) + (b - 1) + c + failures
          BY ONLY <4>1, <4>2
        <4> QED BY <4>3 DEF a, b, c
      <3> QED BY <1>13, <3>1
    <2> QED BY <1>1, <2>1, <2>3 DEF PoolAccounted
  <1>15. PlanHeld'
    BY <1>1, <1>3 DEF PlanHeld, Goto, PlanTypeOK
  <1> QED BY <1>11, <1>12, <1>14, <1>15

\* The release of a thread's list keeps the invariant: nobody else has a
\* plan of the list.
LEMMA ReleaseListKeepsInv ==
    ASSUME Inv, NEW t \in Threads, ReleaseList(t)
    PROVE  Inv'
  <1> USE DEF Inv
  <1>1. /\ pc[t] = "release" /\ Goto(t, "idle")
        /\ heap' = heap \ PlansOf(listToBeFreed[t])
        /\ listToBeFreed' = [listToBeFreed EXCEPT ![t] = << >>]
        /\ UNCHANGED << pool, poolSize, totalNumAllocatedPlans, inUse, plan, remainingPlans, failures >>
    BY DEF ReleaseList
  <1>2. Taken' = Taken /\ Allocating' = Allocating
    BY <1>1, OutsideAllocator DEF Taken
  <1>3. /\ listToBeFreed' \in [Threads -> Seq(Plans)]
        /\ listToBeFreed'[t] = << >>
        /\ \A u \in Threads \ {t} : listToBeFreed'[u] = listToBeFreed[u]
    BY <1>1 DEF PlanTypeOK
  <1>4. PlanTypeOK'
    BY <1>1, <1>3 DEF PlanTypeOK, Goto
  <1>5. PlansUnshared'
    <2>1. PlansOf(<< >>) = {} /\ NoDuplicates(<< >>)
      BY DEF PlansOf, NoDuplicates
    <2>2. PlansOf(pool) \cup Taken \subseteq heap'
      BY <1>1 DEF PlansUnshared
    <2>3. ASSUME NEW u \in Threads
          PROVE  /\ NoDuplicates(listToBeFreed'[u]) /\ PlansOf(listToBeFreed'[u]) \subseteq heap'
                 /\ PlansOf(listToBeFreed'[u]) \cap (PlansOf(pool) \cup Taken) = {}
                 /\ \A v \in Threads \ {u} :
                      PlansOf(listToBeFreed'[u]) \cap PlansOf(listToBeFreed'[v]) = {}
      <3>1. CASE u = t
        BY <1>3, <2>1, <3>1
      <3>2. CASE u # t
        BY <1>1, <1>3, <2>1, <3>2 DEF PlansUnshared
      <3> QED BY <3>1, <3>2
    <2> QED BY <1>1, <1>2, <2>2, <2>3 DEF PlansUnshared
  <1>6. PoolAccounted'
    BY <1>1, <1>2 DEF PoolAccounted
  <1>7. PlanHeld'
    BY <1>1 DEF PlanHeld, Goto, PlanTypeOK
  <1> QED BY <1>4, <1>5, <1>6, <1>7

\* freeEntirePool keeps the invariant.
LEMMA freeEntirePoolKeepsInv ==
    ASSUME Inv, freeEntirePool
    PROVE  Inv'
  <1> USE DEF Inv
  <1>1. /\ heap' = heap \ PlansOf(pool) /\ pool' = << >>
        /\ poolSize' = poolSize - Len(pool)
        /\ totalNumAllocatedPlans' = totalNumAllocatedPlans - Len(pool)
        /\ remainingPlans' = totalNumAllocatedPlans'
        /\ UNCHANGED << inUse, pc, plan, listToBeFreed, failures >>
    BY DEF freeEntirePool
  <1>2. Taken' = Taken /\ Allocating' = Allocating
    BY <1>1 DEF Taken, Allocating
  <1>3. /\ Len(pool) \in Nat /\ Len(pool') = 0 /\ totalNumAllocatedPlans \in Nat
        /\ failures \in Nat
        /\ Cardinality(Taken) \in Nat /\ Cardinality(Allocating) \in Nat
    BY <1>1, Finite DEF PlanTypeOK
  <1>4. PlanTypeOK'
    <2>1. poolSize' = 0 /\ totalNumAllocatedPlans' \in Nat
      BY <1>1, <1>3 DEF PoolAccounted
    <2> QED BY <1>1, <2>1 DEF PlanTypeOK
  <1>5. PlansUnshared'
    <2>1. PlansOf(pool') = {} /\ NoDuplicates(pool')
      BY <1>1 DEF PlansOf, NoDuplicates
    <2>2. Taken \subseteq heap' /\ \A u \in Threads : PlansOf(listToBeFreed[u]) \subseteq heap'
      BY <1>1 DEF PlansUnshared
    <2> QED BY <1>1, <1>2, <2>1, <2>2 DEF PlansUnshared
  <1>6. PoolAccounted'
    <2>1. poolSize' = 0 /\ 0 =< PoolThreshold
      BY <1>1, <1>3, ThresholdAssumption DEF PoolAccounted
    <2>2. totalNumAllocatedPlans =
            Len(pool) + Cardinality(Taken) + Cardinality(Allocating) + failures
      BY DEF PoolAccounted
    <2>3. totalNumAllocatedPlans' =
            0 + Cardinality(Taken) + Cardinality(Allocating) + failures
      BY <1>1, <1>3, <2>2
    <2> QED BY <1>1, <1>2, <1>3, <2>1, <2>3 DEF PoolAccounted
  <1>7. PlanHeld'
    BY <1>1 DEF PlanHeld
  <1> QED BY <1>4, <1>5, <1>6, <1>7

-----------------------------------------------------------------------------
(* Theorems *)

\* The invariant holds at the start: there is no plan anywhere.
LEMMA InitEstablishesInv ==
    PlanInit => Inv
  <1> SUFFICES ASSUME PlanInit PROVE Inv
    OBVIOUS
  <1> USE DEF PlanInit
  <1>1. Taken = {} /\ Allocating = {}
    BY DEF Taken, Allocating
  <1>2. Cardinality(Taken) = 0 /\ Cardinality(Allocating) = 0
    BY <1>1, FS_EmptySet
  <1>3. PlansOf(<< >>) = {} /\ NoDuplicates(<< >>)
    BY DEF PlansOf, NoDuplicates
  <1>4. PlanTypeOK
    BY DEF PlanTypeOK
  <1>5. PlansUnshared
    BY <1>1, <1>3 DEF PlansUnshared
  <1>6. PoolAccounted
    BY <1>2, ThresholdAssumption DEF PoolAccounted
  <1>7. PlanHeld
    BY DEF PlanHeld
  <1> QED BY <1>4, <1>5, <1>6, <1>7 DEF Inv

\* Every step keeps the invariant.
LEMMA NextKeepsInv ==
    Inv /\ [PlanNext]_planVars => Inv'
  <1> SUFFICES ASSUME Inv, [PlanNext]_planVars PROVE Inv'
    OBVIOUS
  <1>1. ASSUME NEW t \in Threads, New(t) PROVE Inv'
    BY <1>1, NewKeepsInv
  <1>2. ASSUME NEW t \in Threads, PersistentAlloc(t) PROVE Inv'
    BY <1>2, PersistentAllocKeepsInv
  <1>3. ASSUME NEW t \in Threads, PersistentAllocFails(t) PROVE Inv'
    BY <1>3, PersistentAllocFailsKeepsInv
  <1>4. ASSUME NEW t \in Threads, InitPlan(t) PROVE Inv'
    BY <1>4, InitPlanKeepsInv
  <1>5. ASSUME NEW t \in Threads, FreeOptimizationPlan(t) PROVE Inv'
    BY <1>5, FreeOptimizationPlanKeepsInv
  <1>6. ASSUME NEW t \in Threads, ReleaseList(t) PROVE Inv'
    BY <1>6, ReleaseListKeepsInv
  <1>7. CASE freeEntirePool
    BY <1>7, freeEntirePoolKeepsInv
  <1>8. CASE UNCHANGED planVars
    BY <1>8 DEF planVars, Inv, PlanTypeOK, PlansUnshared, PoolAccounted, PlanHeld,
                Taken, Allocating
  <1> QED BY <1>1, <1>2, <1>3, <1>4, <1>5, <1>6, <1>7, <1>8 DEF PlanNext

\* The inductive invariant is an invariant.
LEMMA InvariantHolds ==
    PlanSpec => []Inv
  BY InitEstablishesInv, NextKeepsInv, PTL DEF PlanSpec

\* Pool, counters and locals keep their types; in particular the unsigned
\* counters never pass below zero, for any number of threads.
THEOREM PlanTypes ==
    PlanSpec => []PlanTypeOK
  <1>1. Inv => PlanTypeOK
    BY DEF Inv
  <1> QED BY <1>1, InvariantHolds, PTL

\* However threads interleave operator new, freeOptimizationPlan and
\* freeEntirePool, no plan is given to two compilations, put twice into the
\* pool or released while someone has it.
THEOREM PlansNeverShared ==
    PlanSpec => []PlansUnshared
  <1>1. Inv => PlansUnshared
    BY DEF Inv
  <1> QED BY <1>1, InvariantHolds, PTL

\* _poolSize is exact and within the threshold, and _totalNumAllocatedPlans
\* never loses sight of a plan, although it is updated before the allocation
\* and before the release that it counts.
THEOREM PoolAlwaysAccounted ==
    PlanSpec => []PoolAccounted
  <1>1. Inv => PoolAccounted
    BY DEF Inv
  <1> QED BY <1>1, InvariantHolds, PTL

\* What freeEntirePool returns: the number of plans that compilations have or
\* are about to have, too high by one for every allocation that ever failed.
THEOREM RemainingPlansOffByFailures ==
    PlanSpec => [][freeEntirePool =>
                 remainingPlans' = Cardinality(Taken) + Cardinality(Allocating) + failures]_planVars
  <1>1. Inv /\ [PlanNext]_planVars =>
          [freeEntirePool =>
             remainingPlans' = Cardinality(Taken) + Cardinality(Allocating) + failures]_planVars
    <2> SUFFICES ASSUME Inv, freeEntirePool
                 PROVE  remainingPlans' =
                          Cardinality(Taken) + Cardinality(Allocating) + failures
      OBVIOUS
    <2>1. /\ Len(pool) \in Nat /\ failures \in Nat
          /\ Cardinality(Taken) \in Nat /\ Cardinality(Allocating) \in Nat
      BY Finite DEF Inv, PlanTypeOK
    <2> QED BY <2>1 DEF Inv, PoolAccounted, freeEntirePool
  <1> QED BY <1>1, InvariantHolds, PTL DEF PlanSpec

=============================================================================
