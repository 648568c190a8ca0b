-------------------------- MODULE ControlFlowProofs --------------------------
(***************************************************************************)
(* Proofs about the flow graph of a method, for any blocks and edges.      *)
(* Editing: no dangling edge and no orphan remains, no unreachable block   *)
(* goes unnoticed, and a removal spares whatever the start reaches.  The   *)
(* exception handlers of a block: every exception is taken as if no edge   *)
(* had been left out.  The traversal: both orders hold what the entry      *)
(* reaches and are topological but for the back edges.                     *)
(***************************************************************************)
EXTENDS FlowParts, FiniteSetTheorems, NaturalsInduction, WellFoundedInduction, TLAPS

-----------------------------------------------------------------------------
(***************************************************************************)
(* What the start reaches                                                  *)
(***************************************************************************)

\* Induction over a set of numbers.
LEMMA AllNumbers ==
    ASSUME NEW T, 0 \in T, \A n \in Nat : n \in T => n + 1 \in T
    PROVE  \A n \in Nat : n \in T
  <1> DEFINE M == {n \in Nat : n \notin T}
  <1>1. SUFFICES ASSUME M # {} PROVE FALSE
    OBVIOUS
  <1>2. M \in SUBSET Nat
    OBVIOUS
  <1>3. PICK n \in M : \A k \in M : ~(<< k, n >> \in OpToRel(<, Nat))
    <2> HIDE DEF M
    <2> QED BY <1>1, <1>2, NatLessThanWellFounded, WFMin
  <1>4. \A k \in M : ~(k < n)
    BY <1>2, <1>3 DEF OpToRel
  <1>5. n # 0 /\ n \in Nat /\ n - 1 \in Nat
    OBVIOUS
  <1>6. n - 1 \notin M
    BY <1>4, <1>5
  <1>7. (n - 1) + 1 \in T
    BY <1>5, <1>6
  <1> QED BY <1>5, <1>7

\* Every node of a graph.
All == Blocks \cup {Start, End}

\* The number of rounds of the search, and what it knows after each.
Rounds == Cardinality(Blocks) + 1
Layer(es, f, i) == IF i = 0 THEN {Start} ELSE Step(es, f[i - 1])
IsLayers(es, f) == f = [i \in 0 .. Rounds |-> Layer(es, f, i)]

\* The rounds of ReachableBlocks are such layers.
LEMMA ReachIsLayer ==
    ASSUME NEW es
    PROVE  ReachableBlocks(es) = (CHOOSE f : IsLayers(es, f))[Rounds]
  BY DEF ReachableBlocks, IsLayers, Layer, Rounds

\* There are as many rounds as blocks and one more.
LEMMA RoundsNumber ==
  /\ Rounds \in Nat /\ Rounds >= 1
  /\ IsFiniteSet(All) /\ Cardinality(All) = Rounds + 1
  <1>1. IsFiniteSet(Blocks) /\ Cardinality(Blocks) \in Nat
    BY NodesAssumption, FS_CardinalityType
  <1>2. /\ IsFiniteSet(Blocks \cup {Start})
        /\ Cardinality(Blocks \cup {Start}) = Cardinality(Blocks) + 1
    BY <1>1, NodesAssumption, FS_AddElement
  <1>3. End \notin Blocks \cup {Start} /\ All = (Blocks \cup {Start}) \cup {End}
    BY NodesAssumption DEF All
  <1>4. /\ IsFiniteSet(All) /\ Cardinality(All) = Cardinality(Blocks) + 1 + 1
    BY <1>2, <1>3, FS_AddElement
  <1> QED BY <1>1, <1>4 DEF Rounds

\* The layers exist.
LEMMA LayersExist ==
    ASSUME NEW es
    PROVE  \E f : IsLayers(es, f)
  <1> DEFINE UpTo(n, f) == \A i \in 0 .. n : f[i] = Layer(es, f, i)
             T == {n \in Nat : \E f : UpTo(n, f)}
  <1>1. 0 \in T
    <2> DEFINE f == [i \in Nat |-> {Start}]
    <2>1. 0 .. 0 = {0} /\ f[0] = {Start}
      OBVIOUS
    <2>2. UpTo(0, f)
      BY <2>1 DEF Layer
    <2> HIDE DEF UpTo, f
    <2> QED BY <2>2
  <1>2. ASSUME NEW n \in Nat, n \in T PROVE n + 1 \in T
    <2>1. PICK f : UpTo(n, f)
      BY <1>2
    <2> DEFINE g == [i \in 0 .. n + 1 |-> IF i = n + 1 THEN Step(es, f[n]) ELSE f[i]]
    <2>2. /\ g[n + 1] = Step(es, f[n]) /\ \A i \in 0 .. n : g[i] = f[i]
      OBVIOUS
    <2> HIDE DEF g
    <2>3. ASSUME NEW i \in 0 .. n + 1 PROVE g[i] = Layer(es, g, i)
      <3>1. CASE i = n + 1
        <4>1. i # 0 /\ i - 1 = n /\ n \in 0 .. n
          BY <3>1
        <4> QED BY <2>2, <3>1, <4>1 DEF Layer
      <3>2. CASE i = 0
        <4>1. 0 \in 0 .. n
          OBVIOUS
        <4> QED BY <2>1, <2>2, <3>2, <4>1 DEF Layer
      <3>3. CASE i # 0 /\ i # n + 1
        <4>1. i \in 0 .. n /\ i - 1 \in 0 .. n
          BY <3>3
        <4>2. f[i] = Layer(es, f, i)
          BY <2>1, <4>1
        <4> QED BY <2>2, <3>3, <4>1, <4>2 DEF Layer
      <3> QED BY <3>1, <3>2, <3>3
    <2>4. UpTo(n + 1, g)
      BY <2>3
    <2> HIDE DEF UpTo
    <2> QED BY <2>4
  <1>3. Rounds \in T
    <2> HIDE DEF T
    <2> QED BY <1>1, <1>2, AllNumbers, RoundsNumber
  <1>4. PICK f : UpTo(Rounds, f)
    BY <1>3
  <1> DEFINE g == [i \in 0 .. Rounds |-> f[i]]
  <1>5. \A i \in 0 .. Rounds : g[i] = f[i]
    OBVIOUS
  <1>6. g = [i \in 0 .. Rounds |-> g[i]]
    OBVIOUS
  <1> HIDE DEF g
  <1>7. ASSUME NEW i \in 0 .. Rounds PROVE g[i] = Layer(es, g, i)
    <2>1. CASE i = 0
      BY <1>4, <1>5, <2>1 DEF Layer
    <2>2. CASE i # 0
      <3>1. i - 1 \in 0 .. Rounds
        BY <2>2, RoundsNumber
      <3> QED BY <1>4, <1>5, <2>2, <3>1 DEF Layer
    <2> QED BY <2>1, <2>2
  <1>8. g = [i \in 0 .. Rounds |-> Layer(es, g, i)]
    BY <1>6, <1>7
  <1> QED BY <1>8 DEF IsLayers

\* The layers of a search.
LEMMA LayersOf ==
    ASSUME NEW es
    PROVE  \E f : /\ ReachableBlocks(es) = f[Rounds]
                  /\ f[0] = {Start}
                  /\ \A i \in 0 .. Rounds : i # 0 => f[i] = Step(es, f[i - 1])
  <1> DEFINE f == CHOOSE g : IsLayers(es, g)
  <1>1. IsLayers(es, f)
    BY LayersExist
  <1>2. ReachableBlocks(es) = f[Rounds]
    BY ReachIsLayer
  <1> HIDE DEF f
  <1>3. \A i \in 0 .. Rounds : f[i] = Layer(es, f, i)
    <2>1. f = [i \in 0 .. Rounds |-> Layer(es, f, i)]
      BY <1>1 DEF IsLayers
    <2> DEFINE h == [i \in 0 .. Rounds |-> Layer(es, f, i)]
    <2>2. \A i \in 0 .. Rounds : h[i] = Layer(es, f, i)
      OBVIOUS
    <2>3. f = h
      BY <2>1
    <2> HIDE DEF h
    <2> QED BY <2>2, <2>3
  <1>4. 0 \in 0 .. Rounds
    BY RoundsNumber
  <1> QED BY <1>2, <1>3, <1>4 DEF Layer

\* What is reached is closed under the edges: the rounds are enough.
LEMMA ReachClosed ==
    ASSUME NEW es \in SUBSET Possible
    PROVE  /\ Start \in ReachableBlocks(es) /\ ReachableBlocks(es) \subseteq All
           /\ \A e \in es : e.from \in ReachableBlocks(es) => e.to \in ReachableBlocks(es)
  <1>1. PICK f : /\ ReachableBlocks(es) = f[Rounds]
                 /\ f[0] = {Start}
                 /\ \A i \in 0 .. Rounds : i # 0 => f[i] = Step(es, f[i - 1])
    BY LayersOf
  <1>2. \A e \in es : e.from \in All /\ e.to \in All
    BY EdgesAssumption DEF All
  <1>3. \A s : s \subseteq Step(es, s) /\ (s \subseteq All => Step(es, s) \subseteq All)
    BY <1>2 DEF Step
  <1> DEFINE Grown(i) == /\ Start \in f[i] /\ f[i] \subseteq All
                         /\ Step(es, f[i]) = f[i] \/ Cardinality(f[i]) >= i + 1
             T == {i \in Nat : i =< Rounds => Grown(i)}
  <1>4. 0 \in T
    <2>1. Cardinality({Start}) = 1
      BY FS_Singleton
    <2> QED BY <1>1, <2>1 DEF All
  <1>5. ASSUME NEW i \in Nat, i \in T PROVE i + 1 \in T
    <2> SUFFICES ASSUME i + 1 =< Rounds PROVE Grown(i + 1)
      OBVIOUS
    <2>1. Grown(i)
      BY <1>5, RoundsNumber
    <2>2. f[i + 1] = Step(es, f[i])
      <3>1. i + 1 \in 0 .. Rounds /\ i + 1 # 0 /\ (i + 1) - 1 = i
        BY RoundsNumber
      <3> QED BY <1>1, <3>1
    <2>3. Start \in f[i + 1] /\ f[i + 1] \subseteq All /\ f[i] \subseteq f[i + 1]
      BY <1>3, <2>1, <2>2
    <2>4. CASE Step(es, f[i]) = f[i]
      BY <2>1, <2>2, <2>3, <2>4
    <2>5. CASE Step(es, f[i]) # f[i]
      <3>1. IsFiniteSet(f[i + 1])
        BY <2>3, RoundsNumber, FS_Subset
      <3>2. f[i] # f[i + 1]
        BY <2>2, <2>5
      <3>3. /\ Cardinality(f[i]) < Cardinality(f[i + 1]) /\ Cardinality(f[i]) \in Nat
            /\ Cardinality(f[i + 1]) \in Nat
        BY <2>3, <3>1, <3>2, FS_Subset, FS_CardinalityType
      <3>4. Cardinality(f[i]) >= i + 1
        BY <2>1, <2>5
      <3>5. Cardinality(f[i + 1]) >= (i + 1) + 1
        BY <3>3, <3>4
      <3> QED BY <2>3, <3>5
    <2> QED BY <2>4, <2>5
  <1>6. Rounds \in T
    <2> HIDE DEF T
    <2> QED BY <1>4, <1>5, AllNumbers, RoundsNumber
  <1>7. Grown(Rounds)
    BY <1>6, RoundsNumber
  <1>8. Step(es, f[Rounds]) = f[Rounds]
    <2>1. CASE Cardinality(f[Rounds]) >= Rounds + 1
      <3>1. f[Rounds] = All
        <4>1. f[Rounds] \subseteq All
          BY <1>7
        <4>2. /\ Cardinality(f[Rounds]) =< Cardinality(All)
              /\ Cardinality(All) = Cardinality(f[Rounds]) => All = f[Rounds]
          BY <4>1, RoundsNumber, FS_Subset
        <4>3. Cardinality(f[Rounds]) \in Nat
          BY <4>1, RoundsNumber, FS_Subset, FS_CardinalityType
        <4> QED BY <2>1, <4>2, <4>3, RoundsNumber
      <3> QED BY <1>3, <3>1
    <2> QED BY <1>7, <2>1
  <1>9. \A e \in es : e.from \in f[Rounds] => e.to \in f[Rounds]
    BY <1>8 DEF Step
  <1> QED BY <1>1, <1>7, <1>9

\* And it is the least such set.
LEMMA ReachLeast ==
    ASSUME NEW es \in SUBSET Possible, NEW s, Start \in s,
           \A e \in es : e.from \in s => e.to \in s
    PROVE  ReachableBlocks(es) \subseteq s
  <1>1. PICK f : /\ ReachableBlocks(es) = f[Rounds]
                 /\ f[0] = {Start}
                 /\ \A i \in 0 .. Rounds : i # 0 => f[i] = Step(es, f[i - 1])
    BY LayersOf
  <1> DEFINE T == {i \in Nat : i =< Rounds => f[i] \subseteq s}
  <1>2. 0 \in T
    BY <1>1
  <1>3. ASSUME NEW i \in Nat, i \in T PROVE i + 1 \in T
    <2> SUFFICES ASSUME i + 1 =< Rounds PROVE f[i + 1] \subseteq s
      OBVIOUS
    <2>1. f[i] \subseteq s
      BY <1>3, RoundsNumber
    <2>2. f[i + 1] = Step(es, f[i])
      <3>1. i + 1 \in 0 .. Rounds /\ i + 1 # 0 /\ (i + 1) - 1 = i
        BY RoundsNumber
      <3> QED BY <1>1, <3>1
    <2> QED BY <2>1, <2>2 DEF Step
  <1>4. Rounds \in T
    <2> HIDE DEF T
    <2> QED BY <1>2, <1>3, AllNumbers, RoundsNumber
  <1> QED BY <1>1, <1>4, RoundsNumber

\* A node without edges from others is not reached.
LEMMA Unreached ==
    ASSUME NEW es \in SUBSET Possible, NEW n, n # Start,
           \A e \in es : e.to = n => e.from = n
    PROVE  n \notin ReachableBlocks(es)
  <1> DEFINE s == ReachableBlocks(es) \ {n}
  <1>1. Start \in s /\ \A e \in es : e.from \in s => e.to \in s
    BY ReachClosed
  <1> HIDE DEF s
  <1>2. ReachableBlocks(es) \subseteq s
    BY <1>1, ReachLeast
  <1> QED BY <1>2 DEF s

\* More edges reach more.
LEMMA ReachGrows ==
    ASSUME NEW fs \in SUBSET Possible, NEW es \in SUBSET fs
    PROVE  ReachableBlocks(es) \subseteq ReachableBlocks(fs)
  <1>1. es \in SUBSET Possible
    OBVIOUS
  <1>2. /\ Start \in ReachableBlocks(fs)
        /\ \A e \in es : e.from \in ReachableBlocks(fs) => e.to \in ReachableBlocks(fs)
    BY ReachClosed
  <1> QED BY <1>1, <1>2, ReachLeast

\* Edges from nodes that are not reached make no difference.
LEMMA ReachSpared ==
    ASSUME NEW es \in SUBSET Possible, NEW D, \A d \in D : d.from \notin ReachableBlocks(es)
    PROVE  ReachableBlocks(es \ D) = ReachableBlocks(es)
  <1> DEFINE fs == es \ D
  <1>1. fs \in SUBSET Possible /\ fs \in SUBSET es
    OBVIOUS
  <1>2. ReachableBlocks(fs) \subseteq ReachableBlocks(es)
    BY <1>1, ReachGrows
  <1>3. Start \in ReachableBlocks(fs)
        /\ \A e \in fs : e.from \in ReachableBlocks(fs) => e.to \in ReachableBlocks(fs)
    BY <1>1, ReachClosed
  <1>4. \A e \in es : e.from \in ReachableBlocks(fs) => e.to \in ReachableBlocks(fs)
    BY <1>2, <1>3
  <1> HIDE DEF fs
  <1>5. ReachableBlocks(es) \subseteq ReachableBlocks(fs)
    BY <1>3, <1>4, ReachLeast
  <1> QED BY <1>2, <1>5 DEF fs

\* Ends of edges; and what unreachableOrphan finds out.
LEMMA EdgeEnds ==
    ASSUME NEW es \in SUBSET Possible
    PROVE  /\ \A e \in es : /\ e.from \in Blocks \cup {Start} /\ e.to \in Blocks \cup {End}
                            /\ e.from # End /\ e.to # Start
           /\ \A n : Orphan(es, n) <=> n # End /\ \A e \in es : e.to = n => e.from = n
  <1>1. \A e \in es : /\ e.from \in Blocks \cup {Start} /\ e.to \in Blocks \cup {End}
                      /\ e.from # End /\ e.to # Start
    BY EdgesAssumption, NodesAssumption
  <1>2. \A e, f \in es : e.from = f.from /\ e.to = f.to => e = f
    BY EdgesAssumption
  <1>3. ASSUME NEW n, Orphan(es, n) PROVE n # End /\ \A e \in es : e.to = n => e.from = n
    BY <1>1, <1>3 DEF Orphan, In
  <1>4. ASSUME NEW n, n # End, \A e \in es : e.to = n => e.from = n PROVE Orphan(es, n)
    <2>1. CASE In(es, n) = {}
      BY <1>4, <2>1 DEF Orphan
    <2>2. CASE In(es, n) # {}
      <3>1. PICK e \in es : e.to = n /\ e.from = n
        BY <1>4, <2>2 DEF In
      <3>2. In(es, n) = {e}
        BY <1>2, <1>4, <3>1 DEF In
      <3> QED BY <3>1, <3>2 DEF Orphan
    <2> QED BY <2>1, <2>2
  <1> QED BY <1>1, <1>3, <1>4

-----------------------------------------------------------------------------
(***************************************************************************)
(* The inductive invariant                                                 *)
(***************************************************************************)

WalkRecord == [queue : SUBSET Blocks, visited : SUBSET Blocks, remove : SUBSET Blocks]
CurrentRecord == [node : Blocks, which : {"successors", "predecessors"}]

\* Types, also of what a removal keeps.
Types ==
  /\ TypeOK /\ IsFiniteSet(edges)
  /\ walk = None \/ walk \in WalkRecord
  /\ current = None \/ current \in CurrentRecord
  /\ pending = None \/ pending \in SUBSET Blocks

\* Node n has no edge from another node.
Severed(es, n) == \A e \in es : e.to = n => e.from = n

\* A node that a walk is about to remove.
InWalk(w, n) == w # None /\ n \in w.remove

\* What a walk removes has no edges from others, and none at all once visited.
WalkInv ==
  walk # None => /\ mightHave
                 /\ walk.remove = walk.queue \cup walk.visited
                 /\ \A n \in walk.remove : Severed(edges, n)
                 /\ \A n \in walk.visited : Out(edges, n) = {}

\* A node whose successors are cut is out of the graph and nothing leads to
\* it; one whose predecessors are cut is removed by a walk when the last is.
CurrentInv ==
  /\ current # None /\ current.which = "successors" =>
       current.node \notin nodes /\ In(edges, current.node) = {}
  /\ current # None /\ current.which = "predecessors" =>
       /\ pending # None /\ current.node \notin ReachableBlocks(edges)
       /\ current.node \in nodes =>
            In(edges, current.node) # {} \/ InWalk(walk, current.node)

\* Edges connect nodes of the graph, but for those that are being cut.
EdgesInv ==
  \A e \in edges :
    /\ e.to \in nodes
    /\ e.from \in nodes
       \/ (current # None /\ current.which = "successors" /\ e.from = current.node)

\* An orphan is being walked.
OrphansInv ==
  \A n \in (nodes \cap connected) \ {Start, End} : Severed(edges, n) => InWalk(walk, n)

\* What cannot be reached has been noted, also within a removal.
NotedInv ==
  mightHave \/ \A n \in (nodes \cap connected) \ {End} : n \in ReachableBlocks(edges)

\* What a sweep has still to remove is all that the start does not reach.
SweepInv ==
  pending # None =>
    /\ pending \cap ReachableBlocks(edges) = {}
    /\ \A n \in nodes \ {End} :
         \/ n \in ReachableBlocks(edges)
         \/ n \in pending
         \/ current # None /\ current.which = "predecessors" /\ n = current.node

Inv == Types /\ WalkInv /\ CurrentInv /\ EdgesInv /\ OrphansInv /\ NotedInv /\ SweepInv

-----------------------------------------------------------------------------
(***************************************************************************)
(* Cutting edges                                                           *)
(***************************************************************************)

\* The steps that cut the edges D keep the invariant, if the nodes which lose
\* their last edge from another node are given to the walk and a sweep loses
\* nothing that is reached.
LEMMA CutKeeps ==
    ASSUME Inv, NEW D, edges' = edges \ D, numEdges' = Cardinality(edges \ D),
           mightHave' = TRUE, UNCHANGED << nodes, current, pending, connected >>,
           walk' = None \/ walk' \in WalkRecord, WalkInv',
           \A n \in Blocks : InWalk(walk, n) => InWalk(walk', n),
           \A d \in D : d.to \in Blocks /\ Severed(edges', d.to) => InWalk(walk', d.to),
           pending # None => \A d \in D : d.from \notin ReachableBlocks(edges)
    PROVE  Inv'
  <1>1. edges \in SUBSET Possible /\ nodes \subseteq All
    BY DEF Inv, Types, TypeOK, All
  <1>2. Types'
    <2>1. IsFiniteSet(edges')
      BY FS_Subset DEF Inv, Types
    <2> QED BY <2>1 DEF Inv, Types, TypeOK
  <1>3. pending # None => ReachableBlocks(edges') = ReachableBlocks(edges)
    BY <1>1, ReachSpared
  <1>4. EdgesInv'
    BY DEF Inv, EdgesInv
  <1>5. OrphansInv'
    <2> SUFFICES ASSUME NEW n \in (nodes \cap connected) \ {Start, End}, Severed(edges', n)
                 PROVE  InWalk(walk', n)
      BY DEF OrphansInv
    <2>1. n \in Blocks
      BY <1>1 DEF All
    <2>2. CASE Severed(edges, n)
      BY <2>1, <2>2 DEF Inv, OrphansInv
    <2>3. CASE ~Severed(edges, n)
      <3>1. PICK e \in edges : e.to = n /\ e.from # n
        BY <2>3 DEF Severed
      <3>2. e \in D
        BY <3>1 DEF Severed
      <3> QED BY <2>1, <3>1, <3>2
    <2> QED BY <2>2, <2>3
  <1>6. CurrentInv'
    <2>1. ASSUME current # None, current.which = "successors"
          PROVE  current.node \notin nodes /\ In(edges', current.node) = {}
      BY <2>1 DEF Inv, CurrentInv, In
    <2>2. ASSUME current # None, current.which = "predecessors"
          PROVE  /\ pending # None /\ current.node \notin ReachableBlocks(edges')
                 /\ current.node \in nodes =>
                      In(edges', current.node) # {} \/ InWalk(walk', current.node)
      <3>1. /\ pending # None /\ current.node \notin ReachableBlocks(edges)
            /\ current.node \in nodes =>
                 In(edges, current.node) # {} \/ InWalk(walk, current.node)
        BY <2>2 DEF Inv, CurrentInv
      <3>2. current.node \in Blocks
        BY <2>2 DEF Inv, Types, CurrentRecord
      <3>3. ASSUME In(edges, current.node) # {}, In(edges', current.node) = {}
            PROVE  InWalk(walk', current.node)
        <4>1. PICK e \in edges : e.to = current.node
          BY <3>3 DEF In
        <4>2. e \in D
          BY <3>3, <4>1 DEF In
        <4>3. Severed(edges', current.node)
          BY <3>3 DEF In, Severed
        <4> QED BY <3>2, <4>1, <4>2, <4>3
      <3> QED BY <1>3, <3>1, <3>2, <3>3
    <2> QED BY <2>1, <2>2 DEF CurrentInv
  <1>7. NotedInv'
    BY DEF NotedInv
  <1>8. SweepInv'
    BY <1>3 DEF Inv, SweepInv
  <1> QED BY <1>2, <1>4, <1>5, <1>6, <1>7, <1>8 DEF Inv

\* Nodes in a walk are not reached.
LEMMA WalkedUnreached ==
    ASSUME Inv, NEW n, InWalk(walk, n)
    PROVE  n \in Blocks /\ n \notin ReachableBlocks(edges)
  <1>1. n \in Blocks /\ Severed(edges, n)
    BY DEF InWalk, Inv, Types, WalkRecord, WalkInv
  <1> QED BY <1>1, NodesAssumption, Unreached DEF Severed, Inv, Types, TypeOK

\* removeEdge up to its walk.
LEMMA RemoveEdgeKeeps ==
    ASSUME Inv, walk = None, NEW e \in Possible, RemoveEdge(e),
           UNCHANGED << nodes, current, pending, connected >>,
           pending # None => e.from \notin ReachableBlocks(edges)
    PROVE  Inv'
  <1>1. /\ edges \in SUBSET Possible /\ IsFiniteSet(edges) /\ numEdges = Cardinality(edges)
    BY DEF Inv, Types, TypeOK
  <1>2. /\ mightHave' = TRUE /\ edges' = edges \ {e}
        /\ numEdges' = IF e \in edges THEN numEdges - 1 ELSE numEdges
        /\ walk' = IF e \in edges /\ Orphan(edges', e.to)
                   THEN [queue |-> {e.to}, visited |-> {}, remove |-> {e.to}] ELSE None
    BY DEF RemoveEdge
  <1>3. edges' \in SUBSET Possible
    BY <1>1, <1>2
  <1>4. numEdges' = Cardinality(edges \ {e})
    <2>1. CASE e \in edges
      BY <1>1, <1>2, <2>1, FS_RemoveElement
    <2>2. CASE e \notin edges
      <3>1. edges \ {e} = edges
        BY <2>2
      <3> QED BY <1>1, <1>2, <2>2, <3>1
    <2> QED BY <2>1, <2>2
  <1>5. e.to \in Blocks \cup {End}
    BY <1>1, EdgesAssumption
  <1>6. ASSUME walk' = None \/ walk' \in WalkRecord, WalkInv',
               \A n \in Blocks : InWalk(walk, n) => InWalk(walk', n),
               \A d \in {e} : d.to \in Blocks /\ Severed(edges', d.to) => InWalk(walk', d.to)
        PROVE  Inv'
    <2> DEFINE D == {e}
    <2>1. /\ edges' = edges \ D /\ numEdges' = Cardinality(edges \ D)
          /\ \A d \in D : d.to \in Blocks /\ Severed(edges', d.to) => InWalk(walk', d.to)
          /\ pending # None => \A d \in D : d.from \notin ReachableBlocks(edges)
      BY <1>2, <1>4, <1>6
    <2> HIDE DEF D
    <2> QED BY <1>2, <1>6, <2>1, CutKeeps
  <1>7. CASE e \in edges /\ Orphan(edges', e.to)
    <2>1. walk' = [queue |-> {e.to}, visited |-> {}, remove |-> {e.to}]
      BY <1>2, <1>7
    <2>2. e.to # End /\ Severed(edges', e.to)
      BY <1>3, <1>7, EdgeEnds DEF Severed
    <2>3. e.to \in Blocks /\ {e.to} \in SUBSET Blocks /\ {} \in SUBSET Blocks
      BY <1>5, <2>2
    <2>4. walk' \in WalkRecord /\ walk' # None
      BY <2>1, <2>3, NoneAssumption DEF WalkRecord
    <2>5. walk'.queue = {e.to} /\ walk'.visited = {} /\ walk'.remove = {e.to}
      BY <2>1
    <2>6. WalkInv'
      BY <1>2, <2>2, <2>5 DEF WalkInv
    <2>7. \A d \in {e} : d.to \in Blocks /\ Severed(edges', d.to) => InWalk(walk', d.to)
      BY <2>4, <2>5 DEF InWalk
    <2>8. \A n \in Blocks : InWalk(walk, n) => InWalk(walk', n)
      BY DEF InWalk
    <2> QED BY <1>6, <2>4, <2>6, <2>7, <2>8
  <1>8. CASE ~(e \in edges /\ Orphan(edges', e.to))
    <2>1. walk' = None
      BY <1>2, <1>8
    <2>2. WalkInv'
      BY <2>1 DEF WalkInv
    <2>3. \A n \in Blocks : InWalk(walk, n) => InWalk(walk', n)
      BY DEF InWalk
    <2>4. CASE e \in edges
      <3>1. \A d \in {e} : d.to \in Blocks /\ Severed(edges', d.to) => InWalk(walk', d.to)
        BY <1>3, <1>8, <2>4, EdgeEnds, NodesAssumption DEF Severed
      <3> QED BY <1>6, <2>1, <2>2, <2>3, <3>1
    <2>5. CASE e \notin edges
      <3>1. edges' = edges \ {} /\ edges \ {e} = edges \ {}
        BY <1>2, <2>5
      <3> QED BY <1>2, <1>4, <2>1, <2>2, <2>3, <3>1, CutKeeps
    <2> QED BY <2>4, <2>5
  <1> QED BY <1>7, <1>8

\* The edges a round of the walk cuts come from a node that is not reached.
LEMMA WalkCuts ==
    ASSUME Inv, NEW n \in Blocks, WalkNode(n)
    PROVE  /\ InWalk(walk, n) /\ edges' = edges \ Out(edges, n)
           /\ \A d \in Out(edges, n) : d.from \notin ReachableBlocks(edges)
  <1>1. InWalk(walk, n)
    BY DEF WalkNode, InWalk, Inv, WalkInv
  <1> QED BY <1>1, WalkedUnreached DEF WalkNode, Walked, Out

\* One round of the walk.
LEMMA WalkNodeKeeps ==
    ASSUME Inv, NEW n \in Blocks, WalkNode(n)
    PROVE  Inv'
  <1> DEFINE D == Out(edges, n)
             seen == walk.visited \cup {n}
             orphans == {e.to : e \in {f \in D : Orphan(edges', f.to)}} \ seen
  <1>1. /\ walk # None /\ n \in walk.queue
        /\ edges' = edges \ D /\ numEdges' = numEdges - Cardinality(D)
        /\ walk' = [queue |-> (walk.queue \ {n}) \cup orphans, visited |-> seen,
                    remove |-> walk.remove \cup orphans]
        /\ UNCHANGED << nodes, mightHave, current, pending, connected >>
    BY DEF WalkNode, Walked, CountWalked
  <1>2. /\ edges \in SUBSET Possible /\ IsFiniteSet(edges) /\ numEdges = Cardinality(edges)
        /\ walk \in WalkRecord /\ mightHave
    BY <1>1 DEF Inv, Types, TypeOK, WalkInv
  <1>3. edges' \in SUBSET Possible /\ D \in SUBSET edges
    BY <1>1, <1>2 DEF Out
  <1>4. numEdges' = Cardinality(edges \ D)
    <2>1. edges \cap D = D
      BY <1>3
    <2>2. Cardinality(edges \ D) = Cardinality(edges) - Cardinality(edges \cap D)
      BY <1>2, FS_Difference
    <2> QED BY <1>1, <1>2, <2>1, <2>2
  <1>5. orphans \subseteq Blocks /\ \A m \in orphans : Severed(edges', m)
    <2> SUFFICES ASSUME NEW m \in orphans PROVE m \in Blocks /\ Severed(edges', m)
      OBVIOUS
    <2>1. PICK f \in D : m = f.to /\ Orphan(edges', f.to)
      OBVIOUS
    <2>2. f.to \in Blocks \cup {End}
      BY <1>2, <1>3, <2>1, EdgeEnds
    <2> QED BY <1>3, <2>1, <2>2, EdgeEnds DEF Severed
  <1>6. /\ walk.queue \in SUBSET Blocks /\ walk.visited \in SUBSET Blocks
        /\ walk.remove \in SUBSET Blocks /\ walk.remove = walk.queue \cup walk.visited
        /\ \A m \in walk.remove : Severed(edges, m)
        /\ \A m \in walk.visited : Out(edges, m) = {}
    BY <1>1, <1>2 DEF WalkRecord, Inv, WalkInv
  <1>7. \A d \in D : d.to \in Blocks /\ Severed(edges', d.to) =>
                       d.to \in walk.remove \cup orphans
    <2> SUFFICES ASSUME NEW d \in D, d.to \in Blocks, Severed(edges', d.to)
                 PROVE  d.to \in walk.remove \cup orphans
      OBVIOUS
    <2>1. d.to # End
      BY NodesAssumption
    <2>2. Orphan(edges', d.to)
      BY <1>3, <2>1, EdgeEnds DEF Severed
    <2>3. d.to \in orphans \cup seen
      BY <2>2
    <2> QED BY <1>1, <1>6, <2>3
  <1> HIDE DEF orphans
  <1>8. walk' \in WalkRecord /\ walk' # None
    <2>1. /\ (walk.queue \ {n}) \cup orphans \in SUBSET Blocks /\ seen \in SUBSET Blocks
          /\ walk.remove \cup orphans \in SUBSET Blocks
      BY <1>5, <1>6
    <2> HIDE DEF seen
    <2> QED BY <1>1, <2>1, NoneAssumption DEF WalkRecord
  <1>9. /\ walk'.queue = (walk.queue \ {n}) \cup orphans /\ walk'.visited = seen
        /\ walk'.remove = walk.remove \cup orphans
    BY <1>1
  <1>10. WalkInv'
    <2>1. walk'.remove = walk'.queue \cup walk'.visited
      BY <1>1, <1>6, <1>9
    <2>2. \A m \in walk'.remove : Severed(edges', m)
      BY <1>1, <1>5, <1>6, <1>9 DEF Severed
    <2>3. \A m \in walk'.visited : Out(edges', m) = {}
      BY <1>1, <1>6, <1>9 DEF Out
    <2> QED BY <1>1, <1>2, <2>1, <2>2, <2>3 DEF WalkInv
  <1>11. \A m \in Blocks : InWalk(walk, m) => InWalk(walk', m)
    BY <1>8, <1>9 DEF InWalk
  <1>12. \A d \in D : d.to \in Blocks /\ Severed(edges', d.to) => InWalk(walk', d.to)
    BY <1>7, <1>8, <1>9 DEF InWalk
  <1>13. \A d \in D : d.from \notin ReachableBlocks(edges)
    BY WalkCuts
  <1>14. mightHave' = TRUE
    BY <1>1, <1>2 DEF Inv, Types, TypeOK
  <1> HIDE DEF D
  <1> QED BY <1>1, <1>4, <1>8, <1>10, <1>11, <1>12, <1>13, <1>14, CutKeeps

\* A client removes an edge.
LEMMA BeginRemoveEdgeKeeps ==
    ASSUME Inv, NEW e \in Possible, BeginRemoveEdge(e)
    PROVE  Inv'
  BY RemoveEdgeKeeps DEF BeginRemoveEdge, Idle

\* The edges a loop over the current node's lists cuts come from nodes that
\* are not reached.
LEMMA CutUnreached ==
    ASSUME Inv, current # None, walk = None, NEW e \in NextToCut
    PROVE  e \in edges /\ e \in Possible /\ e.from \notin ReachableBlocks(edges)
  <1>1. edges \in SUBSET Possible /\ current \in CurrentRecord
    BY DEF Inv, Types, TypeOK
  <1>2. current.node \in Blocks /\ current.node # Start
    BY <1>1, NodesAssumption DEF CurrentRecord
  <1>3. CASE current.which = "successors"
    <2>1. e \in edges /\ e.from = current.node
      BY <1>3 DEF NextToCut, Out
    <2>2. \A f \in edges : f.to # current.node
      BY <1>3 DEF Inv, CurrentInv, In
    <2>3. current.node \notin ReachableBlocks(edges)
      BY <1>1, <1>2, <2>2, Unreached
    <2> QED BY <1>1, <2>1, <2>3
  <1>4. CASE current.which # "successors"
    <2>1. e \in edges /\ e.to = current.node
      BY <1>4 DEF NextToCut, In
    <2>2. current.which = "predecessors"
      BY <1>1, <1>4 DEF CurrentRecord
    <2>3. current.node \notin ReachableBlocks(edges)
      BY <2>2 DEF Inv, CurrentInv
    <2> QED BY <1>1, <2>1, <2>3, ReachClosed
  <1> QED BY <1>3, <1>4

\* One round of such a loop.
LEMMA CutEdgeKeeps ==
    ASSUME Inv, CutEdge
    PROVE  Inv'
  <1>1. PICK e \in NextToCut : RemoveEdge(e)
    BY DEF CutEdge
  <1>2. current # None /\ walk = None /\ UNCHANGED << nodes, current, pending, connected >>
    BY DEF CutEdge
  <1>3. e \in Possible /\ e.from \notin ReachableBlocks(edges)
    BY <1>2, CutUnreached
  <1> QED BY <1>1, <1>2, <1>3, RemoveEdgeKeeps

-----------------------------------------------------------------------------
(***************************************************************************)
(* The other steps                                                         *)
(***************************************************************************)

\* A new block has no edges and has not been reached.
LEMMA AddNodeKeeps ==
    ASSUME Inv, NEW b \in Blocks, AddNode(b)
    PROVE  Inv'
  <1>1. /\ Idle /\ b \notin nodes /\ nodes' = nodes \cup {b} /\ connected' = connected \ {b}
        /\ UNCHANGED << edges, numEdges, mightHave, walk, current, pending >>
    BY DEF AddNode
  <1>2. walk = None /\ current = None /\ pending = None
    BY <1>1 DEF Idle
  <1>3. Types'
    BY <1>1 DEF Inv, Types, TypeOK
  <1>4. WalkInv' /\ CurrentInv' /\ SweepInv'
    BY <1>1, <1>2 DEF WalkInv, CurrentInv, SweepInv
  <1>5. EdgesInv'
    BY <1>1, <1>2 DEF Inv, EdgesInv
  <1>6. OrphansInv' /\ NotedInv'
    BY <1>1, <1>2 DEF Inv, OrphansInv, NotedInv
  <1> QED BY <1>3, <1>4, <1>5, <1>6 DEF Inv

\* A new edge reaches more, and what it reaches is no orphan.
LEMMA AddEdgeKeeps ==
    ASSUME Inv, NEW e \in Possible, AddEdge(e)
    PROVE  Inv'
  <1>1. /\ Idle /\ e \notin edges /\ e.from \in nodes /\ e.to \in nodes
        /\ edges' = edges \cup {e} /\ numEdges' = numEdges + 1
        /\ connected' = connected \cup ReachableBlocks(edges')
        /\ UNCHANGED << nodes, mightHave, walk, current, pending >>
    BY DEF AddEdge
  <1>2. walk = None /\ current = None /\ pending = None
    BY <1>1 DEF Idle
  <1>3. /\ edges \in SUBSET Possible /\ IsFiniteSet(edges) /\ numEdges = Cardinality(edges)
        /\ edges' \in SUBSET Possible
    BY <1>1 DEF Inv, Types, TypeOK
  <1>4. Types'
    <2>1. IsFiniteSet(edges') /\ numEdges' = Cardinality(edges')
      BY <1>1, <1>3, FS_AddElement
    <2>2. connected' \subseteq Blocks \cup {Start, End}
      BY <1>1, <1>3, ReachClosed DEF Inv, Types, TypeOK, All
    <2> QED BY <1>1, <1>3, <2>1, <2>2 DEF Inv, Types, TypeOK
  <1>5. WalkInv' /\ CurrentInv' /\ SweepInv'
    BY <1>1, <1>2 DEF WalkInv, CurrentInv, SweepInv
  <1>6. EdgesInv'
    BY <1>1, <1>2 DEF Inv, EdgesInv
  <1>7. OrphansInv'
    <2> SUFFICES ASSUME NEW n \in (nodes \cap connected') \ {Start, End}, Severed(edges', n)
                 PROVE  FALSE
      BY <1>1 DEF OrphansInv
    <2>1. n \notin ReachableBlocks(edges')
      BY <1>3, Unreached DEF Severed
    <2>2. n \in connected /\ Severed(edges, n)
      BY <1>1, <2>1 DEF Severed
    <2>3. InWalk(walk, n)
      BY <2>2 DEF Inv, OrphansInv
    <2> QED BY <1>2, <2>3 DEF InWalk
  <1>8. NotedInv'
    <2>1. ReachableBlocks(edges) \subseteq ReachableBlocks(edges')
      BY <1>1, <1>3, ReachGrows
    <2> QED BY <1>1, <2>1 DEF Inv, NotedInv
  <1> QED BY <1>4, <1>5, <1>6, <1>7, <1>8 DEF Inv

\* The end of a walk: what it removes has lost all its edges.
LEMMA FinishWalkKeeps ==
    ASSUME Inv, FinishWalk
    PROVE  Inv'
  <1>1. /\ walk # None /\ walk.queue = {} /\ nodes' = nodes \ walk.remove /\ walk' = None
        /\ UNCHANGED << edges, numEdges, mightHave, current, pending, connected >>
    BY DEF FinishWalk
  <1>2. walk.remove \subseteq Blocks
    BY <1>1 DEF Inv, Types, WalkRecord
  <1>3. /\ mightHave
        /\ \A n \in walk.remove : Severed(edges, n) /\ Out(edges, n) = {}
    BY <1>1 DEF Inv, WalkInv
  <1>4. \A e \in edges : e.from \notin walk.remove /\ e.to \notin walk.remove
    BY <1>3 DEF Severed, Out
  <1>5. Types'
    BY <1>1, <1>2, NodesAssumption DEF Inv, Types, TypeOK
  <1>6. WalkInv' /\ NotedInv'
    BY <1>1, <1>3 DEF WalkInv, NotedInv
  <1>7. EdgesInv'
    BY <1>1, <1>4 DEF Inv, EdgesInv
  <1>8. CurrentInv' /\ SweepInv'
    BY <1>1 DEF Inv, CurrentInv, SweepInv, InWalk
  <1>9. OrphansInv'
    BY <1>1 DEF Inv, OrphansInv, InWalk
  <1> QED BY <1>5, <1>6, <1>7, <1>8, <1>9 DEF Inv

\* A node without edges to it leaves the graph, its own edges remain for a
\* while.
LEMMA BeginRemoveNodeKeeps ==
    ASSUME Inv, NEW n \in Blocks, BeginRemoveNode(n)
    PROVE  Inv'
  <1>1. /\ Idle /\ n \in nodes /\ In(edges, n) = {} /\ nodes' = nodes \ {n}
        /\ current' = [node |-> n, which |-> "successors"]
        /\ UNCHANGED << edges, numEdges, mightHave, walk, pending, connected >>
    BY DEF BeginRemoveNode
  <1>2. walk = None /\ current = None /\ pending = None
    BY <1>1 DEF Idle
  <1>3. /\ current' \in CurrentRecord /\ current' # None
        /\ current'.node = n /\ current'.which = "successors"
    BY <1>1, NoneAssumption DEF CurrentRecord
  <1>4. Types'
    BY <1>1, <1>3, NodesAssumption DEF Inv, Types, TypeOK
  <1>5. WalkInv' /\ SweepInv' /\ OrphansInv' /\ NotedInv'
    BY <1>1, <1>2 DEF Inv, WalkInv, SweepInv, OrphansInv, NotedInv
  <1>6. CurrentInv'
    BY <1>1, <1>3 DEF CurrentInv
  <1>7. EdgesInv'
    BY <1>1, <1>2, <1>3 DEF Inv, EdgesInv, In
  <1> QED BY <1>4, <1>5, <1>6, <1>7 DEF Inv

\* A node whose lists are empty is done with; if its predecessors were cut, a
\* walk has removed it.
LEMMA FinishNodeKeeps ==
    ASSUME Inv, FinishNode
    PROVE  Inv'
  <1>1. /\ current # None /\ walk = None /\ NextToCut = {} /\ current' = None
        /\ UNCHANGED << nodes, edges, numEdges, mightHave, walk, pending, connected >>
    BY DEF FinishNode
  <1>2. current.which = "successors" => Out(edges, current.node) = {}
    BY <1>1 DEF NextToCut
  <1>3. current.which = "predecessors" => current.node \notin nodes
    <2>1. current.which = "predecessors" => In(edges, current.node) = {}
      BY <1>1 DEF NextToCut
    <2> QED BY <1>1, <2>1 DEF Inv, CurrentInv, InWalk
  <1>4. Types'
    BY <1>1 DEF Inv, Types, TypeOK
  <1>5. WalkInv' /\ CurrentInv' /\ OrphansInv' /\ NotedInv'
    BY <1>1 DEF Inv, WalkInv, CurrentInv, OrphansInv, NotedInv
  <1>6. EdgesInv'
    BY <1>1, <1>2 DEF Inv, EdgesInv, Out
  <1>7. SweepInv'
    BY <1>1, <1>3 DEF Inv, SweepInv
  <1> QED BY <1>4, <1>5, <1>6, <1>7 DEF Inv

\* The nodes a sweep collects.
LEMMA BeginSweepKeeps ==
    ASSUME Inv, BeginSweep
    PROVE  Inv'
  <1>1. /\ Idle /\ pending' = nodes \ (ReachableBlocks(edges) \cup {End})
        /\ UNCHANGED << nodes, edges, numEdges, mightHave, walk, current, connected >>
    BY DEF BeginSweep, UnreachableNodes
  <1>2. walk = None /\ current = None
    BY <1>1 DEF Idle
  <1>3. pending' \in SUBSET Blocks
    BY <1>1, ReachClosed DEF Inv, Types, TypeOK
  <1>4. Types'
    BY <1>1, <1>3 DEF Inv, Types, TypeOK
  <1>5. WalkInv' /\ CurrentInv' /\ EdgesInv' /\ OrphansInv' /\ NotedInv'
    BY <1>1, <1>2 DEF Inv, WalkInv, CurrentInv, EdgesInv, OrphansInv, NotedInv
  <1>6. SweepInv'
    BY <1>1 DEF SweepInv
  <1> QED BY <1>4, <1>5, <1>6 DEF Inv

\* The next of them is removed, or its predecessors will be cut.
LEMMA SweepNodeKeeps ==
    ASSUME Inv, NEW n \in Blocks, SweepNode(n)
    PROVE  Inv'
  <1> DEFINE bare == In(edges, n) = {}
  <1>1. /\ pending # None /\ walk = None /\ current = None /\ n \in pending
        /\ pending' = pending \ {n}
        /\ current' = (CASE bare /\ n \notin nodes -> None
                         [] bare /\ n \in nodes -> [node |-> n, which |-> "successors"]
                         [] OTHER -> [node |-> n, which |-> "predecessors"])
        /\ nodes' = IF bare THEN nodes \ {n} ELSE nodes
        /\ UNCHANGED << edges, numEdges, mightHave, walk, connected >>
    BY DEF SweepNode, Popped
  <1>2. pending \in SUBSET Blocks /\ pending' \in SUBSET Blocks /\ pending' # None
    BY <1>1, NoneAssumption DEF Inv, Types
  <1>3. n \notin ReachableBlocks(edges) /\ n # Start /\ n # End
    BY <1>1, NodesAssumption DEF Inv, SweepInv
  <1>4. \A m \in nodes \ {End} : m \in ReachableBlocks(edges) \/ m \in pending
    BY <1>1 DEF Inv, SweepInv
  <1>5. \A e \in edges : e.to \in nodes /\ e.from \in nodes
    BY <1>1 DEF Inv, EdgesInv
  <1>6. WalkInv'
    BY <1>1 DEF WalkInv
  <1>7. OrphansInv' /\ NotedInv'
    BY <1>1 DEF Inv, OrphansInv, NotedInv
  <1>8. pending' \cap ReachableBlocks(edges) = {}
    BY <1>1 DEF Inv, SweepInv
  <1>9. CASE bare /\ n \notin nodes
    <2>1. current' = None /\ nodes' = nodes
      BY <1>1, <1>9
    <2>2. Types'
      BY <1>1, <1>2, <2>1 DEF Inv, Types, TypeOK
    <2>3. CurrentInv' /\ EdgesInv'
      BY <1>1, <1>5, <2>1 DEF CurrentInv, EdgesInv
    <2>4. SweepInv'
      BY <1>1, <1>4, <1>8, <1>9, <2>1 DEF SweepInv
    <2> QED BY <1>6, <1>7, <2>2, <2>3, <2>4 DEF Inv
  <1>10. CASE bare /\ n \in nodes
    <2>1. current' = [node |-> n, which |-> "successors"] /\ nodes' = nodes \ {n}
      BY <1>1, <1>10
    <2>2. /\ current' \in CurrentRecord /\ current' # None
          /\ current'.node = n /\ current'.which = "successors"
      BY <2>1, NoneAssumption DEF CurrentRecord
    <2>3. Types'
      BY <1>1, <1>2, <1>3, <2>1, <2>2 DEF Inv, Types, TypeOK
    <2>4. CurrentInv'
      BY <1>1, <1>10, <2>1, <2>2 DEF CurrentInv
    <2>5. EdgesInv'
      BY <1>1, <1>5, <1>10, <2>1, <2>2 DEF EdgesInv, In
    <2>6. SweepInv'
      BY <1>1, <1>4, <1>8, <2>1 DEF SweepInv
    <2> QED BY <1>6, <1>7, <2>3, <2>4, <2>5, <2>6 DEF Inv
  <1>11. CASE ~bare
    <2>1. current' = [node |-> n, which |-> "predecessors"] /\ nodes' = nodes
      BY <1>1, <1>11
    <2>2. /\ current' \in CurrentRecord /\ current' # None
          /\ current'.node = n /\ current'.which = "predecessors"
      BY <2>1, NoneAssumption DEF CurrentRecord
    <2>3. Types'
      BY <1>1, <1>2, <2>1, <2>2 DEF Inv, Types, TypeOK
    <2>4. CurrentInv'
      BY <1>1, <1>2, <1>3, <1>11, <2>1, <2>2 DEF CurrentInv
    <2>5. EdgesInv'
      BY <1>1, <1>5, <2>1 DEF EdgesInv
    <2>6. SweepInv'
      BY <1>1, <1>4, <1>8, <2>1, <2>2 DEF SweepInv
    <2> QED BY <1>6, <1>7, <2>3, <2>4, <2>5, <2>6 DEF Inv
  <1> QED BY <1>9, <1>10, <1>11

\* The end of a sweep: only what is reached remains.
LEMMA FinishSweepKeeps ==
    ASSUME Inv, FinishSweep
    PROVE  Inv'
  <1>1. /\ pending = {} /\ walk = None /\ current = None /\ pending' = None
        /\ mightHave' = FALSE
        /\ UNCHANGED << nodes, edges, numEdges, walk, current, connected >>
    BY DEF FinishSweep
  <1>2. pending # None
    BY <1>1, NoneAssumption DEF Inv, Types
  <1>3. Types'
    BY <1>1 DEF Inv, Types, TypeOK
  <1>4. WalkInv' /\ CurrentInv' /\ EdgesInv' /\ OrphansInv' /\ SweepInv'
    BY <1>1 DEF Inv, WalkInv, CurrentInv, EdgesInv, OrphansInv, SweepInv
  <1>5. NotedInv'
    BY <1>1, <1>2 DEF Inv, SweepInv, NotedInv
  <1> QED BY <1>3, <1>4, <1>5 DEF Inv

-----------------------------------------------------------------------------
(***************************************************************************)
(* The theorems                                                            *)
(***************************************************************************)

\* The empty graph.
LEMMA InitInv ==
    ASSUME Init PROVE Inv
  <1>1. Types
    BY NodesAssumption, FS_EmptySet DEF Init, Types, TypeOK
  <1>2. Start \in ReachableBlocks(edges)
    <2>1. edges \in SUBSET Possible
      BY DEF Init
    <2> QED BY <2>1, ReachClosed
  <1>3. WalkInv /\ CurrentInv /\ EdgesInv /\ SweepInv
    BY DEF Init, WalkInv, CurrentInv, EdgesInv, SweepInv
  <1>4. OrphansInv /\ NotedInv
    BY <1>2 DEF Init, OrphansInv, NotedInv
  <1> QED BY <1>1, <1>3, <1>4 DEF Inv

\* Every step keeps the invariant.
LEMMA NextKeeps ==
    ASSUME Inv, [Next]_vars PROVE Inv'
  <1>1. CASE UNCHANGED vars
    <2>1. UNCHANGED << nodes, edges, numEdges, mightHave, walk, current, pending, connected >>
      BY <1>1 DEF vars
    <2> QED BY <2>1 DEF Inv, Types, TypeOK, WalkInv, CurrentInv, EdgesInv, OrphansInv,
                        NotedInv, SweepInv
  <1>2. ASSUME NEW b \in Blocks, AddNode(b) PROVE Inv'
    BY <1>2, AddNodeKeeps
  <1>3. ASSUME NEW e \in Possible, AddEdge(e) PROVE Inv'
    BY <1>3, AddEdgeKeeps
  <1>4. ASSUME NEW e \in Possible, BeginRemoveEdge(e) PROVE Inv'
    BY <1>4, BeginRemoveEdgeKeeps
  <1>5. ASSUME NEW n \in Blocks, BeginRemoveNode(n) PROVE Inv'
    BY <1>5, BeginRemoveNodeKeeps
  <1>6. CASE BeginSweep
    BY <1>6, BeginSweepKeeps
  <1>7. ASSUME NEW n \in Blocks, WalkNode(n) PROVE Inv'
    BY <1>7, WalkNodeKeeps
  <1>8. CASE FinishWalk
    BY <1>8, FinishWalkKeeps
  <1>9. CASE CutEdge
    BY <1>9, CutEdgeKeeps
  <1>10. CASE FinishNode
    BY <1>10, FinishNodeKeeps
  <1>11. ASSUME NEW n \in Blocks, SweepNode(n) PROVE Inv'
    BY <1>11, SweepNodeKeeps
  <1>12. CASE FinishSweep
    BY <1>12, FinishSweepKeeps
  <1> QED BY <1>1, <1>2, <1>3, <1>4, <1>5, <1>6, <1>7, <1>8, <1>9, <1>10, <1>11, <1>12
          DEF Next, Continue

\* So it holds always.
LEMMA InvAlways == Spec => []Inv
  <1>1. Init => Inv
    BY InitInv
  <1>2. Inv /\ [Next]_vars => Inv'
    BY NextKeeps
  <1> QED BY <1>1, <1>2, PTL DEF Spec

\* For any blocks and edges, between two calls the flow graph has no edge to a
\* block that was removed, every block that has been part of the method has an
\* edge from another one, and whatever can no longer be reached is gone or
\* _mightHaveUnreachableBlocks is set (removeEdge with its walk, removeNode and
\* removeUnreachableBlocks in any order).
THEOREM GraphAlwaysSound == Spec => []GraphSound
  <1>1. Inv => GraphSound
    <2> SUFFICES ASSUME Inv PROVE GraphSound
      OBVIOUS
    <2>1. TypeOK
      BY DEF Inv, Types
    <2>2. EdgesAreLive
      BY DEF Inv, EdgesInv, EdgesAreLive, Idle
    <2>3. NoOrphans
      BY DEF Inv, OrphansInv, NoOrphans, Idle, InWalk, Severed
    <2>4. UnreachableNoted
      BY DEF Inv, NotedInv, UnreachableNoted
    <2> QED BY <2>1, <2>2, <2>3, <2>4 DEF GraphSound
  <1> QED BY <1>1, InvAlways, PTL

\* Cutting edges from nodes that are not reached spares what is.
LEMMA CutSpares ==
    ASSUME Inv, NEW D, edges' = edges \ D, nodes' = nodes,
           \A d \in D : d.from \notin ReachableBlocks(edges)
    PROVE  /\ ReachableEdges(edges') = ReachableEdges(edges)
           /\ nodes' \cap ReachableBlocks(edges) = nodes \cap ReachableBlocks(edges)
  <1>1. edges \in SUBSET Possible
    BY DEF Inv, Types, TypeOK
  <1>2. ReachableBlocks(edges \ D) = ReachableBlocks(edges)
    BY <1>1, ReachSpared
  <1> QED BY <1>2 DEF ReachableEdges

\* For any blocks and edges, once the edge asked for is gone, no step of a
\* removal takes a block or an edge that the start reaches: neither the walk of
\* removeEdge, nor the loops of removeNode and of removeUnreachableBlocks,
\* whatever the order of the lists.
THEOREM RemovalAlwaysSpares == Spec => RemovalSpares
  <1> DEFINE Spares ==
        /\ ReachableEdges(edges') = ReachableEdges(edges)
        /\ nodes' \cap ReachableBlocks(edges) = nodes \cap ReachableBlocks(edges)
  <1>1. ASSUME Inv, Continue PROVE Spares
    <2>1. ASSUME NEW n \in Blocks, WalkNode(n) PROVE Spares
      <3>1. nodes' = nodes
        BY <2>1 DEF WalkNode
      <3> QED BY <1>1, <2>1, <3>1, WalkCuts, CutSpares
    <2>2. CASE FinishWalk
      <3>1. /\ edges' = edges /\ walk # None /\ nodes' = nodes \ walk.remove
        BY <2>2 DEF FinishWalk
      <3>2. \A n \in walk.remove : n \notin ReachableBlocks(edges)
        BY <1>1, <3>1, WalkedUnreached DEF InWalk
      <3> QED BY <3>1, <3>2
    <2>3. CASE CutEdge
      <3>1. PICK e \in NextToCut : edges' = edges \ {e}
        BY <2>3 DEF CutEdge, RemoveEdge
      <3>2. e.from \notin ReachableBlocks(edges) /\ nodes' = nodes
        BY <1>1, <2>3, CutUnreached DEF CutEdge
      <3> DEFINE D == {e}
      <3>3. edges' = edges \ D /\ \A d \in D : d.from \notin ReachableBlocks(edges)
        BY <3>1, <3>2
      <3> HIDE DEF D
      <3> QED BY <1>1, <3>2, <3>3, CutSpares
    <2>4. CASE FinishNode
      BY <2>4 DEF FinishNode
    <2>5. ASSUME NEW n \in Blocks, SweepNode(n) PROVE Spares
      <3>1. /\ edges' = edges /\ pending # None /\ n \in pending
            /\ nodes' = IF In(edges, n) = {} THEN nodes \ {n} ELSE nodes
        BY <2>5 DEF SweepNode
      <3>2. n \notin ReachableBlocks(edges)
        BY <1>1, <3>1 DEF Inv, SweepInv
      <3> QED BY <3>1, <3>2
    <2>6. CASE FinishSweep
      BY <2>6 DEF FinishSweep
    <2> QED BY <1>1, <2>1, <2>2, <2>3, <2>4, <2>5, <2>6 DEF Continue
  <1>2. Inv => [Continue => Spares]_vars
    BY <1>1
  <1> HIDE DEF Spares
  <1>3. Spec => [][Continue => Spares]_vars
    BY <1>2, InvAlways, PTL
  <1> QED BY <1>3 DEF RemovalSpares, Spares

-----------------------------------------------------------------------------
(***************************************************************************)
(* The exception handlers of a block                                       *)
(***************************************************************************)

\* What the instance calls finite, a cardinality and a range.
LEMMA SameNotions ==
    ASSUME NEW S
    PROVE  /\ H!IsFiniteSet(S) = IsFiniteSet(S)
           /\ H!Cardinality(S) = Cardinality(S)
           /\ H!Range(S) = {S[x] : x \in DOMAIN S}
  BY DEF H!IsFiniteSet, IsFiniteSet, H!Cardinality, Cardinality, H!Range

\* The handlers of a sequence.
Members(hs) == {hs[i] : i \in 1 .. Len(hs)}

\* No handler stands twice in a sequence.
Once(hs) == \A i, j \in 1 .. Len(hs) : hs[i] = hs[j] => i = j

\* Every handler of T that is not in S is superseded by one of S.
Covers(S, T) == \A h \in T : h \in S \/ \E g \in S : H!Supersedes(g, h)

\* The fields of a catch block.
LEMMA CatcherFields ==
    ASSUME H!CatchersAssumption, NEW h \in Catchers
    PROVE  /\ h.depth \in Nat /\ h.index \in Nat /\ h.type \in Nat /\ h.osr \in BOOLEAN
           /\ \A g \in Catchers : h.depth = g.depth /\ h.index = g.index => h = g
  BY DEF H!CatchersAssumption

\* The handlers are considered in a strict order, any two of them.
LEMMA BeforeOrders ==
    ASSUME H!CatchersAssumption, NEW f \in Catchers, NEW g \in Catchers, NEW h \in Catchers
    PROVE  /\ ~H!Before(f, f)
           /\ H!Before(f, g) /\ H!Before(g, h) => H!Before(f, h)
           /\ f = g \/ H!Before(f, g) \/ H!Before(g, f)
  BY CatcherFields DEF H!Before

\* A handler that makes another superfluous takes what that one takes, and
\* is considered before it.
LEMMA SupersedesFacts ==
    ASSUME H!CatchersAssumption, NEW g \in Catchers, NEW h \in Catchers,
           H!Supersedes(g, h)
    PROVE  /\ g = h \/ H!Before(g, h)
           /\ \A x : H!Handles(h, x) => H!Handles(g, x)
  <1>1. g = h \/ H!Before(g, h)
    BY CatcherFields DEF H!Supersedes, H!Before
  <1>2. ASSUME NEW x, H!Handles(h, x) PROVE H!Handles(g, x)
    BY <1>2 DEF H!Supersedes, H!Handles
  <1> QED BY <1>1, <1>2

\* Leaving out handlers that are superseded changes no handler that is taken.
LEMMA CoverTakesSame ==
    ASSUME H!CatchersAssumption, NEW S, NEW T, S \subseteq T, T \subseteq Catchers,
           Covers(S, T), NEW x
    PROVE  H!Takes(S, x) = H!Takes(T, x)
  <1>1. ASSUME NEW h \in H!Takes(S, x) PROVE h \in H!Takes(T, x)
    <2>1. /\ h \in S /\ H!Handles(h, x)
          /\ \A g \in S : H!Handles(g, x) => g = h \/ H!Before(h, g)
      BY <1>1 DEF H!Takes
    <2>2. ASSUME NEW g \in T, H!Handles(g, x) PROVE g = h \/ H!Before(h, g)
      <3>1. CASE g \in S
        BY <2>1, <2>2, <3>1
      <3>2. CASE g \notin S
        <4>1. PICK f \in S : H!Supersedes(f, g)
          BY <3>2, <2>2 DEF Covers
        <4>2. H!Handles(f, x) /\ (f = g \/ H!Before(f, g))
          BY <4>1, <2>2, SupersedesFacts
        <4>3. f = h \/ H!Before(h, f)
          BY <4>2, <2>1
        <4> QED BY <4>2, <4>3, <2>1, BeforeOrders
      <3> QED BY <3>1, <3>2
    <2> QED BY <2>1, <2>2 DEF H!Takes
  <1>2. ASSUME NEW h \in H!Takes(T, x) PROVE h \in H!Takes(S, x)
    <2>1. /\ h \in T /\ H!Handles(h, x)
          /\ \A g \in T : H!Handles(g, x) => g = h \/ H!Before(h, g)
      BY <1>2 DEF H!Takes
    <2>2. h \in S
      <3>1. SUFFICES ASSUME h \notin S PROVE FALSE
        OBVIOUS
      <3>2. PICK f \in S : H!Supersedes(f, h)
        BY <3>1, <2>1 DEF Covers
      <3>3. H!Handles(f, x) /\ (f = h \/ H!Before(f, h))
        BY <3>2, <2>1, SupersedesFacts
      <3>4. H!Before(f, h) /\ H!Before(h, f)
        BY <3>1, <3>3, <2>1
      <3> QED BY <3>4, <2>1, BeforeOrders
    <2> QED BY <2>1, <2>2 DEF H!Takes
  <1> QED BY <1>1, <1>2

\* A handler added to a list: the list keeps its own, takes in the new one or
\* has one that supersedes it, and holds none twice.
LEMMA WithHandlerFacts ==
    ASSUME NEW hs \in Seq(Catchers), Once(hs), NEW h \in Catchers
    PROVE  LET ws == H!WithHandler(hs, h)
           IN /\ ws \in Seq(Catchers) /\ Once(ws)
              /\ Members(hs) \subseteq Members(ws) /\ Members(ws) \subseteq Members(hs) \cup {h}
              /\ h \in Members(ws) \/ \E g \in Members(ws) : H!Supersedes(g, h)
  <1> DEFINE ws == H!WithHandler(hs, h)
  <1>1. CASE \E i \in 1 .. Len(hs) : hs[i] = h \/ H!Supersedes(hs[i], h)
    <2>1. ws = hs
      BY <1>1 DEF H!WithHandler
    <2> QED BY <1>1, <2>1 DEF Members
  <1>2. CASE ~\E i \in 1 .. Len(hs) : hs[i] = h \/ H!Supersedes(hs[i], h)
    <2>1. ws = << h >> \o hs
      BY <1>2 DEF H!WithHandler
    <2>2. /\ ws \in Seq(Catchers) /\ Len(ws) = Len(hs) + 1 /\ ws[1] = h
          /\ \A i \in 2 .. Len(ws) : i - 1 \in 1 .. Len(hs) /\ ws[i] = hs[i - 1]
      BY <2>1
    <2>3. Once(ws)
      <3> SUFFICES ASSUME NEW i \in 1 .. Len(ws), NEW j \in 1 .. Len(ws), ws[i] = ws[j]
                   PROVE  i = j
        BY DEF Once
      <3>1. i = 1 \/ i \in 2 .. Len(ws)
        BY <2>2
      <3>2. j = 1 \/ j \in 2 .. Len(ws)
        BY <2>2
      <3>3. Len(hs) \in Nat
        OBVIOUS
      <3> HIDE DEF ws
      <3>4. CASE i = 1 \/ j = 1
        BY <3>1, <3>2, <3>4, <1>2, <2>2
      <3>5. CASE i # 1 /\ j # 1
        <4>1. i - 1 = j - 1
          BY <3>1, <3>2, <3>5, <2>2 DEF Once
        <4> QED BY <4>1
      <3> QED BY <3>4, <3>5
    <2>4. h \in Members(ws)
      BY <2>2 DEF Members
    <2>5. ASSUME NEW g \in Members(hs) PROVE g \in Members(ws)
      <3>1. PICK i \in 1 .. Len(hs) : g = hs[i]
        BY <2>5 DEF Members
      <3>2. i + 1 \in 2 .. Len(ws) /\ (i + 1) - 1 = i /\ i + 1 \in 1 .. Len(ws)
        BY <2>2
      <3>3. ws[i + 1] = hs[i]
        BY <2>2, <3>2
      <3> QED BY <3>1, <3>2, <3>3 DEF Members
    <2>6. ASSUME NEW g \in Members(ws) PROVE g \in Members(hs) \cup {h}
      <3>1. PICK i \in 1 .. Len(ws) : g = ws[i]
        BY <2>6 DEF Members
      <3>2. i = 1 \/ i \in 2 .. Len(ws)
        BY <2>2
      <3> QED BY <2>2, <3>1, <3>2 DEF Members
    <2> QED BY <2>2, <2>3, <2>4, <2>5, <2>6
  <1> QED BY <1>1, <1>2

\* The handlers of the block and of those asked for: none twice, and none
\* left out that another does not supersede.
HandlersInv ==
  /\ handlers \in Seq(Catchers) /\ Once(handlers)
  /\ requested \subseteq Catchers /\ Members(handlers) \subseteq requested
  /\ Covers(Members(handlers), requested)

\* The members of a sequence are its range.
LEMMA MembersRange ==
    ASSUME NEW hs \in Seq(Catchers)
    PROVE  H!Range(hs) = Members(hs)
  BY SameNotions DEF Members

\* A sequence that holds nothing twice is as long as it has members.
LEMMA OnceLength ==
    ASSUME NEW S, NEW hs \in Seq(S), Once(hs)
    PROVE  Len(hs) = Cardinality(Members(hs)) /\ IsFiniteSet(Members(hs))
  <1>1. hs \in Surjection(1 .. Len(hs), Members(hs))
    BY DEF Members, Surjection
  <1>2. hs \in Injection(1 .. Len(hs), Members(hs))
    BY DEF Members, Injection, IsInjective, Once
  <1>3. Len(hs) \in Nat /\ (1 > Len(hs) => Len(hs) = 0)
    OBVIOUS
  <1>4. IsFiniteSet(1 .. Len(hs)) /\ Cardinality(1 .. Len(hs)) = Len(hs)
    BY <1>3, FS_Interval
  <1> QED BY <1>1, <1>2, <1>4, FS_Surjection

\* A block starts without handlers.
LEMMA HandlersInit == H!Init => HandlersInv
  BY DEF H!Init, HandlersInv, Once, Members, Covers

\* An added handler keeps the invariant.
LEMMA HandlersNext ==
    ASSUME H!CatchersAssumption, HandlersInv, [H!Next]_H!vars
    PROVE  HandlersInv'
  <1>1. CASE UNCHANGED H!vars
    BY <1>1 DEF HandlersInv, H!vars, Once, Members, Covers
  <1>2. ASSUME NEW h \in Catchers, H!AddExceptionEdge(h) PROVE HandlersInv'
    <2>1. handlers' = H!WithHandler(handlers, h) /\ requested' = requested \cup {h}
      BY <1>2 DEF H!AddExceptionEdge
    <2>2. /\ handlers \in Seq(Catchers) /\ Once(handlers)
          /\ requested \subseteq Catchers /\ Members(handlers) \subseteq requested
          /\ Covers(Members(handlers), requested)
      BY DEF HandlersInv
    <2>3. /\ handlers' \in Seq(Catchers) /\ Once(handlers')
          /\ Members(handlers) \subseteq Members(handlers')
          /\ Members(handlers') \subseteq Members(handlers) \cup {h}
          /\ h \in Members(handlers') \/ \E g \in Members(handlers') : H!Supersedes(g, h)
      BY <2>1, <2>2, WithHandlerFacts
    <2>4. Covers(Members(handlers'), requested')
      BY <2>1, <2>2, <2>3 DEF Covers
    <2>5. /\ Once(handlers)' = Once(handlers') /\ Members(handlers)' = Members(handlers')
          /\ Covers(Members(handlers), requested)' = Covers(Members(handlers'), requested')
      BY DEF Once, Members, Covers
    <2> QED BY <2>1, <2>2, <2>3, <2>4, <2>5 DEF HandlersInv
  <1> QED BY <1>1, <1>2 DEF H!Next

-----------------------------------------------------------------------------
(***************************************************************************)
(* A copy of the handlers                                                  *)
(***************************************************************************)

\* The list after i of the handlers hs were added, given those before it.
CopyStep(hs, f, i) == IF i = 0 THEN << >> ELSE H!WithHandler(f[i - 1], hs[i])
IsCopy(hs, f) == f = [i \in 0 .. Len(hs) |-> CopyStep(hs, f, i)]

LEMMA CopyIs ==
    ASSUME NEW hs
    PROVE  H!CopyExceptionSuccessors(hs) = (CHOOSE f : IsCopy(hs, f))[Len(hs)]
  BY DEF H!CopyExceptionSuccessors, IsCopy, CopyStep

\* The lists of a copy exist.
LEMMA CopyExists ==
    ASSUME NEW hs \in Seq(Catchers)
    PROVE  \E f : IsCopy(hs, f)
  <1> DEFINE UpTo(n, f) == \A i \in 0 .. n : f[i] = CopyStep(hs, f, i)
             T == {n \in Nat : \E f : UpTo(n, f)}
  <1>1. 0 \in T
    <2> DEFINE f == [i \in Nat |-> << >>]
    <2>1. 0 .. 0 = {0} /\ f[0] = << >>
      OBVIOUS
    <2>2. UpTo(0, f)
      BY <2>1 DEF CopyStep
    <2> HIDE DEF UpTo, f
    <2> QED BY <2>2
  <1>2. ASSUME NEW n \in Nat, n \in T PROVE n + 1 \in T
    <2>1. PICK f : UpTo(n, f)
      BY <1>2
    <2> DEFINE g == [i \in 0 .. n + 1 |-> IF i = n + 1 THEN CopyStep(hs, f, n + 1) ELSE f[i]]
    <2>2. g[n + 1] = CopyStep(hs, f, n + 1) /\ \A i \in 0 .. n : g[i] = f[i]
      OBVIOUS
    <2> HIDE DEF g
    <2>3. ASSUME NEW i \in 0 .. n + 1 PROVE g[i] = CopyStep(hs, g, i)
      <3>1. CopyStep(hs, g, i) = CopyStep(hs, f, i)
        <4>1. CASE i = 0
          BY <4>1 DEF CopyStep
        <4>2. CASE i # 0
          <5>1. i - 1 \in 0 .. n
            BY <4>2
          <5> QED BY <2>2, <4>2, <5>1 DEF CopyStep
        <4> QED BY <4>1, <4>2
      <3>2. CASE i = n + 1
        BY <2>2, <3>1, <3>2
      <3>3. CASE i # n + 1
        <4>1. i \in 0 .. n
          BY <3>3
        <4> QED BY <2>1, <2>2, <3>1, <4>1
      <3> QED BY <3>2, <3>3
    <2>4. UpTo(n + 1, g)
      BY <2>3
    <2> HIDE DEF UpTo
    <2> QED BY <2>4
  <1>3. Len(hs) \in T
    <2>1. Len(hs) \in Nat
      OBVIOUS
    <2> HIDE DEF T
    <2> QED BY <1>1, <1>2, <2>1, AllNumbers
  <1>4. PICK f : UpTo(Len(hs), f)
    BY <1>3
  <1> DEFINE g == [i \in 0 .. Len(hs) |-> f[i]]
  <1>5. /\ \A i \in 0 .. Len(hs) : g[i] = f[i]
        /\ g = [i \in 0 .. Len(hs) |-> g[i]]
    OBVIOUS
  <1> HIDE DEF g
  <1>6. ASSUME NEW i \in 0 .. Len(hs) PROVE g[i] = CopyStep(hs, g, i)
    <2>1. CASE i = 0
      BY <1>4, <1>5, <2>1 DEF CopyStep
    <2>2. CASE i # 0
      <3>1. i - 1 \in 0 .. Len(hs)
        BY <2>2
      <3> QED BY <1>4, <1>5, <2>2, <3>1 DEF CopyStep
    <2> QED BY <2>1, <2>2
  <1>7. g = [i \in 0 .. Len(hs) |-> CopyStep(hs, g, i)]
    BY <1>5, <1>6
  <1> QED BY <1>7 DEF IsCopy

\* Every list of a copy holds only handlers of the original, each once, and
\* leaves out none of those gone through that another does not supersede.
LEMMA CopyCovers ==
    ASSUME NEW hs \in Seq(Catchers)
    PROVE  LET cs == H!CopyExceptionSuccessors(hs)
           IN /\ cs \in Seq(Catchers) /\ Members(cs) \subseteq Members(hs)
              /\ Covers(Members(cs), Members(hs))
  <1> DEFINE f == CHOOSE g : IsCopy(hs, g)
             First(n) == {hs[i] : i \in 1 .. n}
             Good(n) == /\ f[n] \in Seq(Catchers) /\ Once(f[n])
                        /\ Members(f[n]) \subseteq First(n)
                        /\ Covers(Members(f[n]), First(n))
             T == {n \in Nat : n =< Len(hs) => Good(n)}
  <1>1. IsCopy(hs, f)
    BY CopyExists
  <1> HIDE DEF f
  <1>2. \A i \in 0 .. Len(hs) : f[i] = CopyStep(hs, f, i)
    BY <1>1 DEF IsCopy
  <1>3. 0 \in T
    <2>1. f[0] = << >>
      <3>1. 0 \in 0 .. Len(hs)
        OBVIOUS
      <3> QED BY <1>2, <3>1 DEF CopyStep
    <2>2. Good(0)
      BY <2>1 DEF Members, Once, Covers
    <2> QED BY <2>2
  <1>4. ASSUME NEW n \in Nat, n \in T PROVE n + 1 \in T
    <2>1. SUFFICES ASSUME n + 1 =< Len(hs) PROVE Good(n + 1)
      OBVIOUS
    <2>2. Good(n)
      BY <1>4, <2>1
    <2>3. n + 1 \in 1 .. Len(hs) /\ hs[n + 1] \in Catchers
      BY <2>1
    <2>4. f[n + 1] = H!WithHandler(f[n], hs[n + 1])
      BY <1>2, <2>3 DEF CopyStep
    <2>5. First(n + 1) = First(n) \cup {hs[n + 1]}
      OBVIOUS
    <2> HIDE DEF First
    <2>6. /\ f[n + 1] \in Seq(Catchers) /\ Once(f[n + 1])
          /\ Members(f[n]) \subseteq Members(f[n + 1])
          /\ Members(f[n + 1]) \subseteq Members(f[n]) \cup {hs[n + 1]}
          /\ \/ hs[n + 1] \in Members(f[n + 1])
             \/ \E g \in Members(f[n + 1]) : H!Supersedes(g, hs[n + 1])
      BY <2>2, <2>3, <2>4, WithHandlerFacts
    <2>7. Members(f[n + 1]) \subseteq First(n + 1)
      BY <2>2, <2>5, <2>6
    <2>8. Covers(Members(f[n + 1]), First(n + 1))
      BY <2>2, <2>5, <2>6 DEF Covers
    <2> QED BY <2>6, <2>7, <2>8
  <1>5. Len(hs) \in T
    <2>1. Len(hs) \in Nat
      OBVIOUS
    <2> HIDE DEF T
    <2> QED BY <1>3, <1>4, <2>1, AllNumbers
  <1>6. Good(Len(hs)) /\ First(Len(hs)) = Members(hs)
    <2>1. Len(hs) =< Len(hs)
      OBVIOUS
    <2> HIDE DEF Good
    <2> QED BY <1>5, <2>1 DEF Members
  <1>7. H!CopyExceptionSuccessors(hs) = f[Len(hs)]
    BY CopyIs DEF f
  <1> QED BY <1>6, <1>7

-----------------------------------------------------------------------------
(***************************************************************************)
(* The iterator over the handlers                                          *)
(***************************************************************************)

\* The least number of a set.
LEMMA LeastNumber ==
    ASSUME NEW S, S \subseteq Nat, S # {}
    PROVE  \E m \in S : \A k \in S : m =< k
  <1>1. PICK m \in S : \A k \in S : ~(<< k, m >> \in OpToRel(<, Nat))
    BY NatLessThanWellFounded, WFMin
  <1>2. \A k \in S : ~(k < m)
    BY <1>1 DEF OpToRel
  <1>3. \A k \in S : k \in Nat /\ m \in Nat
    OBVIOUS
  <1> QED BY <1>2, <1>3

\* The greatest of finitely many numbers, which Max is.
LEMMA GreatestNumber ==
    ASSUME NEW n \in Nat, NEW f, \A i \in 1 .. n : f[i] \in Nat
    PROVE  LET S == {0} \cup {f[i] : i \in 1 .. n}
           IN H!Max(S) \in Nat /\ \A k \in S : k =< H!Max(S)
  <1> DEFINE S(k) == {0} \cup {f[i] : i \in 1 .. k}
             T == {k \in Nat : k =< n => \E m \in S(k) : \A j \in S(k) : m >= j}
  <1>1. 0 \in T
    OBVIOUS
  <1>2. ASSUME NEW k \in Nat, k \in T PROVE k + 1 \in T
    <2>1. SUFFICES ASSUME k + 1 =< n PROVE \E m \in S(k + 1) : \A j \in S(k + 1) : m >= j
      OBVIOUS
    <2>2. PICK m \in S(k) : \A j \in S(k) : m >= j
      BY <1>2, <2>1
    <2>3. S(k + 1) = S(k) \cup {f[k + 1]} /\ f[k + 1] \in Nat /\ S(k) \subseteq Nat
      BY <2>1
    <2> HIDE DEF S
    <2>4. CASE m >= f[k + 1]
      BY <2>2, <2>3, <2>4
    <2>5. CASE ~(m >= f[k + 1])
      BY <2>2, <2>3, <2>5
    <2> QED BY <2>4, <2>5
  <1>3. n \in T
    <2> HIDE DEF T
    <2> QED BY <1>1, <1>2, AllNumbers
  <1>4. PICK m \in S(n) : \A j \in S(n) : m >= j
    BY <1>3
  <1>5. H!Max(S(n)) \in S(n) /\ \A j \in S(n) : H!Max(S(n)) >= j
    BY <1>4 DEF H!Max
  <1>6. S(n) \subseteq Nat
    OBVIOUS
  <1> QED BY <1>5, <1>6

\* The depth and the index of a handler are within the dimensions.
LEMMA Dimensions ==
    ASSUME H!CatchersAssumption, NEW hs \in Seq(Catchers)
    PROVE  /\ H!HandlerDim(hs) \in Nat /\ H!InlineDim(hs) \in Nat
           /\ \A h \in Members(hs) : h.index < H!HandlerDim(hs) /\ h.depth < H!InlineDim(hs)
  <1> DEFINE I == [i \in 1 .. Len(hs) |-> hs[i].index]
             D == [i \in 1 .. Len(hs) |-> hs[i].depth]
             SI == {0} \cup {I[i] : i \in 1 .. Len(hs)}
             SD == {0} \cup {D[i] : i \in 1 .. Len(hs)}
  <1>1. Len(hs) \in Nat /\ \A i \in 1 .. Len(hs) : hs[i] \in Catchers
    OBVIOUS
  <1>2. \A i \in 1 .. Len(hs) : I[i] \in Nat /\ D[i] \in Nat
    BY <1>1, CatcherFields
  <1>3. /\ {0} \cup {hs[i].index : i \in 1 .. Len(hs)} = SI
        /\ {0} \cup {hs[i].depth : i \in 1 .. Len(hs)} = SD
    OBVIOUS
  <1>4. \A i \in 1 .. Len(hs) : hs[i].index \in SI /\ hs[i].depth \in SD
    OBVIOUS
  <1> HIDE DEF I, D
  <1>5. H!Max(SI) \in Nat /\ \A k \in SI : k =< H!Max(SI)
    BY <1>1, <1>2, GreatestNumber
  <1>6. H!Max(SD) \in Nat /\ \A k \in SD : k =< H!Max(SD)
    BY <1>1, <1>2, GreatestNumber
  <1> HIDE DEF SI, SD
  <1>7. H!HandlerDim(hs) = 1 + H!Max(SI) /\ H!InlineDim(hs) = 1 + H!Max(SD)
    BY <1>3 DEF H!HandlerDim, H!InlineDim
  <1>8. ASSUME NEW h \in Members(hs)
        PROVE  h.index < H!HandlerDim(hs) /\ h.depth < H!InlineDim(hs)
    <2>1. PICK i \in 1 .. Len(hs) : h = hs[i]
      BY DEF Members
    <2>2. h.index \in Nat /\ h.depth \in Nat
      BY <1>1, <2>1, CatcherFields
    <2>3. h.index =< H!Max(SI) /\ h.depth =< H!Max(SD)
      BY <1>4, <1>5, <1>6, <2>1
    <2> QED BY <1>5, <1>6, <1>7, <2>2, <2>3
  <1> QED BY <1>5, <1>6, <1>7, <1>8

\* Rows of a table follow each other.
LEMMA RowsFollow ==
    ASSUME NEW r \in Nat, NEW s \in Nat, NEW w \in Nat, NEW i \in Nat, i < w, r < s
    PROVE  r * w + i < s * w /\ r * w + i \in Nat
  <1>1. s = r + 1 + (s - r - 1) /\ s - r - 1 \in Nat
    OBVIOUS
  <1>2. PICK d \in Nat : s = r + 1 + d
    BY <1>1
  <1>3. s * w = r * w + w + d * w
    BY <1>2
  <1>4. d * w \in Nat /\ r * w \in Nat
    OBVIOUS
  <1> QED BY <1>3, <1>4

\* The place of a handler is one of the array.
LEMMA PlaceInside ==
    ASSUME H!CatchersAssumption, NEW hs \in Seq(Catchers), NEW h \in Members(hs)
    PROVE  H!Place(hs, h) \in 0 .. H!HandlerDim(hs) * H!InlineDim(hs) - 1
  <1> DEFINE w == H!HandlerDim(hs)
             n == H!InlineDim(hs)
             r == n - h.depth - 1
  <1>1. h \in Catchers
    BY DEF Members
  <1>2. /\ w \in Nat /\ n \in Nat /\ h.index \in Nat /\ h.depth \in Nat
        /\ h.index < w /\ h.depth < n
    BY <1>1, Dimensions, CatcherFields
  <1>3. H!Place(hs, h) = r * w + h.index
    BY DEF H!Place
  <1>4. r \in Nat /\ r < n
    BY <1>2
  <1> HIDE DEF r, w, n
  <1>5. r * w + h.index < n * w /\ r * w + h.index \in Nat
    BY <1>2, <1>4, RowsFollow
  <1>6. n * w \in Nat /\ n * w = w * n
    BY <1>2
  <1>7. H!Place(hs, h) \in 0 .. w * n - 1
    BY <1>3, <1>5, <1>6
  <1> QED BY <1>7 DEF w, n

\* A handler considered earlier has the lower place.
LEMMA PlaceOrders ==
    ASSUME H!CatchersAssumption, NEW hs \in Seq(Catchers),
           NEW g \in Members(hs), NEW h \in Members(hs), H!Before(g, h)
    PROVE  H!Place(hs, g) < H!Place(hs, h)
  <1> DEFINE w == H!HandlerDim(hs)
             n == H!InlineDim(hs)
             r == n - g.depth - 1
             s == n - h.depth - 1
  <1>1. g \in Catchers /\ h \in Catchers
    BY DEF Members
  <1>2. /\ w \in Nat /\ n \in Nat
        /\ g.index \in Nat /\ g.depth \in Nat /\ g.index < w /\ g.depth < n
        /\ h.index \in Nat /\ h.depth \in Nat /\ h.index < w /\ h.depth < n
    BY <1>1, Dimensions, CatcherFields
  <1>3. H!Place(hs, g) = r * w + g.index /\ H!Place(hs, h) = s * w + h.index
    BY DEF H!Place
  <1>4. r \in Nat /\ s \in Nat
    BY <1>2
  <1>5. r < s \/ (r = s /\ g.index < h.index)
    BY <1>2 DEF H!Before
  <1> HIDE DEF r, s, w, n
  <1>6. r * w \in Nat /\ s * w \in Nat
    BY <1>2, <1>4
  <1>7. CASE r < s
    <2>1. r * w + g.index < s * w
      BY <1>2, <1>4, <1>7, RowsFollow
    <2> QED BY <2>1, <1>2, <1>3, <1>6
  <1>8. CASE r = s /\ g.index < h.index
    BY <1>2, <1>3, <1>6, <1>8
  <1> QED BY <1>5, <1>7, <1>8

\* How many numbers of a set are below p.
Rank(S, p) == H!Cardinality({q \in S : q < p})

LEMMA RankIs ==
    ASSUME NEW S, NEW p
    PROVE  Rank(S, p) = Cardinality({q \in S : q < p})
  BY SameNotions DEF Rank

\* Ranks of a finite set of numbers grow with the numbers.
LEMMA RankOrders ==
    ASSUME NEW S, S \subseteq Nat, IsFiniteSet(S), NEW p \in S
    PROVE  /\ Rank(S, p) \in Nat /\ Rank(S, p) < Cardinality(S)
           /\ \A q \in S : q < p => Rank(S, q) < Rank(S, p)
  <1> DEFINE B(k) == {q \in S : q < k}
  <1>1. \A k \in S : IsFiniteSet(B(k)) /\ Cardinality(B(k)) \in Nat
    BY FS_Subset, FS_CardinalityType
  <1>2. Cardinality(S) \in Nat
    BY FS_CardinalityType
  <1>3. Cardinality(B(p)) < Cardinality(S)
    <2>1. B(p) # S /\ B(p) \in SUBSET S
      OBVIOUS
    <2> HIDE DEF B
    <2>2. Cardinality(B(p)) =< Cardinality(S) /\ Cardinality(B(p)) # Cardinality(S)
      BY <2>1, FS_Subset
    <2> QED BY <2>2, <1>1, <1>2
  <1>4. ASSUME NEW q \in S, q < p PROVE Cardinality(B(q)) < Cardinality(B(p))
    <2>1. B(q) # B(p) /\ B(q) \in SUBSET B(p)
      <3>1. q \in B(p) /\ q \notin B(q)
        BY <1>4
      <3>2. \A k \in S : k < q => k < p
        BY <1>4
      <3> QED BY <3>1, <3>2
    <2>2. IsFiniteSet(B(p)) /\ Cardinality(B(p)) \in Nat /\ Cardinality(B(q)) \in Nat
      BY <1>1
    <2> HIDE DEF B
    <2>3. Cardinality(B(q)) =< Cardinality(B(p)) /\ Cardinality(B(q)) # Cardinality(B(p))
      BY <2>1, <2>2, FS_Subset
    <2> QED BY <2>2, <2>3
  <1> QED BY <1>1, <1>3, <1>4, RankIs

\* Every rank below the cardinality is that of a number of the set.
LEMMA EveryRank ==
    ASSUME NEW S, S \subseteq Nat, IsFiniteSet(S)
    PROVE  \A i \in Nat : i < Cardinality(S) => \E p \in S : Rank(S, p) = i
  <1> DEFINE T == {i \in Nat : i < Cardinality(S) => \E p \in S : Rank(S, p) = i}
  <1>1. Cardinality(S) \in Nat
    BY FS_CardinalityType
  <1>2. 0 \in T
    <2>1. SUFFICES ASSUME 0 < Cardinality(S) PROVE \E p \in S : Rank(S, p) = 0
      OBVIOUS
    <2>2. S # {}
      BY <2>1, FS_EmptySet
    <2>3. PICK p \in S : \A k \in S : p =< k
      BY <2>2, LeastNumber
    <2>4. \A q \in S : ~(q < p)
      BY <2>3
    <2>5. {q \in S : q < p} = {}
      BY <2>4
    <2> QED BY <2>5, FS_EmptySet, RankIs
  <1>3. ASSUME NEW i \in Nat, i \in T PROVE i + 1 \in T
    <2>1. SUFFICES ASSUME i + 1 < Cardinality(S) PROVE \E p \in S : Rank(S, p) = i + 1
      OBVIOUS
    <2>2. PICK p \in S : Rank(S, p) = i
      BY <1>1, <1>3, <2>1
    <2> DEFINE B == {q \in S : q < p}
               U == {q \in S : p < q}
    <2>3. IsFiniteSet(B) /\ Cardinality(B) = i /\ p \notin B
      BY <2>2, FS_Subset, RankIs
    <2>4. Cardinality(B \cup {p}) = i + 1
      BY <2>3, FS_AddElement
    <2>5. U # {}
      <3>1. SUFFICES ASSUME U = {} PROVE FALSE
        OBVIOUS
      <3>2. \A q \in S : q < p \/ q = p
        BY <3>1
      <3>3. S = B \cup {p}
        BY <3>2
      <3> QED BY <2>1, <2>4, <3>3, <1>1
    <2>6. PICK r \in U : \A k \in U : r =< k
      <3>1. U \subseteq Nat
        OBVIOUS
      <3> HIDE DEF U
      <3> QED BY <2>5, <3>1, LeastNumber
    <2>7. \A q \in S : q < r <=> q < p \/ q = p
      <3>1. r \in Nat /\ p \in Nat /\ p < r /\ \A q \in S : q \in Nat
        BY <2>6
      <3>2. \A q \in S : p < q => r =< q
        BY <2>6
      <3> QED BY <3>1, <3>2
    <2>8. {q \in S : q < r} = B \cup {p}
      BY <2>7
    <2> QED BY <2>4, <2>6, <2>8, RankIs
  <1> HIDE DEF T
  <1>4. \A i \in Nat : i \in T
    BY <1>2, <1>3, AllNumbers
  <1> QED BY <1>4 DEF T

\* The entries of _handlers with a handler, and those in their order.
Occupied(hs) == {p \in 0 .. H!HandlerDim(hs) * H!InlineDim(hs) - 1 :
                   \E j \in 1 .. Len(hs) : H!Place(hs, hs[j]) = p}
Nth(hs, i) == CHOOSE p \in Occupied(hs) : Rank(Occupied(hs), p) = i - 1
At(hs, p) == CHOOSE j \in 1 .. Len(hs) : H!Place(hs, hs[j]) = p

LEMMA OrderedIs ==
    ASSUME NEW hs
    PROVE  H!Ordered(hs) =
             [i \in 1 .. H!Cardinality(Occupied(hs)) |-> hs[At(hs, Nth(hs, i))]]
  BY DEF H!Ordered, Occupied, Nth, At, Rank

\* The iterator goes through the handlers in the order in which they are
\* considered, and leaves none out.
LEMMA OrderedFacts ==
    ASSUME H!CatchersAssumption, NEW hs \in Seq(Catchers)
    PROVE  /\ H!Range(H!Ordered(hs)) = H!Range(hs)
           /\ \A i, j \in 1 .. Len(H!Ordered(hs)) :
                i < j => H!Before(H!Ordered(hs)[i], H!Ordered(hs)[j])
  <1> DEFINE S == Occupied(hs)
             N == Cardinality(S)
             O == H!Ordered(hs)
  <1>1. S \subseteq Nat /\ IsFiniteSet(S) /\ N \in Nat
    <2>1. H!HandlerDim(hs) * H!InlineDim(hs) - 1 \in Int
      BY Dimensions
    <2>2. IsFiniteSet(0 .. H!HandlerDim(hs) * H!InlineDim(hs) - 1)
      BY <2>1, FS_Interval
    <2>3. S \in SUBSET (0 .. H!HandlerDim(hs) * H!InlineDim(hs) - 1)
      BY DEF Occupied
    <2>4. 0 .. H!HandlerDim(hs) * H!InlineDim(hs) - 1 \subseteq Nat
      BY <2>1
    <2> QED BY <2>2, <2>3, <2>4, FS_Subset, FS_CardinalityType
  <1>2. O = [i \in 1 .. N |-> hs[At(hs, Nth(hs, i))]]
    BY OrderedIs, SameNotions
  <1>3. Len(O) = N /\ DOMAIN O = 1 .. N
    BY <1>1, <1>2
  <1>4. ASSUME NEW i \in 1 .. N
        PROVE  /\ Nth(hs, i) \in S /\ Rank(S, Nth(hs, i)) = i - 1
               /\ O[i] \in Members(hs) /\ H!Place(hs, O[i]) = Nth(hs, i)
    <2>1. i - 1 \in Nat /\ i - 1 < N
      BY <1>1
    <2>2. \E p \in S : Rank(S, p) = i - 1
      BY <1>1, <2>1, EveryRank
    <2>3. Nth(hs, i) \in S /\ Rank(S, Nth(hs, i)) = i - 1
      BY <2>2 DEF Nth
    <2>4. \E j \in 1 .. Len(hs) : H!Place(hs, hs[j]) = Nth(hs, i)
      BY <2>3 DEF Occupied
    <2>5. /\ At(hs, Nth(hs, i)) \in 1 .. Len(hs)
          /\ H!Place(hs, hs[At(hs, Nth(hs, i))]) = Nth(hs, i)
      BY <2>4 DEF At
    <2>6. O[i] = hs[At(hs, Nth(hs, i))]
      BY <1>2
    <2> QED BY <2>3, <2>5, <2>6 DEF Members
  <1>5. ASSUME NEW g \in Members(hs), NEW h \in Members(hs)
        PROVE  /\ H!Place(hs, g) \in S
               /\ H!Place(hs, g) = H!Place(hs, h) => g = h
               /\ H!Place(hs, g) < H!Place(hs, h) => H!Before(g, h)
    <2>1. g \in Catchers /\ h \in Catchers
      BY DEF Members
    <2>2. H!Place(hs, g) \in 0 .. H!HandlerDim(hs) * H!InlineDim(hs) - 1
      BY PlaceInside
    <2>3. \E j \in 1 .. Len(hs) : H!Place(hs, hs[j]) = H!Place(hs, g)
      BY DEF Members
    <2>4. H!Place(hs, g) \in S
      BY <2>2, <2>3 DEF Occupied
    <2>5. H!Place(hs, h) \in Nat /\ H!Place(hs, g) \in Nat
      <3>1. H!Place(hs, h) \in 0 .. H!HandlerDim(hs) * H!InlineDim(hs) - 1
        BY PlaceInside
      <3> QED BY <2>2, <3>1
    <2>6. /\ H!Before(g, h) => H!Place(hs, g) < H!Place(hs, h)
          /\ H!Before(h, g) => H!Place(hs, h) < H!Place(hs, g)
      BY PlaceOrders
    <2>7. g = h \/ H!Before(g, h) \/ H!Before(h, g)
      BY <2>1, BeforeOrders
    <2> QED BY <2>4, <2>5, <2>6, <2>7
  <1> HIDE DEF S, N, O
  <1>6. ASSUME NEW h \in Members(hs) PROVE \E i \in 1 .. N : O[i] = h
    <2> DEFINE p == H!Place(hs, h)
               i == Rank(S, p) + 1
    <2>1. p \in S
      BY <1>5
    <2>2. Rank(S, p) \in Nat /\ Rank(S, p) < N
      BY <1>1, <2>1, RankOrders DEF N
    <2>3. i \in 1 .. N /\ i - 1 = Rank(S, p)
      BY <1>1, <2>2
    <2> HIDE DEF i
    <2>4. /\ Nth(hs, i) \in S /\ Rank(S, Nth(hs, i)) = Rank(S, p)
          /\ O[i] \in Members(hs) /\ H!Place(hs, O[i]) = Nth(hs, i)
      BY <1>4, <2>3
    <2>5. Nth(hs, i) = p
      <3> HIDE DEF p
      <3> DEFINE q == Nth(hs, i)
      <3>1. p \in Nat /\ q \in Nat /\ p \in S /\ q \in S /\ Rank(S, q) = Rank(S, p)
        BY <1>1, <2>1, <2>4
      <3> HIDE DEF q
      <3>2. ~(p < q) /\ ~(q < p)
        <4>1. /\ p < q => Rank(S, p) < Rank(S, q)
              /\ q < p => Rank(S, q) < Rank(S, p)
          BY <1>1, <3>1, RankOrders
        <4>2. Rank(S, p) \in Nat
          BY <2>2 DEF p
        <4> QED BY <3>1, <4>1, <4>2
      <3>3. q = p
        BY <3>1, <3>2
      <3> QED BY <3>3 DEF q
    <2>6. O[i] = h
      BY <1>5, <2>4, <2>5
    <2> QED BY <2>3, <2>6
  <1>7. {O[i] : i \in 1 .. N} = Members(hs)
    BY <1>4, <1>6
  <1>8. H!Range(O) = H!Range(hs)
    <2>1. H!Range(O) = {O[i] : i \in DOMAIN O}
      BY SameNotions
    <2> QED BY <2>1, <1>3, <1>7, MembersRange
  <1>9. ASSUME NEW i \in 1 .. Len(O), NEW j \in 1 .. Len(O), i < j
        PROVE  H!Before(O[i], O[j])
    <2> DEFINE p == Nth(hs, i)
               q == Nth(hs, j)
    <2>1. i \in 1 .. N /\ j \in 1 .. N
      BY <1>3
    <2>2. /\ p \in S /\ Rank(S, p) = i - 1 /\ O[i] \in Members(hs) /\ H!Place(hs, O[i]) = p
          /\ q \in S /\ Rank(S, q) = j - 1 /\ O[j] \in Members(hs) /\ H!Place(hs, O[j]) = q
      BY <1>4, <2>1
    <2> HIDE DEF p, q
    <2>3. p < q
      <3>1. p \in Nat /\ q \in Nat /\ i \in Int /\ j \in Int
        BY <1>1, <2>1, <2>2
      <3>2. p # q
        BY <2>2, <1>9, <3>1
      <3>3. ~(q < p)
        <4>1. q < p => Rank(S, q) < Rank(S, p)
          BY <1>1, <2>2, RankOrders
        <4> QED BY <4>1, <2>2, <1>9, <3>1
      <3> QED BY <3>1, <3>2, <3>3
    <2> QED BY <1>5, <2>2, <2>3
  <1> QED BY <1>8, <1>9 DEF O

\* The invariant makes the handlers correct.
LEMMA HandlersInvCorrect ==
    ASSUME H!CatchersAssumption, HandlersInv
    PROVE  H!HandlersCorrect
  <1>1. /\ handlers \in Seq(Catchers) /\ Once(handlers)
        /\ requested \subseteq Catchers /\ Members(handlers) \subseteq requested
        /\ Covers(Members(handlers), requested)
    BY DEF HandlersInv
  <1>2. H!Range(handlers) = Members(handlers)
    BY <1>1, MembersRange
  <1>3. H!TypeOK
    BY <1>1, <1>2, OnceLength, SameNotions DEF H!TypeOK
  <1>4. H!SameHandler
    BY <1>1, <1>2, CoverTakesSame DEF H!SameHandler
  <1>5. H!CopyTakesSame
    <2> DEFINE cs == H!CopyExceptionSuccessors(handlers)
    <2>1. /\ cs \in Seq(Catchers) /\ Members(cs) \subseteq Members(handlers)
          /\ Covers(Members(cs), Members(handlers)) /\ Members(handlers) \subseteq Catchers
      BY <1>1, CopyCovers
    <2> HIDE DEF cs
    <2>2. H!Range(cs) = Members(cs)
      BY <2>1, MembersRange
    <2>3. \A x : H!Takes(Members(cs), x) = H!Takes(Members(handlers), x)
      BY <2>1, CoverTakesSame
    <2> QED BY <1>2, <2>2, <2>3 DEF H!CopyTakesSame, cs
  <1>6. H!IteratorOrdered
    BY <1>1, OrderedFacts DEF H!IteratorOrdered
  <1> QED BY <1>3, <1>4, <1>5, <1>6 DEF H!HandlersCorrect

\* However many handlers a block is given and in whatever order, every
\* exception is taken by the handler that would take it if all had been
\* added, a copy takes it as the original does, and the iterator gives every
\* handler once, in the order in which they are considered
\* (addExceptionEdge, copyExceptionSuccessors,
\* TR_OrderedExceptionHandlerIterator).
THEOREM HandlersAlwaysCorrect == H!Spec => []HandlersCorrect
  <1>1. H!Init => HandlersInv
    BY PartsAssumption, HandlersInit
  <1>2. HandlersInv /\ [H!Next]_H!vars => HandlersInv'
    BY PartsAssumption, HandlersNext
  <1>3. HandlersInv => HandlersCorrect
    BY PartsAssumption, HandlersInvCorrect DEF HandlersCorrect
  <1> QED BY <1>1, <1>2, <1>3, PTL DEF H!Spec

-----------------------------------------------------------------------------
(***************************************************************************)
(* The order in which the blocks are visited                               *)
(***************************************************************************)

\* What the instance calls finite, a cardinality and a range.
LEMMA SameNotionsW ==
    ASSUME NEW S
    PROVE  /\ W!IsFiniteSet(S) = IsFiniteSet(S)
           /\ W!Cardinality(S) = Cardinality(S)
           /\ W!Range(S) = {S[x] : x \in DOMAIN S}
  BY DEF W!IsFiniteSet, IsFiniteSet, W!Cardinality, Cardinality, W!Range

\* The fall-through of a block, -1 if it has none.
Ft(e, b) == e[b]

\* The graph: no block is a successor twice, the entry of none; a block that
\* extends another has that one as its only predecessor.
GraphOK(s, e) ==
  /\ s \in [Numbers -> Seq(Numbers \ {0})]
  /\ \A b \in Numbers : \A i, j \in 1 .. Len(s[b]) : s[b][i] = s[b][j] => i = j
  /\ e \in [Numbers -> Numbers \cup {-1}]
  /\ \A b \in Numbers : e[b] # -1 =>
       /\ e[b] # b
       /\ \E k \in 1 .. Len(s[b]) : s[b][k] = e[b]
       /\ \A a \in Numbers : \A k \in 1 .. Len(s[a]) : s[a][k] = e[b] => a = b

\* The entries of the stack.
Frames == [block : Numbers, at : Nat]

\* The blocks on a stack, and those of an order.
On(st) == {st[i].block : i \in 1 .. Len(st)}
Among(st, i, n) == \E j \in 1 .. i : st[j].block = n
Within(ord, i, n) == \E j \in 1 .. i : ord[j] = n

\* The stack is a path from the entry; the iterator of a block that is not
\* the last stands at the next block of the path, or at the end if that is
\* the fall-through.
StackOK(s, e, st) ==
  /\ st \in Seq(Frames)
  /\ \A i \in 1 .. Len(st) : st[i].at \in 1 .. Len(s[st[i].block]) + 1
  /\ \A i, j \in 1 .. Len(st) : st[i].block = st[j].block => i = j
  /\ Len(st) > 0 => st[1].block = 0
  /\ \A i \in 1 .. Len(st) - 1 :
       LET b == st[i].block
           n == st[i + 1].block
       IN \/ st[i].at =< Len(s[b]) /\ s[b][st[i].at] = n /\ n # Ft(e, b)
          \/ st[i].at = Len(s[b]) + 1 /\ n = Ft(e, b)

\* A visited block is on the stack or in the order, and not in both.
SetsOK(st, vis, vg, ord) ==
  /\ vg = On(st) /\ vis = vg \cup Members(ord) /\ vg \cap Members(ord) = {}
  /\ ord \in Seq(Numbers) /\ Once(ord) /\ 0 \in vis /\ vis \subseteq Numbers

\* Only what the entry reaches is visited.
ClosedIn(s, S) == 0 \in S /\ \A b \in S : \A k \in 1 .. Len(s[b]) : s[b][k] \in S
ReachedBy(s) == {b \in Numbers : \A S \in SUBSET Numbers : ClosedIn(s, S) => b \in S}

\* The edges of a block of the order: all lead to visited blocks, and one is a
\* back edge when its block is still on the stack or stands no later in the
\* order.  A block that extends the block stands next to it.
EdgesOK(s, vis, vg, be, ord) ==
  \A i \in 1 .. Len(ord) : \A k \in 1 .. Len(s[ord[i]]) :
    LET n == s[ord[i]][k]
    IN /\ n \in vis
       /\ << ord[i], n >> \in be <=> (n \in vg \/ Within(ord, i, n))
NextOK(e, ord) ==
  \A i \in 1 .. Len(ord) : e[ord[i]] # -1 =>
    i + 1 \in 1 .. Len(ord) /\ ord[i + 1] = e[ord[i]]

\* The edges of a block on the stack: one that is passed is a back edge when
\* its block is on the stack up to this one, and leads to a block of the order
\* otherwise; one that is not passed, or falls through, is no back edge.
PassedOK(s, e, st, be, ord) ==
  \A i \in 1 .. Len(st) : \A k \in 1 .. Len(s[st[i].block]) :
    LET b == st[i].block
        n == s[b][k]
    IN /\ n = Ft(e, b) \/ k >= st[i].at => << b, n >> \notin be
       /\ k < st[i].at /\ n # Ft(e, b) =>
            \/ Among(st, i, n) /\ << b, n >> \in be
            \/ n \in Members(ord) /\ << b, n >> \notin be

\* The fall-through is visited last, and left right before its block.
FallsOK(s, e, st, vis, ord) ==
  \A i \in 1 .. Len(st) : Ft(e, st[i].block) \in vis =>
    /\ st[i].at = Len(s[st[i].block]) + 1
    /\ i < Len(st) \/ (Len(ord) > 0 /\ ord[1] = Ft(e, st[i].block))

\* A block that is not visited yet has no back edge, and its fall-through is
\* not visited either.
LaterOK(e, vis, be) ==
  \A b \in Numbers : b \notin vis => Ft(e, b) \notin vis /\ \A n : << b, n >> \notin be

\* Only the backward order looks at the fall-through.
Direction == forward \in BOOLEAN /\ \A b \in Numbers : extends[b] # -1 => ~forward

\* The inductive invariant of the traversal.
TraversalOK(s, e, st, vis, vg, be, ord) ==
  /\ GraphOK(s, e) /\ StackOK(s, e, st) /\ SetsOK(st, vis, vg, ord)
  /\ vis \subseteq ReachedBy(s)
  /\ EdgesOK(s, vis, vg, be, ord) /\ NextOK(e, ord)
  /\ PassedOK(s, e, st, be, ord) /\ FallsOK(s, e, st, vis, ord) /\ LaterOK(e, vis, be)
TraversalInv ==
  /\ TraversalOK(successors, extends, stack, visited, visiting, backEdges, order)
  /\ Direction

\* The fall-through of a block has no other predecessor.
LEMMA FtFacts ==
    ASSUME W!BlocksAssumption, NEW s, NEW e, GraphOK(s, e), NEW b \in Numbers
    PROVE  /\ Ft(e, b) \in Numbers \cup {-1} /\ -1 \notin Numbers
           /\ Ft(e, b) # -1 => /\ Ft(e, b) = e[b] /\ Ft(e, b) # b /\ Ft(e, b) # 0
                               /\ \E k \in 1 .. Len(s[b]) : s[b][k] = Ft(e, b)
           /\ \A a \in Numbers : \A k \in 1 .. Len(s[a]) : s[a][k] = Ft(e, b) => a = b
           /\ e[b] # -1 => Ft(e, b) = e[b]
           /\ \A k \in 1 .. Len(s[b]) : s[b][k] \in Numbers /\ s[b][k] # 0
           /\ Len(s[b]) \in Nat
  <1>1. -1 \notin Numbers /\ Numbers \subseteq Nat
    BY DEF W!BlocksAssumption
  <1>2. /\ s \in [Numbers -> Seq(Numbers \ {0})] /\ e \in [Numbers -> Numbers \cup {-1}]
        /\ \A a \in Numbers : s[a] \in Seq(Numbers \ {0})
    BY DEF GraphOK
  <1>3. \A a \in Numbers : \A k \in 1 .. Len(s[a]) : s[a][k] \in Numbers /\ s[a][k] # 0
    BY <1>2
  <1>4. Len(s[b]) \in Nat
    BY <1>2
  <1>5. CASE e[b] = -1
    <2>1. Ft(e, b) = -1
      BY <1>5 DEF Ft
    <2> QED BY <2>1, <1>1, <1>3, <1>4, <1>5
  <1>6. CASE e[b] # -1
    <2>1. Ft(e, b) = e[b] /\ e[b] \in Numbers \cup {-1}
      BY <1>2, <1>6 DEF Ft
    <2>2. /\ e[b] # b /\ \E k \in 1 .. Len(s[b]) : s[b][k] = e[b]
          /\ \A a \in Numbers : \A k \in 1 .. Len(s[a]) : s[a][k] = e[b] => a = b
      BY <1>6 DEF GraphOK
    <2> QED BY <2>1, <2>2, <1>1, <1>3, <1>4
  <1> QED BY <1>5, <1>6

\* The stack with the iterator of its last block moved on and a block pushed.
Pushed(st, j, n) == Append([st EXCEPT ![Len(st)].at = j], [block |-> n, at |-> 1])

\* What such a stack is made of.
PushedIs(ps, st, j, n) ==
  LET l == Len(st)
  IN /\ ps \in Seq(Frames) /\ Len(ps) = l + 1
     /\ l \in Nat /\ l \in 1 .. l
     /\ ps[l + 1].block = n /\ ps[l + 1].at = 1 /\ ps[l].at = j
     /\ \A i \in 1 .. l : ps[i].block = st[i].block
     /\ \A i \in 1 .. l + 1 : ps[i].block \in Numbers
     /\ \A i \in 1 .. l - 1 : ps[i].at = st[i].at
     /\ On(ps) = On(st) \cup {n}

LEMMA PushedFacts ==
    ASSUME NEW st \in Seq(Frames), Len(st) > 0, NEW j \in Nat, NEW n \in Numbers
    PROVE  PushedIs(Pushed(st, j, n), st, j, n)
  <1> DEFINE l == Len(st)
             es == [st EXCEPT ![l].at = j]
             ps == Pushed(st, j, n)
  <1>0. l \in Nat /\ l \in 1 .. l
    OBVIOUS
  <1>1. l \in Nat /\ l \in 1 .. l /\ st[l] \in Frames
    BY <1>0
  <1>2. es \in Seq(Frames) /\ Len(es) = l
    <2>1. [st[l] EXCEPT !.at = j] \in Frames
      BY <1>1 DEF Frames
    <2>2. es = [st EXCEPT ![l] = [st[l] EXCEPT !.at = j]]
      OBVIOUS
    <2> HIDE DEF es
    <2> QED BY <2>1, <2>2, <1>0
  <1>3. /\ es[l].at = j
        /\ \A i \in 1 .. l : es[i].block = st[i].block
        /\ \A i \in 1 .. l - 1 : es[i].at = st[i].at
    BY <1>1 DEF Frames
  <1>4. ps = Append(es, [block |-> n, at |-> 1])
    BY DEF Pushed
  <1> HIDE DEF es
  <1>5. /\ ps \in Seq(Frames) /\ Len(ps) = l + 1
        /\ ps[l + 1] = [block |-> n, at |-> 1] /\ \A i \in 1 .. l : ps[i] = es[i]
    <2>1. [block |-> n, at |-> 1] \in Frames
      BY DEF Frames
    <2> HIDE DEF ps
    <2> QED BY <2>1, <1>1, <1>2, <1>4
  <1> HIDE DEF ps
  <1>6. \A i \in 1 .. l - 1 : i \in 1 .. l
    BY <1>1
  <1>7. /\ ps[l + 1].block = n /\ ps[l + 1].at = 1 /\ ps[l].at = j
        /\ \A i \in 1 .. l : ps[i].block = st[i].block
        /\ \A i \in 1 .. l - 1 : ps[i].at = st[i].at
    <2>1. ps[l + 1].block = n /\ ps[l + 1].at = 1
      BY <1>5
    <2> HIDE DEF l
    <2>2. ps[l].at = j
      BY <1>1, <1>3, <1>5
    <2>3. \A i \in 1 .. l : ps[i].block = st[i].block
      BY <1>3, <1>5
    <2>4. \A i \in 1 .. l - 1 : ps[i].at = st[i].at
      BY <1>3, <1>5, <1>6
    <2> QED BY <2>1, <2>2, <2>3, <2>4
  <1>8. On(ps) = On(st) \cup {n}
    <2>1. 1 .. l + 1 = (1 .. l) \cup {l + 1}
      BY <1>1
    <2>2. On(st) = {st[i].block : i \in 1 .. l}
      BY DEF On
    <2>3. On(ps) = {ps[i].block : i \in 1 .. l + 1}
      BY <1>5 DEF On
    <2> HIDE DEF l
    <2>4. {ps[i].block : i \in 1 .. l + 1} = {ps[i].block : i \in 1 .. l} \cup {ps[l + 1].block}
      BY <2>1
    <2>5. {ps[i].block : i \in 1 .. l} = {st[i].block : i \in 1 .. l}
      BY <1>7
    <2> QED BY <2>2, <2>3, <2>4, <2>5, <1>7
  <1>9. \A i \in 1 .. l + 1 : ps[i].block \in Numbers
    <2>1. \A i \in 1 .. l + 1 : ps[i] \in Frames
      BY <1>5
    <2> QED BY <2>1 DEF Frames
  <1> QED BY <1>1, <1>5, <1>7, <1>8, <1>9 DEF ps, PushedIs

\* A block n that a step may push: the iterator of the last block moves on to
\* j, passing visited blocks only, and finds the back edges new.
MayPush(s, e, st, vis, vg, j, n, new) ==
  LET b == st[Len(st)].block
      at == st[Len(st)].at
  IN /\ Len(st) > 0 /\ j \in Nat /\ at =< j /\ j =< Len(s[b]) + 1
     /\ n \in Numbers /\ n \notin vis
     /\ \A k \in at .. j - 1 : s[b][k] \in vis \/ s[b][k] = Ft(e, b)
     /\ \/ j =< Len(s[b]) /\ s[b][j] = n /\ n # Ft(e, b)
        \/ j = Len(s[b]) + 1 /\ n = Ft(e, b)
     /\ new = {<< b, s[b][i] >> : i \in {k \in at .. j - 1 :
                 s[b][k] # Ft(e, b) /\ s[b][k] \in vg}}

LEMMA PushKeeps ==
    ASSUME W!BlocksAssumption,
           NEW s, NEW e, NEW st, NEW vis, NEW vg, NEW be, NEW ord, NEW j, NEW n, NEW new,
           TraversalOK(s, e, st, vis, vg, be, ord),
           MayPush(s, e, st, vis, vg, j, n, new)
    PROVE  TraversalOK(s, e, Pushed(st, j, n), vis \cup {n}, vg \cup {n}, be \cup new, ord)
  <1> SUFFICES ASSUME NEW b, b = st[Len(st)].block, NEW at, at = st[Len(st)].at
               PROVE  TraversalOK(s, e, Pushed(st, j, n), vis \cup {n}, vg \cup {n},
                                  be \cup new, ord)
    OBVIOUS
  <1>0. /\ Len(st) > 0 /\ j \in Nat /\ at =< j /\ j =< Len(s[b]) + 1
        /\ n \in Numbers /\ n \notin vis
    BY DEF MayPush
  <1>a. \A k \in at .. j - 1 : s[b][k] \in vis \/ s[b][k] = Ft(e, b)
    BY DEF MayPush
  <1>b. \/ j =< Len(s[b]) /\ s[b][j] = n /\ n # Ft(e, b)
        \/ j = Len(s[b]) + 1 /\ n = Ft(e, b)
    BY DEF MayPush
  <1>c. new = {<< b, s[b][i] >> : i \in {k \in at .. j - 1 :
                 s[b][k] # Ft(e, b) /\ s[b][k] \in vg}}
    BY DEF MayPush
  <1> DEFINE ps == Pushed(st, j, n)
             l == Len(st)
             vis2 == vis \cup {n}
             vg2 == vg \cup {n}
             be2 == be \cup new
  <1>1. /\ GraphOK(s, e) /\ StackOK(s, e, st) /\ SetsOK(st, vis, vg, ord)
        /\ vis \subseteq ReachedBy(s)
        /\ EdgesOK(s, vis, vg, be, ord) /\ NextOK(e, ord)
        /\ PassedOK(s, e, st, be, ord) /\ FallsOK(s, e, st, vis, ord) /\ LaterOK(e, vis, be)
    BY DEF TraversalOK
  <1>2. st \in Seq(Frames) /\ Numbers \subseteq Nat
    BY <1>1 DEF StackOK, W!BlocksAssumption
  <1>3. /\ ps \in Seq(Frames) /\ Len(ps) = l + 1
        /\ l \in Nat /\ l \in 1 .. l
        /\ ps[l + 1].block = n /\ ps[l + 1].at = 1 /\ ps[l].at = j
        /\ \A i \in 1 .. l : ps[i].block = st[i].block
        /\ \A i \in 1 .. l + 1 : ps[i].block \in Numbers
        /\ \A i \in 1 .. l - 1 : ps[i].at = st[i].at
        /\ On(ps) = On(st) \cup {n}
    <2>1. PushedIs(ps, st, j, n)
      BY <1>0, <1>2, PushedFacts
    <2> HIDE DEF ps
    <2> QED BY <2>1 DEF PushedIs
  <1> HIDE DEF ps
  <1>4. b \in Numbers /\ at \in 1 .. Len(s[b]) + 1 /\ b \in vg /\ b \in vis
    BY <1>0, <1>1, <1>2, <1>3 DEF StackOK, SetsOK, On
  <1>5. /\ Ft(e, b) \in Numbers \cup {-1} /\ -1 \notin Numbers
        /\ Len(s[b]) \in Nat
        /\ \A k \in 1 .. Len(s[b]) : s[b][k] \in Numbers /\ s[b][k] # 0
        /\ Ft(e, b) # -1 => \E k \in 1 .. Len(s[b]) : s[b][k] = Ft(e, b)
    BY <1>1, <1>4, FtFacts
  <1>6. PICK m \in 1 .. Len(s[b]) : s[b][m] = n
    <2>1. CASE j =< Len(s[b]) /\ s[b][j] = n
      BY <1>0, <2>1, <1>4, <1>5
    <2>2. CASE n = Ft(e, b)
      BY <1>0, <2>2, <1>5
    <2> QED BY <1>b, <2>1, <2>2
  <1>7. \A i \in 1 .. l + 1 : i \in 1 .. l - 1 \/ i = l \/ i = l + 1
    BY <1>3
  <1>8. \A i \in 1 .. l - 1 : i \in 1 .. l /\ i + 1 \in 1 .. l
    BY <1>3
  <1>9. StackOK(s, e, ps)
    <2>1. \A i \in 1 .. l + 1 : ps[i].at \in 1 .. Len(s[ps[i].block]) + 1
      <3>1. \A i \in 1 .. l - 1 : ps[i].at \in 1 .. Len(s[ps[i].block]) + 1
        BY <1>1, <1>3, <1>8 DEF StackOK
      <3>2. ps[l].at \in 1 .. Len(s[ps[l].block]) + 1
        <4>1. j \in 1 .. Len(s[b]) + 1
          BY <1>0, <1>4, <1>5
        <4> QED BY <4>1, <1>3
      <3>3. ps[l + 1].at \in 1 .. Len(s[ps[l + 1].block]) + 1
        <4>1. Len(s[n]) \in Nat
          BY <1>0, <1>1, FtFacts
        <4> QED BY <4>1, <1>3
      <3> QED BY <3>1, <3>2, <3>3, <1>7
    <2>2. ASSUME NEW i \in 1 .. l + 1, NEW k \in 1 .. l + 1, ps[i].block = ps[k].block
          PROVE  i = k
      <3>1. \A x \in 1 .. l : ps[x].block \in vis
        BY <1>1, <1>3 DEF SetsOK, On
      <3>2. i \in 1 .. l \/ i = l + 1
        BY <1>3
      <3>3. k \in 1 .. l \/ k = l + 1
        BY <1>3
      <3>4. CASE i \in 1 .. l /\ k \in 1 .. l
        BY <3>4, <2>2, <1>1, <1>3 DEF StackOK
      <3> QED BY <1>0, <3>1, <3>2, <3>3, <3>4, <2>2, <1>3
    <2>3. ps[1].block = 0
      <3>1. 1 \in 1 .. l
        BY <1>3
      <3> QED BY <3>1, <1>1, <1>3 DEF StackOK
    <2>4. ASSUME NEW i \in 1 .. l
          PROVE  LET a == ps[i].block
                     c == ps[i + 1].block
                 IN \/ ps[i].at =< Len(s[a]) /\ s[a][ps[i].at] = c /\ c # Ft(e, a)
                    \/ ps[i].at = Len(s[a]) + 1 /\ c = Ft(e, a)
      <3>1. CASE i = l
        BY <1>b, <3>1, <1>3
      <3>2. CASE i \in 1 .. l - 1
        BY <3>2, <1>1, <1>3, <1>8 DEF StackOK
      <3> QED BY <3>1, <3>2, <1>3
    <2>5. (l + 1) - 1 = l
      BY <1>3
    <2> QED BY <2>1, <2>2, <2>3, <2>4, <2>5, <1>3 DEF StackOK
  <1>10. SetsOK(ps, vis2, vg2, ord)
    BY <1>0, <1>1, <1>3 DEF SetsOK
  <1>11. vis2 \subseteq ReachedBy(s)
    <2>1. b \in ReachedBy(s)
      BY <1>1, <1>4
    <2>2. ASSUME NEW S \in SUBSET Numbers, ClosedIn(s, S) PROVE n \in S
      <3>1. b \in S
        BY <2>1, <2>2 DEF ReachedBy
      <3> QED BY <3>1, <2>2, <1>6 DEF ClosedIn
    <2>3. n \in ReachedBy(s)
      BY <1>0, <2>2 DEF ReachedBy
    <2> QED BY <2>3, <1>1
  <1>12. \A a, c : << a, c >> \in be2 <=>
           \/ << a, c >> \in be
           \/ a = b /\ \E k \in at .. j - 1 : s[b][k] = c /\ c # Ft(e, b) /\ c \in vg
    BY <1>c
  <1> HIDE DEF be2
  <1>13. EdgesOK(s, vis2, vg2, be2, ord)
    <2> SUFFICES ASSUME NEW i \in 1 .. Len(ord), NEW k \in 1 .. Len(s[ord[i]])
                 PROVE  /\ s[ord[i]][k] \in vis2
                        /\ << ord[i], s[ord[i]][k] >> \in be2 <=>
                             (s[ord[i]][k] \in vg2 \/ Within(ord, i, s[ord[i]][k]))
      BY DEF EdgesOK
    <2>1. /\ s[ord[i]][k] \in vis
          /\ << ord[i], s[ord[i]][k] >> \in be <=>
               (s[ord[i]][k] \in vg \/ Within(ord, i, s[ord[i]][k]))
      BY <1>1 DEF EdgesOK
    <2>2. ord[i] # b
      BY <1>1, <1>4 DEF SetsOK, Members
    <2>3. s[ord[i]][k] # n
      BY <1>0, <2>1
    <2> QED BY <2>1, <2>2, <2>3, <1>12
  <1>14. PassedOK(s, e, ps, be2, ord)
    <2> SUFFICES ASSUME NEW i \in 1 .. l + 1, NEW k \in 1 .. Len(s[ps[i].block]),
                        NEW a, a = ps[i].block, NEW c, c = s[a][k]
                 PROVE  /\ c = Ft(e, a) \/ k >= ps[i].at => << a, c >> \notin be2
                        /\ k < ps[i].at /\ c # Ft(e, a) =>
                             \/ Among(ps, i, c) /\ << a, c >> \in be2
                             \/ c \in Members(ord) /\ << a, c >> \notin be2
      BY <1>3 DEF PassedOK
    <2>1. CASE i \in 1 .. l - 1
      <3>0. i \in 1 .. l /\ i # l /\ \A x \in 1 .. i : x \in 1 .. l
        BY <2>1, <1>3
      <3>1. /\ i \in 1 .. l /\ ps[i].at = st[i].at /\ a = st[i].block /\ i # l
            /\ \A x \in 1 .. i : x \in 1 .. l
        <4> HIDE DEF l
        <4> QED BY <3>0, <2>1, <1>3
      <3>2. a # b
        BY <3>1, <1>1, <1>3 DEF StackOK
      <3>3. /\ c = Ft(e, a) \/ k >= st[i].at => << a, c >> \notin be
            /\ k < st[i].at /\ c # Ft(e, a) =>
                 \/ Among(st, i, c) /\ << a, c >> \in be
                 \/ c \in Members(ord) /\ << a, c >> \notin be
        BY <3>1, <1>1 DEF PassedOK
      <3>4. << a, c >> \in be2 <=> << a, c >> \in be
        BY <3>2, <1>12
      <3>5. Among(st, i, c) => Among(ps, i, c)
        BY <3>1, <1>3 DEF Among
      <3> QED BY <3>1, <3>3, <3>4, <3>5
    <2>2. CASE i = l
      <3>1. a = b /\ ps[i].at = j /\ k \in 1 .. Len(s[b]) /\ c = s[b][k] /\ i \in 1 .. l
            /\ l \in 1 .. Len(st)
        BY <2>2, <1>3
      <3>2. /\ c = Ft(e, b) \/ k >= at => << b, c >> \notin be
            /\ k < at /\ c # Ft(e, b) =>
                 \/ Among(st, l, c) /\ << b, c >> \in be
                 \/ c \in Members(ord) /\ << b, c >> \notin be
        BY <3>1, <1>1 DEF PassedOK
      <3>3. \A x \in 1 .. Len(s[b]) : s[b][x] = c => x = k
        <4>1. \A x, y \in 1 .. Len(s[b]) : s[b][x] = s[b][y] => x = y
          BY <1>1, <1>4 DEF GraphOK
        <4> QED BY <4>1, <3>1
      <3>4. << b, c >> \in be2 <=>
              << b, c >> \in be \/ (k \in at .. j - 1 /\ c # Ft(e, b) /\ c \in vg)
        <4>0. /\ at \in Int /\ 1 =< at /\ j \in Nat /\ j =< Len(s[b]) + 1
              /\ Len(s[b]) \in Nat
          BY <1>0, <1>4, <1>5
        <4>1. \A x \in at .. j - 1 : x \in 1 .. Len(s[b])
          BY <4>0
        <4> QED BY <1>12, <3>1, <3>3, <4>1
      <3>6. c \in vg <=> Among(st, l, c)
        BY <1>1, <1>3 DEF SetsOK, On, Among
      <3>5. c \in vg <=> Among(ps, l, c)
        BY <3>6, <1>3 DEF Among
      <3>7. k \in Int /\ at \in Int /\ j \in Int
        BY <1>0, <1>4, <1>5
      <3>8. c = Ft(e, a) \/ k >= ps[i].at => << a, c >> \notin be2
        BY <1>0, <3>1, <3>2, <3>4, <3>7
      <3>9. ASSUME k < j, c # Ft(e, b)
            PROVE  \/ Among(ps, l, c) /\ << b, c >> \in be2
                   \/ c \in Members(ord) /\ << b, c >> \notin be2
        <4>1. CASE k < at
          <5>1. k \notin at .. j - 1
            BY <4>1, <3>7
          <5> QED BY <5>1, <4>1, <3>9, <3>2, <3>4, <3>5, <3>6
        <4>2. CASE ~(k < at)
          <5>1. k \in at .. j - 1 /\ k >= at
            BY <4>2, <3>7, <3>9
          <5>2. c \in vis
            BY <1>a, <5>1, <3>1, <3>9
          <5>3. c \in vg \/ c \in Members(ord)
            BY <5>2, <1>1 DEF SetsOK
          <5> QED BY <5>1, <5>3, <3>9, <3>2, <3>4, <3>5
        <4> QED BY <4>1, <4>2
      <3> QED BY <2>2, <3>1, <3>8, <3>9
    <2>3. CASE i = l + 1
      <3>1. a = n /\ ps[i].at = 1 /\ k >= 1 /\ ~(k < 1)
        BY <2>3, <1>3
      <3>2. << n, c >> \notin be
        BY <1>0, <1>1 DEF LaterOK
      <3>3. n # b
        BY <1>0, <1>4
      <3> QED BY <3>1, <3>2, <3>3, <1>12
    <2> QED BY <1>7, <2>1, <2>2, <2>3
  <1>15. \A a \in Numbers : Ft(e, a) = n => a = b
    BY <1>0, <1>1, <1>4, <1>6, FtFacts
  <1>16. LaterOK(e, vis2, be2)
    <2> SUFFICES ASSUME NEW a \in Numbers, a \notin vis2
                 PROVE  Ft(e, a) \notin vis2 /\ \A c : << a, c >> \notin be2
      BY DEF LaterOK
    <2>1. Ft(e, a) \notin vis /\ \A c : << a, c >> \notin be
      BY <1>1 DEF LaterOK
    <2>2. a # b
      BY <1>4
    <2> QED BY <2>1, <2>2, <1>12, <1>15
  <1>17. FallsOK(s, e, ps, vis2, ord)
    <2> SUFFICES ASSUME NEW i \in 1 .. l + 1, Ft(e, ps[i].block) \in vis2
                 PROVE  /\ ps[i].at = Len(s[ps[i].block]) + 1
                        /\ i < l + 1 \/ (Len(ord) > 0 /\ ord[1] = Ft(e, ps[i].block))
      BY <1>3 DEF FallsOK
    <2>1. CASE i \in 1 .. l - 1
      <3>1. /\ i \in 1 .. l /\ ps[i].at = st[i].at /\ ps[i].block = st[i].block /\ i # l
            /\ i < l + 1 /\ ps[i].block \in Numbers
        BY <2>1, <1>3, <1>8
      <3>2. ps[i].block # b
        BY <3>1, <1>1, <1>3 DEF StackOK
      <3>3. Ft(e, ps[i].block) \in vis
        BY <3>1, <3>2, <1>15
      <3> QED BY <3>1, <3>3, <1>1 DEF FallsOK
    <2>2. CASE i = l
      <3>1. ps[i].block = b /\ ps[i].at = j /\ i < l + 1 /\ l \in 1 .. l
        BY <2>2, <1>3
      <3>2. CASE Ft(e, b) = n
        BY <1>b, <3>1, <3>2
      <3>3. CASE Ft(e, b) # n
        <4>1. Ft(e, b) \in vis
          BY <3>1, <3>3
        <4>2. at = Len(s[b]) + 1
          BY <4>1, <3>1, <1>1 DEF FallsOK
        <4> QED BY <1>0, <4>2, <3>1, <1>4, <1>5
      <3> QED BY <3>2, <3>3
    <2>3. CASE i = l + 1
      <3>1. Ft(e, n) \notin vis
        BY <1>0, <1>1 DEF LaterOK
      <3>2. Ft(e, n) # n
        BY <1>0, <1>1, FtFacts
      <3> QED BY <2>3, <3>1, <3>2, <1>3
    <2> QED BY <1>7, <2>1, <2>2, <2>3
  <1> QED BY <1>1, <1>9, <1>10, <1>11, <1>13, <1>14, <1>16, <1>17 DEF TraversalOK, ps, be2

\* The fall-through of the last block of the stack is not on the stack.
LEMMA FallsOffStack ==
    ASSUME W!BlocksAssumption, NEW s, NEW e, NEW st, GraphOK(s, e), StackOK(s, e, st),
           Len(st) > 0, NEW b, b = st[Len(st)].block
    PROVE  Ft(e, b) \notin On(st)
  <1> DEFINE l == Len(st)
  <1>1. /\ l \in Nat /\ l \in 1 .. l
        /\ \A i \in 1 .. l : st[i] \in Frames
    BY DEF StackOK
  <1>2. \A i \in 1 .. l : st[i].block \in Numbers
    BY <1>1 DEF Frames
  <1>3. SUFFICES ASSUME NEW i \in 1 .. l, st[i].block = Ft(e, b) PROVE FALSE
    BY DEF On
  <1>4. b \in Numbers /\ Ft(e, b) \in Numbers /\ -1 \notin Numbers
    BY <1>1, <1>2, <1>3, FtFacts
  <1>5. Ft(e, b) # 0 /\ \A a \in Numbers : \A k \in 1 .. Len(s[a]) : s[a][k] = Ft(e, b) => a = b
    BY <1>4, FtFacts
  <1>6. i # 1
    BY <1>3, <1>5 DEF StackOK
  <1>7. i - 1 \in 1 .. l - 1 /\ i - 1 \in 1 .. l /\ (i - 1) + 1 = i /\ i - 1 # l
    BY <1>1, <1>6
  <1> DEFINE a == st[i - 1].block
             at == st[i - 1].at
  <1>8. /\ a \in Numbers /\ at \in 1 .. Len(s[a]) + 1
        /\ \/ at =< Len(s[a]) /\ s[a][at] = Ft(e, b)
           \/ Ft(e, b) = Ft(e, a)
    BY <1>2, <1>3, <1>7 DEF StackOK
  <1>9. a = b
    <2>1. Len(s[a]) \in Nat
      BY <1>8, FtFacts
    <2>2. CASE at =< Len(s[a]) /\ s[a][at] = Ft(e, b)
      <3>1. at \in 1 .. Len(s[a])
        BY <2>1, <2>2, <1>8
      <3> QED BY <3>1, <2>2, <1>5, <1>8
    <2>3. CASE Ft(e, b) = Ft(e, a)
      <3>1. \E k \in 1 .. Len(s[a]) : s[a][k] = Ft(e, b)
        BY <2>3, <1>4, <1>8, FtFacts
      <3> QED BY <3>1, <1>5, <1>8
    <2> QED BY <2>2, <2>3, <1>8
  <1> QED BY <1>1, <1>7, <1>9 DEF StackOK

\* The stack without its last block, and the order with it in front.
PoppedIs(fs, st, b) ==
  LET l == Len(st)
  IN /\ l \in Nat /\ l \in 1 .. l /\ b \in Numbers
     /\ fs \in Seq(Frames) /\ Len(fs) = l - 1
     /\ \A i \in 1 .. l - 1 : fs[i] = st[i] /\ i \in 1 .. l /\ i # l
     /\ On(fs) = On(st) \ {b}
PrependedIs(os, ord, b) ==
  /\ os \in Seq(Numbers) /\ Len(os) = Len(ord) + 1 /\ os[1] = b
  /\ \A i \in 1 .. Len(ord) : os[i + 1] = ord[i] /\ i + 1 \in 1 .. Len(os)
  /\ \A i \in 1 .. Len(os) : i = 1 \/ (i - 1 \in 1 .. Len(ord) /\ os[i] = ord[i - 1])
  /\ Members(os) = Members(ord) \cup {b}

LEMMA LeftFacts ==
    ASSUME NEW s, NEW e, NEW st, StackOK(s, e, st), Len(st) > 0,
           NEW ord \in Seq(Numbers), NEW b, b = st[Len(st)].block
    PROVE  /\ PoppedIs(SubSeq(st, 1, Len(st) - 1), st, b)
           /\ PrependedIs(<< b >> \o ord, ord, b)
  <1> DEFINE l == Len(st)
             fs == SubSeq(st, 1, l - 1)
             os == << b >> \o ord
  <1>1. st \in Seq(Frames) /\ l \in Nat /\ l \in 1 .. l /\ st[l] \in Frames
    BY DEF StackOK
  <1>2. b \in Numbers
    BY <1>1 DEF Frames
  <1>3. /\ fs \in Seq(Frames) /\ Len(fs) = l - 1
        /\ \A i \in 1 .. l - 1 : fs[i] = st[i] /\ i \in 1 .. l /\ i # l
    <2>1. l - 1 \in Nat /\ l - 1 =< Len(st) /\ \A i \in 1 .. l - 1 : i \in 1 .. l /\ i # l
      BY <1>1
    <2>2. fs \in Seq(Frames)
      BY <1>1, <2>1
    <2>3. \A i \in 1 .. l - 1 : fs[i] = st[i]
      BY <1>1, <2>1
    <2>4. CASE l = 1
      <3>1. Len(SubSeq(st, 1, 0)) = 0
        BY <1>1, <2>4
      <3> QED BY <3>1, <2>1, <2>2, <2>3, <2>4
    <2>5. CASE l > 1
      <3>1. Len(fs) = l - 1
        BY <1>1, <2>5
      <3> QED BY <3>1, <2>1, <2>2, <2>3
    <2>6. l = 1 \/ l > 1
      BY <1>1
    <2> HIDE DEF l, fs
    <2> QED BY <2>4, <2>5, <2>6
  <1>4. On(fs) = On(st) \ {b}
    <2>1. On(fs) = {fs[i].block : i \in 1 .. l - 1}
      BY <1>3 DEF On
    <2>2. On(st) = {st[i].block : i \in 1 .. l}
      BY DEF On
    <2>3. \A i \in 1 .. l : i \in 1 .. l - 1 \/ i = l
      BY <1>1
    <2>4. \A i \in 1 .. l - 1 : st[i].block # b
      BY <1>1, <1>3 DEF StackOK
    <2> HIDE DEF l, fs
    <2>5. {fs[i].block : i \in 1 .. l - 1} = {st[i].block : i \in 1 .. l - 1}
      BY <1>3
    <2>6. {st[i].block : i \in 1 .. l} = {st[i].block : i \in 1 .. l - 1} \cup {st[l].block}
      BY <2>3, <1>1, <1>3
    <2>7. st[l].block = b
      BY DEF l
    <2> QED BY <2>1, <2>2, <2>4, <2>5, <2>6, <2>7
  <1>5. /\ os \in Seq(Numbers) /\ Len(os) = Len(ord) + 1 /\ os[1] = b
        /\ \A i \in 1 .. Len(ord) : os[i + 1] = ord[i] /\ i + 1 \in 1 .. Len(os)
    BY <1>2
  <1> HIDE DEF os
  <1>6. ASSUME NEW i \in 1 .. Len(os), i # 1
        PROVE  i - 1 \in 1 .. Len(ord) /\ os[i] = ord[i - 1]
    <2>1. i - 1 \in 1 .. Len(ord) /\ (i - 1) + 1 = i
      BY <1>5, <1>6
    <2>2. os[(i - 1) + 1] = ord[i - 1]
      BY <1>5, <2>1
    <2> QED BY <2>1, <2>2
  <1>7. Members(os) = Members(ord) \cup {b}
    <2>1. 1 \in 1 .. Len(os)
      BY <1>5
    <2> QED BY <2>1, <1>5, <1>6 DEF Members
  <1>8. PoppedIs(fs, st, b)
    <2> HIDE DEF fs
    <2> QED BY <1>1, <1>2, <1>3, <1>4 DEF PoppedIs
  <1>9. PrependedIs(os, ord, b)
    BY <1>5, <1>6, <1>7 DEF PrependedIs
  <1> QED BY <1>8, <1>9 DEF os

\* The last block b may be left: the iterator passes visited blocks only,
\* finding the back edges new, and the fall-through is visited.
MayLeave(s, e, st, vis, vg, b, new) ==
  LET at == st[Len(st)].at
  IN /\ Len(st) > 0 /\ b = st[Len(st)].block
     /\ \A k \in at .. Len(s[b]) : s[b][k] \in vis \/ s[b][k] = Ft(e, b)
     /\ Ft(e, b) = -1 \/ Ft(e, b) \in vis
     /\ new = {<< b, s[b][i] >> : i \in {k \in at .. Len(s[b]) :
                 s[b][k] # Ft(e, b) /\ s[b][k] \in vg}}

LEMMA LeaveKeeps ==
    ASSUME W!BlocksAssumption,
           NEW s, NEW e, NEW st, NEW vis, NEW vg, NEW be, NEW ord, NEW b, NEW new,
           TraversalOK(s, e, st, vis, vg, be, ord),
           MayLeave(s, e, st, vis, vg, b, new)
    PROVE  TraversalOK(s, e, SubSeq(st, 1, Len(st) - 1), vis, vg \ {b}, be \cup new,
                       << b >> \o ord)
  <1> SUFFICES ASSUME Len(st) > 0, b = st[Len(st)].block, NEW at, at = st[Len(st)].at
               PROVE  TraversalOK(s, e, SubSeq(st, 1, Len(st) - 1), vis, vg \ {b},
                                  be \cup new, << b >> \o ord)
    BY DEF MayLeave
  <1>a. \A k \in at .. Len(s[b]) : s[b][k] \in vis \/ s[b][k] = Ft(e, b)
    BY DEF MayLeave
  <1>b. Ft(e, b) = -1 \/ Ft(e, b) \in vis
    BY DEF MayLeave
  <1>c. new = {<< b, s[b][i] >> : i \in {k \in at .. Len(s[b]) :
                 s[b][k] # Ft(e, b) /\ s[b][k] \in vg}}
    BY DEF MayLeave
  <1> DEFINE l == Len(st)
             fs == SubSeq(st, 1, l - 1)
             os == << b >> \o ord
             vg2 == vg \ {b}
             be2 == be \cup new
  <1>1. /\ GraphOK(s, e) /\ StackOK(s, e, st) /\ SetsOK(st, vis, vg, ord)
        /\ vis \subseteq ReachedBy(s)
        /\ EdgesOK(s, vis, vg, be, ord) /\ NextOK(e, ord)
        /\ PassedOK(s, e, st, be, ord) /\ FallsOK(s, e, st, vis, ord) /\ LaterOK(e, vis, be)
    BY DEF TraversalOK
  <1>2. ord \in Seq(Numbers) /\ Len(ord) \in Nat
    BY <1>1 DEF SetsOK
  <1>3. /\ l \in Nat /\ l \in 1 .. l /\ b \in Numbers
        /\ fs \in Seq(Frames) /\ Len(fs) = l - 1
        /\ \A i \in 1 .. l - 1 : fs[i] = st[i] /\ i \in 1 .. l /\ i # l
        /\ On(fs) = On(st) \ {b}
    <2>1. PoppedIs(fs, st, b)
      BY <1>1, <1>2, LeftFacts
    <2> HIDE DEF fs
    <2> QED BY <2>1 DEF PoppedIs
  <1>4. /\ os \in Seq(Numbers) /\ Len(os) = Len(ord) + 1 /\ os[1] = b
        /\ \A i \in 1 .. Len(ord) : os[i + 1] = ord[i] /\ i + 1 \in 1 .. Len(os)
        /\ \A i \in 1 .. Len(os) : i = 1 \/ (i - 1 \in 1 .. Len(ord) /\ os[i] = ord[i - 1])
        /\ Members(os) = Members(ord) \cup {b}
    <2>1. PrependedIs(os, ord, b)
      BY <1>1, <1>2, LeftFacts
    <2> HIDE DEF os
    <2> QED BY <2>1 DEF PrependedIs
  <1> HIDE DEF fs, os
  <1>5. at \in 1 .. Len(s[b]) + 1 /\ b \in vg /\ b \in vis /\ b \notin Members(ord)
    BY <1>1, <1>3 DEF StackOK, SetsOK, On
  <1>6. /\ Ft(e, b) \in Numbers \cup {-1} /\ -1 \notin Numbers
        /\ Len(s[b]) \in Nat
        /\ \A k \in 1 .. Len(s[b]) : s[b][k] \in Numbers /\ s[b][k] # 0
    BY <1>1, <1>3, FtFacts
  <1>7. Ft(e, b) \notin vg
    BY <1>1, FallsOffStack DEF SetsOK
  <1>8. StackOK(s, e, fs)
    <2>1. \A i \in 1 .. (l - 1) - 1 : i \in 1 .. l - 1 /\ i + 1 \in 1 .. l - 1
      BY <1>3
    <2>2. l - 1 > 0 => 1 \in 1 .. l - 1
      BY <1>3
    <2>3. \A i \in 1 .. l - 1 : fs[i].at \in 1 .. Len(s[fs[i].block]) + 1
      BY <1>1, <1>3 DEF StackOK
    <2>4. \A i, j \in 1 .. l - 1 : fs[i].block = fs[j].block => i = j
      BY <1>1, <1>3 DEF StackOK
    <2>5. l - 1 > 0 => fs[1].block = 0
      BY <1>1, <1>3, <2>2 DEF StackOK
    <2>6. ASSUME NEW i \in 1 .. (l - 1) - 1
          PROVE  LET a == fs[i].block
                     c == fs[i + 1].block
                 IN \/ fs[i].at =< Len(s[a]) /\ s[a][fs[i].at] = c /\ c # Ft(e, a)
                    \/ fs[i].at = Len(s[a]) + 1 /\ c = Ft(e, a)
      <3>1. i \in 1 .. l - 1 /\ fs[i] = st[i] /\ fs[i + 1] = st[i + 1]
        BY <2>1, <1>3
      <3> QED BY <3>1, <1>1 DEF StackOK
    <2> QED BY <2>3, <2>4, <2>5, <2>6, <1>3 DEF StackOK
  <1>9. SetsOK(fs, vis, vg2, os)
    <2>1. Once(os)
      <3> SUFFICES ASSUME NEW i \in 1 .. Len(os), NEW k \in 1 .. Len(os), os[i] = os[k]
                   PROVE  i = k
        BY DEF Once
      <3>1. \A x \in 1 .. Len(ord) : ord[x] # b
        BY <1>5 DEF Members
      <3>2. CASE i = 1 \/ k = 1
        BY <3>1, <3>2, <1>4
      <3>3. CASE i # 1 /\ k # 1
        <4>1. /\ i - 1 \in 1 .. Len(ord) /\ k - 1 \in 1 .. Len(ord)
              /\ ord[i - 1] = ord[k - 1]
          BY <3>3, <1>4
        <4>2. i - 1 = k - 1
          BY <4>1, <1>1 DEF SetsOK, Once
        <4> QED BY <4>2
      <3> QED BY <3>2, <3>3
    <2> QED BY <2>1, <1>1, <1>3, <1>4, <1>5 DEF SetsOK
  <1>10. \A a, c : << a, c >> \in be2 <=>
           \/ << a, c >> \in be
           \/ a = b /\ \E k \in at .. Len(s[b]) : s[b][k] = c /\ c # Ft(e, b) /\ c \in vg
    BY <1>c
  <1> HIDE DEF be2
  <1>11. EdgesOK(s, vis, vg2, be2, os)
    <2> SUFFICES ASSUME NEW i \in 1 .. Len(os), NEW k \in 1 .. Len(s[os[i]]),
                        NEW a, a = os[i], NEW c, c = s[a][k]
                 PROVE  c \in vis /\ (<< a, c >> \in be2 <=> (c \in vg2 \/ Within(os, i, c)))
      BY DEF EdgesOK
    <2>1. CASE i = 1
      <3>1. a = b /\ k \in 1 .. Len(s[b]) /\ c = s[b][k] /\ c \in Numbers
        BY <2>1, <1>4, <1>6
      <3>2. Within(os, i, c) <=> c = b
        <4>1. 1 .. 1 = {1}
          OBVIOUS
        <4> QED BY <4>1, <2>1, <1>4 DEF Within
      <3>3. /\ c = Ft(e, b) \/ k >= at => << b, c >> \notin be
            /\ k < at /\ c # Ft(e, b) =>
                 \/ Among(st, l, c) /\ << b, c >> \in be
                 \/ c \in Members(ord) /\ << b, c >> \notin be
        <4>1. l \in 1 .. Len(st) /\ st[l].block = b /\ st[l].at = at
          BY <1>3
        <4> QED BY <4>1, <3>1, <1>1 DEF PassedOK
      <3>4. \A x \in 1 .. Len(s[b]) : s[b][x] = c => x = k
        <4>1. \A x, y \in 1 .. Len(s[b]) : s[b][x] = s[b][y] => x = y
          BY <1>1, <1>3 DEF GraphOK
        <4> QED BY <3>1, <4>1
      <3>5. << b, c >> \in be2 <=>
              << b, c >> \in be \/ (k \in at .. Len(s[b]) /\ c # Ft(e, b) /\ c \in vg)
        <4>1. \A x \in at .. Len(s[b]) : x \in 1 .. Len(s[b])
          BY <1>5, <1>6
        <4> QED BY <1>10, <3>1, <3>4, <4>1
      <3>6. Among(st, l, c) => c \in vg
        BY <1>1, <1>3 DEF SetsOK, On, Among
      <3>7. c \in vg => c \notin Members(ord)
        BY <1>1 DEF SetsOK
      <3>8. Members(ord) \subseteq vis /\ vg \subseteq vis
        BY <1>1 DEF SetsOK
      <3>9. k \in Int /\ at \in Int /\ (k \in at .. Len(s[b]) <=> k >= at)
        BY <1>5, <1>6, <3>1
      <3>10. CASE c = Ft(e, b)
        <4>1. c \in vis /\ c \notin vg /\ c # b
          BY <1>b, <3>10, <3>1, <1>5, <1>6, <1>7
        <4> QED BY <4>1, <3>10, <3>1, <3>2, <3>3, <3>5
      <3>11. CASE c # Ft(e, b) /\ k < at
        <4>1. k \notin at .. Len(s[b])
          BY <3>11, <3>9
        <4>2. << b, c >> \in be2 <=> << b, c >> \in be
          BY <3>5, <4>1
        <4>3. << b, c >> \in be <=> c \in vg
          BY <3>3, <3>6, <3>7, <3>11
        <4>4. c \in vis
          BY <3>3, <3>6, <3>8, <3>11
        <4> QED BY <4>2, <4>3, <4>4, <3>1, <3>2, <1>5
      <3>12. CASE c # Ft(e, b) /\ ~(k < at)
        <4>1. k >= at /\ k \in at .. Len(s[b])
          BY <3>12, <3>9
        <4>2. << b, c >> \in be2 <=> c \in vg
          BY <3>3, <3>5, <3>12, <4>1
        <4>3. c \in vis
          BY <1>a, <3>1, <3>12, <4>1
        <4> QED BY <4>2, <4>3, <3>1, <3>2, <1>5
      <3> QED BY <3>10, <3>11, <3>12
    <2>2. CASE i # 1
      <3>1. i - 1 \in 1 .. Len(ord) /\ a = ord[i - 1] /\ i \in Int
        BY <2>2, <1>4
      <3>2. c \in vis /\ (<< a, c >> \in be <=> (c \in vg \/ Within(ord, i - 1, c)))
        BY <3>1, <1>1 DEF EdgesOK
      <3>3. a # b
        BY <3>1, <1>5 DEF Members
      <3>4. Within(os, i, c) <=> c = b \/ Within(ord, i - 1, c)
        <4>1. ASSUME NEW x \in 1 .. i, os[x] = c PROVE c = b \/ Within(ord, i - 1, c)
          <5>1. x \in 1 .. Len(os) /\ (x # 1 => x - 1 \in 1 .. i - 1)
            BY <3>1, <1>2, <1>4
          <5> QED BY <5>1, <4>1, <1>4 DEF Within
        <4>2. ASSUME NEW x \in 1 .. i - 1, ord[x] = c PROVE Within(os, i, c)
          <5>1. x \in 1 .. Len(ord) /\ x + 1 \in 1 .. i
            BY <3>1, <1>2
          <5> QED BY <5>1, <4>2, <1>4 DEF Within
        <4>3. 1 \in 1 .. i
          BY <3>1
        <4> QED BY <4>1, <4>2, <4>3, <1>4 DEF Within
      <3> QED BY <3>2, <3>3, <3>4, <1>5, <1>10
    <2> QED BY <2>1, <2>2
  <1>12. NextOK(e, os)
    <2> SUFFICES ASSUME NEW i \in 1 .. Len(os), e[os[i]] # -1
                 PROVE  i + 1 \in 1 .. Len(os) /\ os[i + 1] = e[os[i]]
      BY DEF NextOK
    <2>1. CASE i = 1
      <3>1. e[b] # -1 /\ Ft(e, b) = e[b]
        BY <2>1, <1>1, <1>3, <1>4, FtFacts
      <3>2. Ft(e, b) \in vis
        BY <1>b, <3>1
      <3>3. Len(ord) > 0 /\ ord[1] = e[b]
        BY <3>1, <3>2, <1>1, <1>3 DEF FallsOK
      <3>4. 1 \in 1 .. Len(ord)
        BY <3>3, <1>2
      <3> QED BY <2>1, <3>3, <3>4, <1>4
    <2>2. CASE i # 1
      <3>1. i - 1 \in 1 .. Len(ord) /\ os[i] = ord[i - 1] /\ i \in Int
        BY <2>2, <1>4
      <3>2. (i - 1) + 1 \in 1 .. Len(ord) /\ ord[(i - 1) + 1] = e[os[i]]
        BY <3>1, <1>1 DEF NextOK
      <3>3. (i - 1) + 1 = i
        BY <3>1
      <3> QED BY <3>2, <3>3, <1>4
    <2> QED BY <2>1, <2>2
  <1>13. \A i \in 1 .. l - 1 : fs[i].block # b
    BY <1>1, <1>3 DEF StackOK
  <1>14. PassedOK(s, e, fs, be2, os)
    <2> SUFFICES ASSUME NEW i \in 1 .. l - 1, NEW k \in 1 .. Len(s[fs[i].block]),
                        NEW a, a = fs[i].block, NEW c, c = s[a][k]
                 PROVE  /\ c = Ft(e, a) \/ k >= fs[i].at => << a, c >> \notin be2
                        /\ k < fs[i].at /\ c # Ft(e, a) =>
                             \/ Among(fs, i, c) /\ << a, c >> \in be2
                             \/ c \in Members(os) /\ << a, c >> \notin be2
      BY <1>3 DEF PassedOK
    <2>0. i \in 1 .. l /\ \A x \in 1 .. i : x \in 1 .. l - 1
      <3>1. l \in Nat
        BY <1>3
      <3> HIDE DEF l
      <3> QED BY <3>1
    <2>1. /\ i \in 1 .. l /\ fs[i] = st[i] /\ a # b
          /\ \A x \in 1 .. i : x \in 1 .. l - 1
      BY <1>3, <1>13, <2>0
    <2>2. /\ c = Ft(e, a) \/ k >= st[i].at => << a, c >> \notin be
          /\ k < st[i].at /\ c # Ft(e, a) =>
               \/ Among(st, i, c) /\ << a, c >> \in be
               \/ c \in Members(ord) /\ << a, c >> \notin be
      BY <2>1, <1>1 DEF PassedOK
    <2>3. << a, c >> \in be2 <=> << a, c >> \in be
      BY <2>1, <1>10
    <2>4. Among(st, i, c) => Among(fs, i, c)
      BY <2>1, <1>3 DEF Among
    <2> QED BY <2>1, <2>2, <2>3, <2>4, <1>4
  <1>15. FallsOK(s, e, fs, vis, os)
    <2> SUFFICES ASSUME NEW i \in 1 .. l - 1, Ft(e, fs[i].block) \in vis
                 PROVE  /\ fs[i].at = Len(s[fs[i].block]) + 1
                        /\ i < l - 1 \/ (Len(os) > 0 /\ os[1] = Ft(e, fs[i].block))
      BY <1>3 DEF FallsOK
    <2>1. i \in 1 .. l /\ fs[i] = st[i] /\ i \in 1 .. Len(st) - 1
      BY <1>3
    <2>2. st[i].at = Len(s[st[i].block]) + 1
      BY <2>1, <1>1 DEF FallsOK
    <2>3. CASE i = l - 1
      <3>1. i + 1 = l /\ st[i + 1].block = b
        BY <2>3, <1>3
      <3>2. Len(s[st[i].block]) \in Nat
        <4>1. st[i] \in Frames
          BY <2>1, <1>1 DEF StackOK
        <4> QED BY <4>1, <1>1, FtFacts DEF Frames
      <3>3. b = Ft(e, st[i].block)
        BY <2>1, <2>2, <3>1, <3>2, <1>1 DEF StackOK
      <3>4. Len(os) > 0
        BY <1>2, <1>4
      <3> QED BY <2>1, <2>2, <3>3, <3>4, <1>4
    <2>4. CASE i # l - 1
      BY <2>1, <2>2, <2>4, <1>3
    <2> QED BY <2>3, <2>4
  <1>16. LaterOK(e, vis, be2)
    <2> SUFFICES ASSUME NEW a \in Numbers, a \notin vis
                 PROVE  Ft(e, a) \notin vis /\ \A c : << a, c >> \notin be2
      BY DEF LaterOK
    <2>1. Ft(e, a) \notin vis /\ \A c : << a, c >> \notin be
      BY <1>1 DEF LaterOK
    <2>2. a # b
      BY <1>5
    <2> QED BY <2>1, <2>2, <1>10
  <1>17. TraversalOK(s, e, fs, vis, vg2, be2, os)
    BY <1>1, <1>8, <1>9, <1>11, <1>12, <1>14, <1>15, <1>16 DEF TraversalOK
  <1> QED BY <1>17 DEF fs, os, be2

\* The traversal starts with the entry.
LEMMA TraversalInit ==
    ASSUME W!BlocksAssumption, W!Init
    PROVE  TraversalInv
  <1>1. /\ forward \in BOOLEAN /\ successors \in [Numbers -> W!Successions]
        /\ extends \in [Numbers -> Numbers \cup {-1}]
        /\ \A b \in Numbers : extends[b] # -1 =>
             /\ ~forward /\ extends[b] \in W!Range(successors[b])
             /\ W!Predecessors(extends[b]) = {b} /\ extends[b] # b
        /\ stack = << [block |-> 0, at |-> 1] >>
        /\ visited = {0} /\ visiting = {0} /\ backEdges = {} /\ order = << >>
    BY DEF W!Init, W!NoBlock, W!Entry
  <1>2. 0 \in Numbers /\ Numbers \subseteq Nat /\ MaxDegree \in Nat
    BY DEF W!BlocksAssumption
  <1>3. ASSUME NEW b \in Numbers
        PROVE  /\ successors[b] \in Seq(Numbers \ {0}) /\ Len(successors[b]) \in Nat
               /\ DOMAIN successors[b] = 1 .. Len(successors[b])
               /\ \A i, j \in 1 .. Len(successors[b]) :
                    successors[b][i] = successors[b][j] => i = j
    <2>1. successors[b] \in W!Successions
      BY <1>1
    <2>2. PICK k \in 0 .. MaxDegree : successors[b] \in [1 .. k -> Numbers \ {0}]
      BY <2>1 DEF W!Successions, W!Entry
    <2>3. \A i, j \in DOMAIN successors[b] : successors[b][i] = successors[b][j] => i = j
      BY <2>1 DEF W!Successions
    <2>4. k \in Nat
      BY <1>2
    <2>5. successors[b] \in Seq(Numbers \ {0}) /\ Len(successors[b]) = k
      BY <2>2, <2>4
    <2> QED BY <2>2, <2>3, <2>4, <2>5
  <1>4. GraphOK(successors, extends)
    <2>1. successors \in [Numbers -> Seq(Numbers \ {0})]
      BY <1>1, <1>3
    <2>2. ASSUME NEW b \in Numbers, extends[b] # -1
          PROVE  /\ extends[b] # b
                 /\ \E k \in 1 .. Len(successors[b]) : successors[b][k] = extends[b]
                 /\ \A a \in Numbers : \A k \in 1 .. Len(successors[a]) :
                      successors[a][k] = extends[b] => a = b
      <3>1. /\ extends[b] \in W!Range(successors[b])
            /\ W!Predecessors(extends[b]) = {b} /\ extends[b] # b
        BY <1>1, <2>2
      <3>2. \A a \in Numbers : W!Range(successors[a]) =
              {successors[a][k] : k \in 1 .. Len(successors[a])}
        BY <1>3, SameNotionsW
      <3>3. \A a \in Numbers : extends[b] \in W!Range(successors[a]) => a = b
        BY <3>1 DEF W!Predecessors
      <3>4. \E k \in 1 .. Len(successors[b]) : successors[b][k] = extends[b]
        BY <3>1, <3>2
      <3>5. ASSUME NEW a \in Numbers, NEW k \in 1 .. Len(successors[a]),
                   successors[a][k] = extends[b]
            PROVE  a = b
        BY <3>2, <3>3, <3>5
      <3> QED BY <3>1, <3>4, <3>5
    <2> QED BY <2>1, <2>2, <1>1, <1>3 DEF GraphOK
  <1>5. /\ Len(stack) = 1 /\ stack[1].block = 0 /\ stack[1].at = 1 /\ stack \in Seq(Frames)
        /\ 1 .. 1 = {1} /\ 1 .. Len(order) = {} /\ order \in Seq(Numbers)
    BY <1>1, <1>2 DEF Frames
  <1>6. StackOK(successors, extends, stack)
    <2>1. Len(successors[0]) \in Nat
      BY <1>2, <1>3
    <2>2. 1 .. Len(stack) - 1 = {}
      BY <1>5
    <2> QED BY <2>1, <2>2, <1>5 DEF StackOK
  <1>7. SetsOK(stack, visited, visiting, order)
    BY <1>1, <1>2, <1>5 DEF SetsOK, On, Members, Once
  <1>8. visited \subseteq ReachedBy(successors)
    BY <1>1, <1>2 DEF ReachedBy, ClosedIn
  <1>9. EdgesOK(successors, visited, visiting, backEdges, order) /\ NextOK(extends, order)
    BY <1>5 DEF EdgesOK, NextOK
  <1>10. PassedOK(successors, extends, stack, backEdges, order)
    <2>1. \A k \in 1 .. Len(successors[0]) : ~(k < 1)
      BY <1>2, <1>3
    <2> QED BY <2>1, <1>1, <1>5 DEF PassedOK
  <1>11. \A b \in Numbers : Ft(extends, b) # 0
    BY <1>2, <1>4, FtFacts
  <1>12. FallsOK(successors, extends, stack, visited, order) /\ LaterOK(extends, visited, backEdges)
    BY <1>1, <1>2, <1>5, <1>11 DEF FallsOK, LaterOK
  <1>13. Direction
    BY <1>1 DEF Direction
  <1> QED BY <1>4, <1>6, <1>7, <1>8, <1>9, <1>10, <1>12, <1>13 DEF TraversalInv, TraversalOK

\* Where the edge loop stops.
LEMMA NextUnvisitedFacts ==
    ASSUME NEW b, Len(successors[b]) \in Nat, NEW at \in 1 .. Len(successors[b]) + 1
    PROVE  LET j == W!NextUnvisited(b, at)
           IN /\ j \in Nat /\ at =< j /\ j =< Len(successors[b]) + 1
              /\ \A k \in at .. j - 1 :
                   successors[b][k] \in visited \/ successors[b][k] = W!FallThrough(b)
              /\ j =< Len(successors[b]) =>
                   successors[b][j] \notin visited /\ successors[b][j] # W!FallThrough(b)
  <1> DEFINE fit == {k \in at .. Len(successors[b]) :
                       /\ successors[b][k] \notin visited
                       /\ successors[b][k] # W!FallThrough(b)}
             j == W!NextUnvisited(b, at)
  <1>1. CASE fit = {}
    <2>1. j = Len(successors[b]) + 1
      BY <1>1 DEF W!NextUnvisited
    <2>2. \A k \in at .. Len(successors[b]) :
            successors[b][k] \in visited \/ successors[b][k] = W!FallThrough(b)
      BY <1>1
    <2>3. /\ j \in Nat /\ at =< j /\ ~(j =< Len(successors[b])) /\ j =< Len(successors[b]) + 1
          /\ at .. j - 1 = at .. Len(successors[b])
      BY <2>1
    <2> HIDE DEF j
    <2> QED BY <2>2, <2>3 DEF j
  <1>2. CASE fit # {}
    <2>1. fit \subseteq Nat
      OBVIOUS
    <2>2. j = CHOOSE k \in fit : \A m \in fit : k =< m
      BY <1>2 DEF W!NextUnvisited
    <2>3. \E k \in fit : \A m \in fit : k =< m
      <3> HIDE DEF fit
      <3> QED BY <1>2, <2>1, LeastNumber
    <2>4. j \in fit /\ \A m \in fit : j =< m
      BY <2>2, <2>3
    <2> HIDE DEF j
    <2>5. j \in at .. Len(successors[b]) /\ j \in Nat
      BY <2>4
    <2>6. \A k \in at .. j - 1 : k \in at .. Len(successors[b]) /\ ~(j =< k)
      BY <2>5
    <2>7. at =< j /\ j =< Len(successors[b]) + 1
      BY <2>5
    <2>8. \A k \in at .. j - 1 : k \notin fit
      BY <2>4, <2>6
    <2>9. \A k \in at .. j - 1 :
            successors[b][k] \in visited \/ successors[b][k] = W!FallThrough(b)
      BY <2>6, <2>8
    <2> QED BY <2>4, <2>5, <2>7, <2>9 DEF j
  <1> QED BY <1>1, <1>2

\* What is known when a step looks at the last block of the stack.
LEMMA LookFacts ==
    ASSUME W!BlocksAssumption, TraversalInv, stack # << >>
    PROVE  LET b == stack[Len(stack)].block
               at == stack[Len(stack)].at
               j == W!NextUnvisited(b, at)
           IN /\ Len(stack) > 0 /\ b \in Numbers /\ W!FallThrough(b) = Ft(extends, b)
              /\ Len(successors[b]) \in Nat
              /\ \A k \in 1 .. Len(successors[b]) : successors[b][k] \in Numbers
              /\ at \in Nat /\ at >= 1
              /\ j \in Nat /\ at =< j /\ j =< Len(successors[b]) + 1
              /\ \A k \in at .. j - 1 :
                   successors[b][k] \in visited \/ successors[b][k] = Ft(extends, b)
              /\ j =< Len(successors[b]) =>
                   successors[b][j] \notin visited /\ successors[b][j] # Ft(extends, b)
              /\ W!Passed(j) = {<< b, successors[b][i] >> : i \in {k \in at .. j - 1 :
                   successors[b][k] # Ft(extends, b) /\ successors[b][k] \in visiting}}
  <1> DEFINE b == stack[Len(stack)].block
             at == stack[Len(stack)].at
             j == W!NextUnvisited(b, at)
  <1>1. GraphOK(successors, extends) /\ StackOK(successors, extends, stack)
    BY DEF TraversalInv, TraversalOK
  <1>2. /\ stack \in Seq(Frames)
        /\ \A i \in 1 .. Len(stack) : stack[i].at \in 1 .. Len(successors[stack[i].block]) + 1
    BY <1>1 DEF StackOK
  <1>3. Len(stack) \in Nat /\ Len(stack) > 0
    BY <1>2
  <1>4. Len(stack) \in 1 .. Len(stack)
    BY <1>3
  <1>5. stack[Len(stack)] \in Frames
    BY <1>2, <1>4
  <1>6. b \in Numbers /\ at \in 1 .. Len(successors[b]) + 1
    BY <1>2, <1>4, <1>5 DEF Frames
  <1>7. \A a \in Numbers : W!FallThrough(a) = Ft(extends, a)
    BY DEF TraversalInv, Direction, W!FallThrough, Ft, W!NoBlock
  <1>8. /\ Len(successors[b]) \in Nat
        /\ \A k \in 1 .. Len(successors[b]) : successors[b][k] \in Numbers
    BY <1>1, <1>6, FtFacts
  <1>9. W!Passed(j) = {<< b, successors[b][i] >> : i \in {k \in at .. j - 1 :
          successors[b][k] # W!FallThrough(b) /\ successors[b][k] \in visiting}}
    BY DEF W!Passed, W!Top, W!ClosesCycle
  <1> HIDE DEF b, at
  <1>10. /\ j \in Nat /\ at =< j /\ j =< Len(successors[b]) + 1
         /\ \A k \in at .. j - 1 :
              successors[b][k] \in visited \/ successors[b][k] = W!FallThrough(b)
         /\ j =< Len(successors[b]) =>
              successors[b][j] \notin visited /\ successors[b][j] # W!FallThrough(b)
    BY <1>6, <1>8, NextUnvisitedFacts
  <1>11. W!FallThrough(b) = Ft(extends, b)
    BY <1>6, <1>7
  <1>12. at \in Nat /\ at >= 1
    BY <1>6, <1>8
  <1> HIDE DEF j
  <1>13. /\ W!Passed(j) = {<< b, successors[b][i] >> : i \in {k \in at .. j - 1 :
                   successors[b][k] # Ft(extends, b) /\ successors[b][k] \in visiting}}
         /\ \A k \in at .. j - 1 :
              successors[b][k] \in visited \/ successors[b][k] = Ft(extends, b)
         /\ j =< Len(successors[b]) =>
              successors[b][j] \notin visited /\ successors[b][j] # Ft(extends, b)
    BY <1>9, <1>10, <1>11
  <1> QED BY <1>3, <1>6, <1>8, <1>10, <1>11, <1>12, <1>13 DEF b, at, j

\* Every step keeps the invariant.
LEMMA TraversalNext ==
    ASSUME W!BlocksAssumption, TraversalInv, [W!Next]_W!vars
    PROVE  TraversalInv'
  <1>1. CASE UNCHANGED W!vars
    <2>1. /\ forward' = forward /\ successors' = successors /\ extends' = extends /\ stack' = stack
          /\ visited' = visited /\ visiting' = visiting /\ backEdges' = backEdges
          /\ order' = order
      BY <1>1 DEF W!vars
    <2>2. TraversalOK(successors', extends', stack', visited', visiting', backEdges', order')
      BY <2>1 DEF TraversalInv
    <2> QED BY <2>1, <2>2 DEF TraversalInv, Direction
  <1>2. SUFFICES ASSUME stack # << >>, W!Visit \/ W!VisitFallThrough \/ W!Leave
                 PROVE  TraversalInv'
    BY <1>1 DEF W!Next, W!Done, W!Visit, W!VisitFallThrough, W!Leave
  <1> DEFINE b == stack[Len(stack)].block
             at == stack[Len(stack)].at
             j == W!NextUnvisited(b, at)
  <1>3. /\ Len(stack) > 0 /\ b \in Numbers /\ W!FallThrough(b) = Ft(extends, b)
        /\ Len(successors[b]) \in Nat
        /\ \A k \in 1 .. Len(successors[b]) : successors[b][k] \in Numbers
        /\ at \in Nat /\ at >= 1
        /\ j \in Nat /\ at =< j /\ j =< Len(successors[b]) + 1
        /\ \A k \in at .. j - 1 :
             successors[b][k] \in visited \/ successors[b][k] = Ft(extends, b)
        /\ j =< Len(successors[b]) =>
             successors[b][j] \notin visited /\ successors[b][j] # Ft(extends, b)
        /\ W!Passed(j) = {<< b, successors[b][i] >> : i \in {k \in at .. j - 1 :
             successors[b][k] # Ft(extends, b) /\ successors[b][k] \in visiting}}
    BY <1>2, LookFacts
  <1>4. TraversalOK(successors, extends, stack, visited, visiting, backEdges, order)
    BY DEF TraversalInv
  <1>5. b = W!Top.block /\ at = W!Top.at
    BY DEF W!Top
  <1>6. CASE W!Visit
    <2> DEFINE n == successors[b][j]
    <2>1. /\ j =< Len(successors[b])
          /\ stack' = Pushed(stack, j, n) /\ visited' = visited \cup {n}
          /\ visiting' = visiting \cup {n} /\ backEdges' = backEdges \cup W!Passed(j)
          /\ forward' = forward /\ successors' = successors /\ extends' = extends /\ order' = order
      BY <1>5, <1>6 DEF W!Visit, W!Push, Pushed
    <2> HIDE DEF b, at, j
    <2>2. j \in 1 .. Len(successors[b])
      BY <1>3, <2>1
    <2>3. n \in Numbers /\ n \notin visited /\ n # Ft(extends, b)
      BY <1>3, <2>1, <2>2
    <2> HIDE DEF n
    <2>4. TraversalOK(successors, extends, Pushed(stack, j, n), visited \cup {n},
                      visiting \cup {n}, backEdges \cup W!Passed(j), order)
      <3>1. b = stack[Len(stack)].block /\ at = stack[Len(stack)].at /\ n = successors[b][j]
        BY DEF b, at, n
      <3>2. MayPush(successors, extends, stack, visited, visiting, j, n, W!Passed(j))
        BY <1>3, <2>1, <2>3, <3>1 DEF MayPush
      <3> QED BY <1>4, <3>2, PushKeeps
    <2>5. TraversalOK(successors', extends', stack', visited', visiting', backEdges', order')
      BY <2>1, <2>4
    <2> QED BY <2>1, <2>5 DEF TraversalInv, Direction
  <1>7. CASE W!VisitFallThrough
    <2> DEFINE n == Ft(extends, b)
    <2>1. /\ j = Len(successors[b]) + 1 /\ W!FallsThrough(b)
          /\ stack' = Pushed(stack, j, n) /\ visited' = visited \cup {n}
          /\ visiting' = visiting \cup {n} /\ backEdges' = backEdges \cup W!Passed(j)
          /\ forward' = forward /\ successors' = successors /\ extends' = extends /\ order' = order
      BY <1>3, <1>5, <1>7 DEF W!VisitFallThrough, W!Push, Pushed
    <2> HIDE DEF b, at, j
    <2>2. n \in Numbers /\ n \notin visited
      <3>1. GraphOK(successors, extends)
        BY <1>4 DEF TraversalOK
      <3> QED BY <3>1, <1>3, <2>1, FtFacts DEF W!FallsThrough, W!NoBlock
    <2>4. TraversalOK(successors, extends, Pushed(stack, j, n), visited \cup {n},
                      visiting \cup {n}, backEdges \cup W!Passed(j), order)
      <3>1. b = stack[Len(stack)].block /\ at = stack[Len(stack)].at /\ n = Ft(extends, b)
        BY DEF b, at, n
      <3> HIDE DEF n
      <3>2. MayPush(successors, extends, stack, visited, visiting, j, n, W!Passed(j))
        BY <1>3, <2>1, <2>2, <3>1 DEF MayPush
      <3> QED BY <1>4, <3>2, PushKeeps
    <2>5. TraversalOK(successors', extends', stack', visited', visiting', backEdges', order')
      BY <2>1, <2>4
    <2> QED BY <2>1, <2>5 DEF TraversalInv, Direction
  <1>8. CASE W!Leave
    <2>1. /\ j = Len(successors[b]) + 1 /\ ~W!FallsThrough(b)
          /\ stack' = W!Front(stack) /\ visited' = visited
          /\ visiting' = visiting \ {b} /\ backEdges' = backEdges \cup W!Passed(j)
          /\ forward' = forward /\ successors' = successors /\ extends' = extends /\ order' = << b >> \o order
      BY <1>5, <1>8 DEF W!Leave
    <2>2. W!Front(stack) = SubSeq(stack, 1, Len(stack) - 1)
      BY DEF W!Front
    <2> HIDE DEF b, at, j
    <2>3. Ft(extends, b) = -1 \/ Ft(extends, b) \in visited
      BY <1>3, <2>1 DEF W!FallsThrough, W!NoBlock
    <2>4. at .. j - 1 = at .. Len(successors[b])
      BY <1>3, <2>1
    <2>5. TraversalOK(successors, extends, SubSeq(stack, 1, Len(stack) - 1), visited,
                      visiting \ {b}, backEdges \cup W!Passed(j), << b >> \o order)
      <3>1. b = stack[Len(stack)].block /\ at = stack[Len(stack)].at
        BY DEF b, at
      <3>2. /\ \A k \in at .. Len(successors[b]) :
                 successors[b][k] \in visited \/ successors[b][k] = Ft(extends, b)
            /\ W!Passed(j) = {<< b, successors[b][i] >> : i \in {k \in at .. Len(successors[b]) :
                 successors[b][k] # Ft(extends, b) /\ successors[b][k] \in visiting}}
        BY <1>3, <2>4
      <3>3. MayLeave(successors, extends, stack, visited, visiting, b, W!Passed(j))
        BY <1>3, <2>3, <3>1, <3>2 DEF MayLeave
      <3> QED BY <1>4, <3>3, LeaveKeeps
    <2>6. TraversalOK(successors', extends', stack', visited', visiting', backEdges', order')
      BY <2>1, <2>2, <2>5
    <2> QED BY <2>1, <2>6 DEF TraversalInv, Direction
  <1> QED BY <1>2, <1>6, <1>7, <1>8

\* The invariant makes the variables have their types.
LEMMA TraversalTypes ==
    ASSUME TraversalInv
    PROVE  W!TypeOK
  <1>1. StackOK(successors, extends, stack) /\ SetsOK(stack, visited, visiting, order)
    BY DEF TraversalInv, TraversalOK
  <1>2. W!Range(order) = Members(order)
    BY <1>1, SameNotionsW DEF SetsOK, Members
  <1> QED BY <1>1, <1>2 DEF W!TypeOK, StackOK, SetsOK, On

\* At the end the order holds what the entry reaches.
LEMMA TraversalEnd ==
    ASSUME W!BlocksAssumption, TraversalInv, W!Finished
    PROVE  /\ order \in Seq(Numbers) /\ Once(order) /\ Len(order) \in Nat
           /\ W!Reached = Members(order)
           /\ \A b \in Members(order) : W!Range(successors[b]) =
                {successors[b][k] : k \in 1 .. Len(successors[b])}
           /\ EdgesOK(successors, Members(order), {}, backEdges, order)
           /\ NextOK(extends, order)
           /\ \A b \in Members(order) : b \in Numbers /\ (extends[b] # -1 => ~forward)
  <1>1. /\ GraphOK(successors, extends) /\ SetsOK(stack, visited, visiting, order)
        /\ visited \subseteq ReachedBy(successors)
        /\ EdgesOK(successors, visited, visiting, backEdges, order) /\ NextOK(extends, order)
    BY DEF TraversalInv, TraversalOK
  <1>2. On(stack) = {}
    BY DEF W!Finished, On
  <1>3. /\ visiting = {} /\ visited = Members(order) /\ visited \subseteq Numbers /\ 0 \in visited
        /\ order \in Seq(Numbers) /\ Once(order)
    BY <1>1, <1>2 DEF SetsOK
  <1>4. \A b \in Numbers : W!Range(successors[b]) =
          {successors[b][k] : k \in 1 .. Len(successors[b])}
    <2>1. \A b \in Numbers : successors[b] \in Seq(Numbers \ {0})
      BY <1>1 DEF GraphOK
    <2>2. \A b \in Numbers : DOMAIN successors[b] = 1 .. Len(successors[b])
      BY <2>1
    <2> QED BY <2>2, SameNotionsW
  <1>5. \A S \in SUBSET Numbers : W!Closed(S) <=> ClosedIn(successors, S)
    <2> SUFFICES ASSUME NEW S \in SUBSET Numbers
                 PROVE  W!Closed(S) <=> ClosedIn(successors, S)
      OBVIOUS
    <2>1. \A b \in S : W!Range(successors[b]) \subseteq S <=>
            \A k \in 1 .. Len(successors[b]) : successors[b][k] \in S
      <3> SUFFICES ASSUME NEW b \in S
                   PROVE  W!Range(successors[b]) \subseteq S <=>
                            \A k \in 1 .. Len(successors[b]) : successors[b][k] \in S
        OBVIOUS
      <3>1. W!Range(successors[b]) = {successors[b][k] : k \in 1 .. Len(successors[b])}
        BY <1>4
      <3> QED BY <3>1
    <2> QED BY <2>1 DEF W!Closed, ClosedIn, W!Entry
  <1>6. W!Reached = ReachedBy(successors)
    BY <1>5 DEF W!Reached, ReachedBy
  <1>7. ClosedIn(successors, visited)
    <2> SUFFICES ASSUME NEW b \in visited, NEW k \in 1 .. Len(successors[b])
                 PROVE  successors[b][k] \in visited
      BY <1>3 DEF ClosedIn
    <2>1. PICK i \in 1 .. Len(order) : b = order[i]
      BY <1>3 DEF Members
    <2> QED BY <2>1, <1>1 DEF EdgesOK
  <1>8. ReachedBy(successors) \subseteq visited
    BY <1>3, <1>7 DEF ReachedBy
  <1>9. W!Reached = Members(order)
    BY <1>1, <1>3, <1>6, <1>8
  <1>10. \A b \in Numbers : extends[b] # -1 => ~forward
    BY DEF TraversalInv, Direction
  <1>11. Len(order) \in Nat
    BY <1>3
  <1> QED BY <1>1, <1>3, <1>4, <1>9, <1>10, <1>11

\* The place of a block in the order that is kept.
LEMMA PlaceFacts ==
    ASSUME order \in Seq(Numbers), Once(order), forward \in BOOLEAN
    PROVE  /\ W!Range(W!Result) = Members(order) /\ Len(W!Result) = Len(order)
           /\ \A i \in 1 .. Len(order) :
                W!Place(order[i]) = IF forward THEN i ELSE Len(order) - i + 1
  <1> DEFINE l == Len(order)
             r == W!Result
             Kept(i) == IF forward THEN i ELSE l - i + 1
  <1>1. l \in Nat /\ order = [i \in 1 .. l |-> order[i]]
    OBVIOUS
  <1>2. /\ DOMAIN r = 1 .. l /\ Len(r) = l
        /\ \A i \in 1 .. l : r[i] = order[Kept(i)]
    <2>1. CASE forward
      BY <2>1, <1>1 DEF W!Result
    <2>2. CASE ~forward
      <3>1. r = [i \in 1 .. l |-> order[(l - i) + 1]]
        BY <2>2 DEF W!Result, W!Reverse
      <3> HIDE DEF r
      <3> QED BY <2>2, <3>1, <1>1
    <2> QED BY <2>1, <2>2
  <1>3. \A i \in 1 .. l : Kept(i) \in 1 .. l /\ Kept(Kept(i)) = i
    BY <1>1
  <1> HIDE DEF r, Kept
  <1>4. W!Range(r) = Members(order)
    <2>1. W!Range(r) = {r[i] : i \in 1 .. l}
      BY <1>2, SameNotionsW
    <2>2. \A i \in 1 .. l : r[Kept(i)] = order[i]
      BY <1>2, <1>3
    <2>3. Members(order) = {order[i] : i \in 1 .. l}
      BY DEF Members
    <2> HIDE DEF l
    <2> QED BY <2>1, <2>2, <2>3, <1>2, <1>3
  <1>5. ASSUME NEW i \in 1 .. l PROVE W!Place(order[i]) = Kept(i)
    <2>1. Kept(i) \in 1 .. l /\ r[Kept(i)] = order[i]
      BY <1>2, <1>3
    <2>2. ASSUME NEW m \in 1 .. l, r[m] = order[i] PROVE m = Kept(i)
      <3>1. Kept(m) \in 1 .. l /\ order[Kept(m)] = order[i]
        BY <1>2, <1>3, <2>2
      <3>2. Kept(m) = i
        BY <3>1 DEF Once
      <3> QED BY <3>2, <1>3
    <2>3. W!Place(order[i]) = CHOOSE m \in 1 .. l : r[m] = order[i]
      BY <1>2 DEF W!Place, r
    <2> HIDE DEF l
    <2> QED BY <2>1, <2>2, <2>3
  <1> QED BY <1>2, <1>4, <1>5 DEF r, Kept

\* The invariant makes the order correct.
LEMMA TraversalCorrect ==
    ASSUME W!BlocksAssumption, TraversalInv
    PROVE  W!OrderCorrect
  <1>1. forward \in BOOLEAN
    BY DEF TraversalInv, Direction
  <1>2. SUFFICES ASSUME W!Finished
                 PROVE  /\ W!EveryBlockOnce /\ W!BackEdgesExact /\ W!ExtendedBlocksAdjacent
    BY TraversalTypes DEF W!OrderCorrect, W!EveryBlockOnce, W!BackEdgesExact,
                          W!ExtendedBlocksAdjacent
  <1>3. /\ order \in Seq(Numbers) /\ Once(order) /\ Len(order) \in Nat
        /\ W!Reached = Members(order)
        /\ \A b \in Members(order) : W!Range(successors[b]) =
             {successors[b][k] : k \in 1 .. Len(successors[b])}
        /\ EdgesOK(successors, Members(order), {}, backEdges, order)
        /\ NextOK(extends, order)
        /\ \A b \in Members(order) : b \in Numbers /\ (extends[b] # -1 => ~forward)
    BY <1>2, TraversalEnd
  <1>4. /\ W!Range(W!Result) = Members(order) /\ Len(W!Result) = Len(order)
        /\ \A i \in 1 .. Len(order) :
             W!Place(order[i]) = IF forward THEN i ELSE Len(order) - i + 1
    BY <1>1, <1>3, PlaceFacts
  <1>5. W!EveryBlockOnce
    <2>1. Len(order) = Cardinality(Members(order))
      BY <1>3, OnceLength
    <2> QED BY <2>1, <1>3, <1>4, SameNotionsW DEF W!EveryBlockOnce
  <1>6. W!BackEdgesExact
    <2> SUFFICES ASSUME NEW b \in Members(order), NEW n \in W!Range(successors[b])
                 PROVE  << b, n >> \in backEdges <=>
                          (IF forward THEN W!Place(n) =< W!Place(b)
                           ELSE W!Place(n) >= W!Place(b))
      BY <1>3 DEF W!BackEdgesExact
    <2>1. PICK i \in 1 .. Len(order) : b = order[i]
      BY DEF Members
    <2>2. PICK k \in 1 .. Len(successors[b]) : n = successors[b][k]
      BY <1>3
    <2>3. n \in Members(order) /\ (<< b, n >> \in backEdges <=> Within(order, i, n))
      BY <2>1, <2>2, <1>3 DEF EdgesOK
    <2>4. PICK m \in 1 .. Len(order) : n = order[m]
      BY <2>3 DEF Members
    <2>5. Within(order, i, n) <=> m =< i
      <3>1. ASSUME NEW x \in 1 .. i, order[x] = n PROVE m =< i
        <4>1. x \in 1 .. Len(order)
          BY <1>3
        <4>2. x = m
          BY <4>1, <3>1, <2>4, <1>3 DEF Once
        <4> QED BY <4>2
      <3>2. m =< i => m \in 1 .. i
        OBVIOUS
      <3> QED BY <3>1, <3>2, <2>4 DEF Within
    <2>6. CASE forward
      BY <2>1, <2>3, <2>4, <2>5, <2>6, <1>4
    <2>7. CASE ~forward
      <3>1. W!Place(n) = Len(order) - m + 1 /\ W!Place(b) = Len(order) - i + 1
        BY <2>1, <2>4, <2>7, <1>4
      <3>2. Len(order) - m + 1 >= Len(order) - i + 1 <=> m =< i
        BY <1>3
      <3> QED BY <2>3, <2>5, <2>7, <3>1, <3>2
    <2> QED BY <2>6, <2>7
  <1>7. W!ExtendedBlocksAdjacent
    <2> SUFFICES ASSUME NEW b \in Members(order), extends[b] # -1
                 PROVE  W!Place(b) = W!Place(extends[b]) + 1
      BY <1>3 DEF W!ExtendedBlocksAdjacent, W!NoBlock
    <2>1. PICK i \in 1 .. Len(order) : b = order[i]
      BY DEF Members
    <2>2. i + 1 \in 1 .. Len(order) /\ order[i + 1] = extends[b]
      BY <2>1, <1>3 DEF NextOK
    <2>3. ~forward
      BY <1>3
    <2>4. W!Place(b) = Len(order) - i + 1 /\ W!Place(extends[b]) = Len(order) - (i + 1) + 1
      BY <2>1, <2>2, <2>3, <1>4
    <2> QED BY <2>4, <1>3
  <1> QED BY <1>5, <1>6, <1>7

\* Whatever the graph, both traversal orders end with every block that the
\* entry reaches, once, and are topological once the edges found to be back
\* edges are left out; in the backward order a block that extends its
\* predecessor is next to it (createTraversalOrder).
THEOREM OrderAlwaysCorrect == W!Spec => []OrderCorrect
  <1>1. W!Init => TraversalInv
    BY PartsAssumption, TraversalInit
  <1>2. TraversalInv /\ [W!Next]_W!vars => TraversalInv'
    BY PartsAssumption, TraversalNext
  <1>3. TraversalInv => OrderCorrect
    BY PartsAssumption, TraversalCorrect DEF OrderCorrect
  <1> QED BY <1>1, <1>2, <1>3, PTL DEF W!Spec
==============================================================================
