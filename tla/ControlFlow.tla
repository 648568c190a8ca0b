----------------------------- MODULE ControlFlow ----------------------------
(***************************************************************************)
(* The control flow graph of a method being compiled (OMRCfg.cpp) without  *)
(* its structure, as after invalidateStructure: blocks and edges are added *)
(* and removed by the optimizations, removing an edge removes the blocks   *)
(* it orphans and what they orphan in turn, and cycles that are no longer  *)
(* reachable wait for removeUnreachableBlocks.  Loops over lists of edges  *)
(* are steps that take the edges in any order.                             *)
(***************************************************************************)
EXTENDS Integers, FiniteSets

CONSTANTS
  Blocks,     \* names for blocks
  Start,      \* the entry node
  End,        \* the exit node
  Possible,   \* edges a client may add: [from, to, exception]
  None

ASSUME NodesAssumption ==
  /\ IsFiniteSet(Blocks) /\ Start # End /\ Start \notin Blocks /\ End \notin Blocks
  /\ None \notin Blocks \cup {Start, End}
ASSUME NoneAssumption ==
  /\ \A s, t, u \in SUBSET Blocks :
       None # s /\ None # [queue |-> s, visited |-> t, remove |-> u]
  /\ \A n \in Blocks, w \in {"successors", "predecessors"} :
       None # [node |-> n, which |-> w]
ASSUME EdgesAssumption ==
  /\ Possible \subseteq [from : Blocks \cup {Start}, to : Blocks \cup {End},
                         exception : BOOLEAN]
  \* what addEdge and addExceptionEdge assert
  /\ \A e, f \in Possible : e.from = f.from /\ e.to = f.to => e = f

VARIABLES
  nodes,       \* the nodes in _nodes
  edges,       \* the edges in the nodes' lists
  numEdges,    \* _numEdges
  mightHave,   \* _mightHaveUnreachableBlocks
  walk,        \* the walk of a removeEdge: [queue, visited, remove], or None
  current,     \* a node whose edges are being removed: [node, which], or None
  pending,     \* unreachableNodes of removeUnreachableBlocks, or None
  connected    \* nodes that have been reachable from Start

vars == << nodes, edges, numEdges, mightHave, walk, current, pending, connected >>

Idle == walk = None /\ current = None /\ pending = None

In(es, n) == {e \in es : e.to = n}
Out(es, n) == {e \in es : e.from = n}

Step(es, ns) == ns \cup {e.to : e \in {f \in es : f.from \in ns}}

\* findReachableBlocks: what Start reaches along the edges.
ReachableBlocks(es) ==
  LET reach[i \in 0 .. Cardinality(Blocks) + 1] ==
        IF i = 0 THEN {Start} ELSE Step(es, reach[i - 1])
  IN reach[Cardinality(Blocks) + 1]

-----------------------------------------------------------------------------
\* Adding

\* addNode.
AddNode(b) ==
  /\ Idle /\ b \in Blocks \ nodes
  /\ nodes' = nodes \cup {b}
  /\ connected' = connected \ {b}
  /\ UNCHANGED << edges, numEdges, mightHave, walk, current, pending >>

\* addEdge; addExceptionEdge, which does nothing for an edge it has.
AddEdge(e) ==
  /\ Idle /\ e \in Possible \ edges /\ {e.from, e.to} \subseteq nodes
  /\ edges' = edges \cup {e}
  /\ numEdges' = numEdges + 1
  /\ connected' = connected \cup ReachableBlocks(edges')
  /\ UNCHANGED << nodes, mightHave, walk, current, pending >>

-----------------------------------------------------------------------------
\* Removing an edge

\* unreachableOrphan: has n, in the edges es, no edge from another node?
Orphan(es, n) ==
  \/ In(es, n) = {} /\ n # End
  \/ \E e \in es : In(es, n) = {e} /\ e.from = n

\* removeEdge up to its walk.  An edge that is in no list changes nothing.
RemoveEdge(e) ==
  /\ mightHave' = TRUE
  /\ edges' = edges \ {e}
  /\ numEdges' = IF e \in edges THEN numEdges - 1 ELSE numEdges
  /\ walk' = IF e \in edges /\ Orphan(edges', e.to)
             THEN [queue |-> {e.to}, visited |-> {}, remove |-> {e.to}] ELSE None

\* A client removes an edge.
BeginRemoveEdge(e) ==
  /\ Idle /\ {e.from, e.to} \subseteq nodes
  /\ RemoveEdge(e)
  /\ UNCHANGED << nodes, current, pending, connected >>

\* The edges the walk removes with node n.
Walked(es, n) == Out(es, n)

\* _numEdges after the walk of node n.
CountWalked(n) == numEdges - Cardinality(Walked(edges, n))

\* One round of the walk: node n loses its outgoing edges, and the nodes
\* they alone led to join the queue.
WalkNode(n) ==
  /\ walk # None /\ n \in walk.queue
  /\ edges' = edges \ Walked(edges, n)
  /\ numEdges' = CountWalked(n)
  /\ LET visited == walk.visited \cup {n}
         orphans == {e.to : e \in {f \in Walked(edges, n) : Orphan(edges', f.to)}} \ visited
     IN walk' = [queue |-> (walk.queue \ {n}) \cup orphans, visited |-> visited,
                 remove |-> walk.remove \cup orphans]
  /\ UNCHANGED << nodes, mightHave, current, pending, connected >>

\* The end of the walk: the nodes are removed.
FinishWalk ==
  /\ walk # None /\ walk.queue = {}
  /\ nodes' = nodes \ walk.remove
  /\ walk' = None
  /\ UNCHANGED << edges, numEdges, mightHave, current, pending, connected >>

-----------------------------------------------------------------------------
\* Removing a node, and what cannot be reached

\* removeNode up to its loops; callers have removed the edges to the node.
BeginRemoveNode(n) ==
  /\ Idle /\ n \in nodes \ {Start, End} /\ In(edges, n) = {}
  /\ nodes' = nodes \ {n}
  /\ current' = [node |-> n, which |-> "successors"]
  /\ UNCHANGED << edges, numEdges, mightHave, walk, pending, connected >>

\* The edges that a loop over the current node's lists removes next: those
\* of its exception list first.
NextToCut ==
  LET all == IF current.which = "successors" THEN Out(edges, current.node)
             ELSE In(edges, current.node)
      exceptions == {e \in all : e.exception}
  IN IF exceptions # {} THEN exceptions ELSE all

CutEdge ==
  /\ current # None /\ walk = None
  /\ \E e \in NextToCut : RemoveEdge(e)
  /\ UNCHANGED << nodes, current, pending, connected >>

FinishNode ==
  /\ current # None /\ walk = None /\ NextToCut = {}
  /\ current' = None
  /\ UNCHANGED << nodes, edges, numEdges, mightHave, walk, pending, connected >>

\* Mutant: only nodes without predecessors are collected.
UnreachableNodesOrphans == {n \in nodes \ {Start, End} : In(edges, n) = {}}

\* Mutant: handlers are not followed.
UnreachableNodesIgnoreHandlers ==
  nodes \ (ReachableBlocks({e \in edges : ~e.exception}) \cup {End})

\* The nodes removeUnreachableBlocks collects.
UnreachableNodes == nodes \ (ReachableBlocks(edges) \cup {End})

BeginSweep ==
  /\ Idle
  /\ pending' = UnreachableNodes
  /\ UNCHANGED << nodes, edges, numEdges, mightHave, walk, current, connected >>

\* Mutant: the node stays on the stack.
PoppedStays(n) == pending

\* unreachableNodes once n is popped.
Popped(n) == pending \ {n}

\* A node without predecessors is removed with its successors, unless it is
\* gone; otherwise the edges to it are.
SweepNode(n) ==
  /\ pending # None /\ walk = None /\ current = None /\ n \in pending
  /\ pending' = Popped(n)
  /\ LET bare == In(edges, n) = {}
     IN /\ current' = CASE bare /\ n \notin nodes -> None
                        [] bare /\ n \in nodes -> [node |-> n, which |-> "successors"]
                        [] OTHER -> [node |-> n, which |-> "predecessors"]
        /\ nodes' = IF bare THEN nodes \ {n} ELSE nodes
  /\ UNCHANGED << edges, numEdges, mightHave, walk, connected >>

FinishSweep ==
  /\ pending = {} /\ walk = None /\ current = None
  /\ pending' = None
  /\ mightHave' = FALSE
  /\ UNCHANGED << nodes, edges, numEdges, walk, current, connected >>

-----------------------------------------------------------------------------
Init ==
  /\ nodes = {Start, End} /\ edges = {} /\ numEdges = 0 /\ mightHave = FALSE
  /\ walk = None /\ current = None /\ pending = None
  /\ connected = {Start}

\* The steps that carry a removal on.
Continue ==
  \/ \E n \in Blocks : WalkNode(n)
  \/ FinishWalk
  \/ CutEdge
  \/ FinishNode
  \/ \E n \in Blocks : SweepNode(n)
  \/ FinishSweep

Next ==
  \/ \E b \in Blocks : AddNode(b)
  \/ \E e \in Possible : AddEdge(e)
  \/ \E e \in Possible : BeginRemoveEdge(e)
  \/ \E n \in Blocks : BeginRemoveNode(n)
  \/ BeginSweep
  \/ Continue

\* The loops of a removal run on: nothing else runs in the compilation.
Spec == Init /\ [][Next]_vars /\ WF_vars(Continue)

-----------------------------------------------------------------------------
\* Properties

\* The variables have their types, and _numEdges counts the edges, also when
\* an edge that is not in the lists is removed (removeEdge's found).
TypeOK ==
  /\ nodes \subseteq Blocks \cup {Start, End} /\ {Start, End} \subseteq nodes
  /\ edges \subseteq Possible
  /\ numEdges = Cardinality(edges)
  /\ mightHave \in BOOLEAN
  /\ connected \subseteq Blocks \cup {Start, End}

\* No edge leads from or to a node that is out of the graph (removeNode
\* asserts part of it: "removing a node that still has predecessors").
EdgesAreLive == Idle => \A e \in edges : {e.from, e.to} \subseteq nodes

\* The edges the start reaches.
ReachableEdges(es) == {e \in es : e.from \in ReachableBlocks(es)}

\* Once the edge asked for is gone, a removal takes nothing the start reaches,
\* neither block nor edge (the walk of removeEdge, removeUnreachableBlocks).
RemovalSpares ==
  [][Continue => /\ ReachableEdges(edges') = ReachableEdges(edges)
                 /\ nodes' \cap ReachableBlocks(edges) = nodes \cap ReachableBlocks(edges)]_vars

\* A block that was part of the method and can no longer be reached is gone,
\* or _mightHaveUnreachableBlocks makes the optimizer run
\* removeUnreachableBlocks (OMROptimizer.cpp:2125).
UnreachableNoted ==
  Idle => \A n \in (nodes \cap connected) \ {End} :
            n \in ReachableBlocks(edges) \/ mightHave

\* Only cycles wait: a block that was part of the method has an edge from
\* another block (unreachableOrphan, the walk).
NoOrphans ==
  Idle => \A n \in (nodes \cap connected) \ {Start, End} :
            \E e \in edges : e.to = n /\ e.from # n

\* After any sequence of additions and removals the graph has no dangling edge
\* and no orphan, and no unreachable block goes unnoticed.
GraphSound == TypeOK /\ EdgesAreLive /\ NoOrphans /\ UnreachableNoted

\* Every removal comes to its end (removeEdge, removeNode, removeUnreachableBlocks).
RemovalsEnd == ~Idle ~> Idle
=============================================================================
