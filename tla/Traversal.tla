------------------------------ MODULE Traversal -----------------------------
(***************************************************************************)
(* The order in which analyses visit the blocks of a method                *)
(* (createTraversalOrder of OMRCfg.cpp): a depth-first search with a stack *)
(* of blocks and of iterators over their successors, which fills an array  *)
(* from its end.  The backward order is the forward one reversed, with the *)
(* block a block falls through to, in its extended basic block, visited    *)
(* last.  The graph is any over Blocks whose blocks have few successors.   *)
(***************************************************************************)
EXTENDS Integers, Sequences, FiniteSets, SequencesExt

CONSTANTS
  Blocks,      \* block numbers, the start node being 0
  MaxDegree    \* bound: successors of a block

\* What is assumed of the parameters.
BlocksAssumption == /\ IsFiniteSet(Blocks) /\ Blocks \subseteq Nat /\ 0 \in Blocks
                    /\ MaxDegree \in Nat

VARIABLES
  forward,     \* the parameter forward
  successors,  \* a block's successors in the order of its iterator
  extends,     \* the fall-through of a block in its extended basic block
  stack,       \* blockStack and iteratorStack: [block, at], top last
  visited,     \* blocks with the visit count of the traversal
  visiting,    \* blocksBeingVisited
  backEdges,   \* the edges found to be back edges: << from, to >>
  order        \* traversalOrder from traversalInsertPosition on

vars == << forward, successors, extends, stack, visited, visiting, backEdges, order >>

NoBlock == -1
Entry == 0

Predecessors(b) == {p \in Blocks : b \in Range(successors[p])}

-----------------------------------------------------------------------------
Top == stack[Len(stack)]

\* fallThroughEdge, which only the backward order looks at.
FallThrough(b) == IF forward THEN NoBlock ELSE extends[b]

\* The block is pushed with an iterator at its first successor.
Push(s, b) == Append(s, [block |-> b, at |-> 1])

\* Mutant: every visited block counts as being visited.
ClosesCycleVisited(b) == b \in visited

\* Is b on the stack?
ClosesCycle(b) == b \in visiting

\* The first place from i on in which a block stands that is not visited and
\* is not the fall-through, or the end.
NextUnvisited(b, i) ==
  LET fit == {j \in i .. Len(successors[b]) :
                successors[b][j] \notin visited /\ successors[b][j] # FallThrough(b)}
  IN IF fit = {} THEN Len(successors[b]) + 1
     ELSE CHOOSE j \in fit : \A k \in fit : j =< k

\* The edges of Top's block passed on the way to place j that close a cycle.
Passed(j) ==
  {<< Top.block, successors[Top.block][i] >> :
     i \in {k \in Top.at .. j - 1 : /\ successors[Top.block][k] # FallThrough(Top.block)
                                    /\ ClosesCycle(successors[Top.block][k])}}

\* The edge loop, up to a block that is visited next.
Visit ==
  /\ stack # << >>
  /\ LET b == Top.block
         j == NextUnvisited(b, Top.at)
     IN /\ j =< Len(successors[b])
        /\ LET n == successors[b][j]
           IN /\ stack' = Push([stack EXCEPT ![Len(stack)].at = j], n)
              /\ visited' = visited \cup {n}
              /\ visiting' = visiting \cup {n}
        /\ backEdges' = backEdges \cup Passed(j)
  /\ UNCHANGED << forward, successors, extends, order >>

\* Is the fall-through of b still to be visited?
FallsThrough(b) == FallThrough(b) # NoBlock /\ FallThrough(b) \notin visited

\* All edges are passed: the fall-through is visited last.  It is never found to
\* be on the stack already (the second branch in the code), since its only
\* predecessor is the block that falls through.
VisitFallThrough ==
  /\ stack # << >>
  /\ LET b == Top.block
         j == Len(successors[b]) + 1
     IN /\ NextUnvisited(b, Top.at) = j /\ FallsThrough(b)
        /\ stack' = Push([stack EXCEPT ![Len(stack)].at = j], FallThrough(b))
        /\ visited' = visited \cup {FallThrough(b)}
        /\ visiting' = visiting \cup {FallThrough(b)}
        /\ backEdges' = backEdges \cup Passed(j)
  /\ UNCHANGED << forward, successors, extends, order >>

\* A block with all edges passed takes its place, from the end of the array.
Leave ==
  /\ stack # << >>
  /\ LET b == Top.block
         j == Len(successors[b]) + 1
     IN /\ NextUnvisited(b, Top.at) = j /\ ~FallsThrough(b)
        /\ order' = << b >> \o order
        /\ visiting' = visiting \ {b}
        /\ stack' = Front(stack)
        /\ backEdges' = backEdges \cup Passed(j)
  /\ UNCHANGED << forward, successors, extends, visited >>

\* The order that is kept: the backward order is exchanged end for end.
Result == IF forward THEN order ELSE Reverse(order)

Done == stack = << >> /\ UNCHANGED vars

-----------------------------------------------------------------------------
\* The graphs: blocks but the start may be successors; a block that extends
\* its predecessor has that predecessor only.
Successions == {s \in UNION {[1 .. k -> Blocks \ {Entry}] : k \in 0 .. MaxDegree} :
                  \A i, j \in DOMAIN s : s[i] = s[j] => i = j}

Init ==
  /\ forward \in BOOLEAN
  /\ successors \in [Blocks -> Successions]
  /\ extends \in [Blocks -> Blocks \cup {NoBlock}]
  /\ \A b \in Blocks : extends[b] # NoBlock =>
       /\ ~forward /\ extends[b] \in Range(successors[b])
       /\ Predecessors(extends[b]) = {b} /\ extends[b] # b
  /\ stack = << [block |-> Entry, at |-> 1] >>
  /\ visited = {Entry} /\ visiting = {Entry} /\ backEdges = {} /\ order = << >>

Next == Visit \/ VisitFallThrough \/ Leave \/ Done
Spec == Init /\ [][Next]_vars

-----------------------------------------------------------------------------
\* Properties

\* The variables have their types, and the blocks marked as being visited are
\* those on the stack.
TypeOK ==
  /\ Range(order) \subseteq visited /\ visiting \subseteq visited /\ visited \subseteq Blocks
  /\ visiting = {stack[i].block : i \in 1 .. Len(stack)}
  /\ \A i \in 1 .. Len(stack) : stack[i].at \in 1 .. Len(successors[stack[i].block]) + 1

Finished == stack = << >>

\* What the entry reaches: the blocks in every set that holds the entry and
\* the successors of its members.
Closed(S) == Entry \in S /\ \A b \in S : Range(successors[b]) \subseteq S
Reached == {b \in Blocks : \A S \in SUBSET Blocks : Closed(S) => b \in S}

Place(b) == CHOOSE i \in 1 .. Len(Result) : Result[i] = b

\* Every block that can be reached is in the order once, no other is, and the
\* array is never overrun (the assertions of createTraversalOrder).
EveryBlockOnce ==
  Finished => Range(Result) = Reached /\ Len(Result) = Cardinality(Reached)

\* An edge leads forward in the order exactly when it was not found to be a
\* back edge, so the order is topological once back edges are left out, and
\* the backward order is so against the edges.
BackEdgesExact ==
  Finished => \A b \in Reached : \A n \in Range(successors[b]) :
    << b, n >> \in backEdges <=>
      (IF forward THEN Place(n) =< Place(b) ELSE Place(n) >= Place(b))

\* A block that extends its predecessor follows it directly, in the backward
\* order precedes it ("proper order for ebb").
ExtendedBlocksAdjacent ==
  Finished => \A b \in Reached : extends[b] # NoBlock => Place(b) = Place(extends[b]) + 1

\* Both traversal orders hold every reachable block once and are topological
\* once the edges found to be back edges are left out; in the backward order
\* a block that extends its predecessor is next to it, "proper order for ebb"
\* (createTraversalOrder).
OrderCorrect == TypeOK /\ EveryBlockOnce /\ BackEdgesExact /\ ExtendedBlocksAdjacent
=============================================================================
