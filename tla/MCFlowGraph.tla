---------------------------- MODULE MCFlowGraph -----------------------------
(***************************************************************************)
(* Everything that is modelled of the control flow graph of a method, on   *)
(* small graphs.  The parts do not share state: a behaviour edits a graph, *)
(* gives handlers to a block, orders the blocks of a graph or finds        *)
(* dominators, and leaves the variables of the other parts alone.          *)
(***************************************************************************)
EXTENDS FlowParts

CONSTANTS n1, n2, n3

VARIABLES graph, dfNumbers, info, at, dominators, isValid   \* Dominators

Flow(n, m) == [from |-> n, to |-> m, exception |-> FALSE]
Throw(n, m) == [from |-> n, to |-> m, exception |-> TRUE]

\* n1 and n2 may form a cycle and each repeat itself; n3 handles exceptions of
\* both and its own, and returns to n2.
Edges ==
  {Flow(Start, n1), Flow(n1, n2), Flow(n2, n1), Flow(n1, n1), Flow(n2, End),
   Throw(n1, n3), Throw(n2, n3), Throw(n3, n3), Flow(n3, n2), Flow(n3, End)}

Catcher(d, i, t) == [depth |-> d, index |-> i, type |-> t, osr |-> FALSE]

\* Handlers of a method and of one inlined into it: repeated types,
\* catch-alls behind and before others, an OSR block.
SomeCatchers ==
  {Catcher(0, 0, 1), Catcher(0, 3, 0), Catcher(1, 0, 1),
   Catcher(1, 1, 0), Catcher(1, 2, 1), Catcher(1, 3, 2),
   [depth |-> 0, index |-> 2, type |-> 0, osr |-> TRUE]}

\* The types of the two methods name different classes.
Classes(d, t) == IF d = 0 THEN {t} ELSE {3 - t}

\* The blocks that graph g reaches from block 0, of n blocks.
From(g, n) ==
  LET reach[i \in 0 .. n] ==
        IF i = 0 THEN {0}
        ELSE LET r == reach[i - 1] IN r \cup {e[2] : e \in {f \in g : f[1] \in r}}
  IN reach[n]

\* The graphs of five blocks with up to two successors each, in which the
\* start reaches all blocks but, at most, the exit.
SmallGraphs ==
  LET targets == {t \in SUBSET (1 .. 4) : Cardinality(t) =< 2}
      all == {{e \in (0 .. 3) \X (1 .. 4) : e[2] \in f[e[1]]} : f \in [0 .. 3 -> targets]}
  IN {g \in all : 0 .. 3 \subseteq From(g, 5)}

\* A path through seven blocks, with up to three more edges.
Paths == LET path == {<< n, n + 1 >> : n \in 0 .. 5}
         IN {path \cup {e, f, g} : e, f, g \in ((0 .. 5) \X (1 .. 6)) \ path}

D == INSTANCE Dominators WITH
       Blocks <- 0 .. 6, Start <- 0, End <- 6, Graphs <- Paths, PostDominators <- FALSE
PD == INSTANCE Dominators WITH
       Blocks <- 0 .. 4, Start <- 0, End <- 4, Graphs <- SmallGraphs, PostDominators <- TRUE

ASSUME DominationAssumption == D!BlocksAssumption /\ PD!BlocksAssumption

traversal == << forward, successors, extends, visited, visiting, backEdges, order >>
domination == << graph, dfNumbers, info, at, dominators, isValid >>
flowVars == << vars, part, handlers, requested, traversal, domination, stack >>

\* The variables of a part that does not take place.
NoTraversal == /\ forward = 0 /\ successors = 0 /\ extends = 0 /\ visited = 0
               /\ visiting = 0 /\ backEdges = 0 /\ order = 0
NoDomination == /\ graph = 0 /\ dfNumbers = 0 /\ info = 0
                /\ at = 0 /\ dominators = 0 /\ isValid = 0

FlowInit ==
  /\ Init /\ H!Init
  /\ \/ part \in {"edit", "handle"} /\ stack = 0 /\ NoTraversal /\ NoDomination
     \/ part = "order" /\ W!Init /\ NoDomination
     \/ part = "dominate" /\ D!Init /\ NoTraversal
     \/ part = "postdominate" /\ PD!Init /\ NoTraversal

FlowNext ==
  \/ /\ part = "edit" /\ Next
     /\ UNCHANGED << part, handlers, requested, traversal, domination, stack >>
  \/ /\ part = "handle" /\ H!Next
     /\ UNCHANGED << vars, part, traversal, domination, stack >>
  \/ /\ part = "order" /\ W!Next
     /\ UNCHANGED << vars, part, handlers, requested, domination >>
  \/ /\ \/ part = "dominate" /\ D!Next
        \/ part = "postdominate" /\ PD!Next
     /\ UNCHANGED << vars, part, handlers, requested, traversal >>

FlowSpec == FlowInit /\ [][FlowNext]_flowVars /\ WF_vars(part = "edit" /\ Continue)

-----------------------------------------------------------------------------
\* Properties.  Those of ControlFlow and FlowParts are checked as they stand.

\* The immediate (post-)dominators found are those of the definition, and
\* dominates answers by it for every two blocks (findDominators, dominates).
DominatorsCorrect ==
  /\ part = "dominate" => D!TypeOK /\ D!ImmediateExact /\ D!DominatesExact
  /\ part = "postdominate" => PD!TypeOK /\ PD!ImmediateExact /\ PD!DominatesExact

\* Post-dominators are declared invalid exactly when some block cannot reach
\* the exit; if valid, the control dependents of a block are those of the
\* definition, and each is counted once (findControlDependents,
\* countBlocksControlled).
ControlDependenceCorrect ==
  part = "postdominate" => PD!ValidExact /\ PD!ControlExact /\ PD!CountExact
=============================================================================
