----------------------------- MODULE FlowParts ------------------------------
(***************************************************************************)
(* The parts of the control flow graph of a method beside one another:     *)
(* editing it (ControlFlow), the exception handlers of a block (Handlers)  *)
(* and the order of its blocks (Traversal).  They share no state; part     *)
(* says which of them a behaviour is about.                                *)
(***************************************************************************)
EXTENDS ControlFlow, Sequences

CONSTANTS
  Catchers, Exceptions, Caught(_, _),   \* of Handlers
  Numbers, MaxDegree                    \* of Traversal: block numbers, their successors

VARIABLES
  part,                 \* what this behaviour is about
  handlers, requested,                                  \* Handlers
  forward, successors, extends, stack, visited, visiting, backEdges, order  \* Traversal

H == INSTANCE Handlers WITH successors <- handlers
W == INSTANCE Traversal WITH Blocks <- Numbers

ASSUME PartsAssumption == H!CatchersAssumption /\ W!BlocksAssumption

\* Handlers may be added to a block in any order: edges that are left out
\* change nothing, every exception is taken by the handler that would take it
\* if all had been added, a copy takes it as the original does, and the
\* iterator gives the handlers in the order in which they are considered
\* (addExceptionEdge, copyExceptionSuccessors,
\* TR_OrderedExceptionHandlerIterator).
HandlersCorrect == H!HandlersCorrect

\* Both traversal orders hold every reachable block once and are topological
\* once the edges found to be back edges are left out; in the backward order
\* a block that extends its predecessor is next to it, "proper order for ebb"
\* (createTraversalOrder).
OrderCorrect == part = "order" => W!OrderCorrect
=============================================================================
