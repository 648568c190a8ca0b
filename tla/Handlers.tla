------------------------------ MODULE Handlers ------------------------------
(***************************************************************************)
(* The exception handlers of a block (OMRCfg.cpp).  addExceptionEdge       *)
(* leaves out a handler that one of the block's handlers makes             *)
(* superfluous, TR_OrderedExceptionHandlerIterator lists the handlers in   *)
(* the order in which they are considered, copyExceptionSuccessors gives   *)
(* the handlers of one block to another.                                   *)
(***************************************************************************)
EXTENDS Integers, Sequences, FiniteSets, SequencesExt

CONSTANTS
  Catchers,    \* catch blocks: [depth, index, type, osr]
  Exceptions,  \* exceptions the block may throw
  Caught(_, _) \* the exceptions a catch type of an inline depth catches

\* What is assumed of the handlers.
CatchersAssumption ==
  /\ IsFiniteSet(Catchers)
  /\ Catchers \subseteq [depth : Nat, index : Nat, type : Nat, osr : BOOLEAN]
  \* one handler for an index of a method, as the iterator asserts
  /\ \A h, g \in Catchers : h.depth = g.depth /\ h.index = g.index => h = g

VARIABLES
  successors,  \* the catch blocks of the block's exception edges, latest first
  requested    \* the catch blocks addExceptionEdge has been called for

vars == << successors, requested >>

\* Catch type 0 catches everything; a handler for OSR takes no exception.
Handles(h, x) == ~h.osr /\ (h.type = 0 \/ x \in Caught(h.depth, h.type))

-----------------------------------------------------------------------------
\* addExceptionEdge

\* Does the handler g that the block has make h superfluous?
Supersedes(g, h) ==
  /\ ~h.osr /\ ~g.osr
  /\ ~(g.depth < h.depth \/ (g.depth = h.depth /\ g.index > h.index))
  /\ g.type = 0 \/ (g.depth = h.depth /\ g.type = h.type)

\* The handlers hs with h.
WithHandler(hs, h) ==
  IF \E i \in 1 .. Len(hs) : hs[i] = h \/ Supersedes(hs[i], h) THEN hs ELSE << h >> \o hs

\* Mutant: a handler of the same catch type is enough, whatever its method.
AddExceptionEdgeByType(h) ==
  /\ successors' = IF \E g \in Range(successors) : g.type = h.type THEN successors
                   ELSE WithHandler(successors, h)
  /\ requested' = requested \cup {h}

AddExceptionEdge(h) ==
  /\ successors' = WithHandler(successors, h)
  /\ requested' = requested \cup {h}

\* copyExceptionSuccessors with alwaysTrue, to a block without handlers.
CopyExceptionSuccessors(hs) ==
  LET copied[i \in 0 .. Len(hs)] == IF i = 0 THEN << >> ELSE WithHandler(copied[i - 1], hs[i])
  IN copied[Len(hs)]

-----------------------------------------------------------------------------
\* TR_OrderedExceptionHandlerIterator

HandlerDim(hs) == 1 + Max({0} \cup {hs[i].index : i \in 1 .. Len(hs)})
InlineDim(hs) == 1 + Max({0} \cup {hs[i].depth : i \in 1 .. Len(hs)})

\* The place of a handler in _handlers.
Place(hs, h) == (InlineDim(hs) - h.depth - 1) * HandlerDim(hs) + h.index

\* The handlers in the order of getFirst and getNext: entry by entry of
\* _handlers, those without a handler passed over.
Ordered(hs) ==
  LET occupied == {p \in 0 .. HandlerDim(hs) * InlineDim(hs) - 1 :
                     \E j \in 1 .. Len(hs) : Place(hs, hs[j]) = p}
      nth(i) == CHOOSE p \in occupied : Cardinality({q \in occupied : q < p}) = i - 1
  IN [i \in 1 .. Cardinality(occupied) |->
        hs[CHOOSE j \in 1 .. Len(hs) : Place(hs, hs[j]) = nth(i)]]

-----------------------------------------------------------------------------
Init == successors = << >> /\ requested = {}
Next == \E h \in Catchers : AddExceptionEdge(h)
Spec == Init /\ [][Next]_vars

-----------------------------------------------------------------------------
\* Properties

\* g is considered before h.
Before(g, h) == g.depth > h.depth \/ (g.depth = h.depth /\ g.index < h.index)

\* The handler, as a set of at most one, that takes exception x among hs.
Takes(hs, x) ==
  {h \in hs : Handles(h, x) /\ \A g \in hs : Handles(g, x) => g = h \/ Before(h, g)}

\* The variables have their types, and no handler is listed twice.
TypeOK ==
  /\ requested \subseteq Catchers /\ Range(successors) \subseteq requested
  /\ Len(successors) = Cardinality(Range(successors))

\* Leaving edges out changes nothing: every exception is taken by the handler
\* that would take it if every requested edge had been added, in whatever
\* order they were (addExceptionEdge).
SameHandler ==
  \A x \in Exceptions : Takes(Range(successors), x) = Takes(requested, x)

\* A copy of the handlers, added again in the order of the list, takes every
\* exception as the original does (copyExceptionSuccessors).
CopyTakesSame ==
  \A x \in Exceptions :
    Takes(Range(CopyExceptionSuccessors(successors)), x) = Takes(Range(successors), x)

\* The iterator gives every handler once, in the order in which they are
\* considered (TR_OrderedExceptionHandlerIterator).
IteratorOrdered ==
  /\ Range(Ordered(successors)) = Range(successors)
  /\ \A i, j \in 1 .. Len(Ordered(successors)) :
       i < j => Before(Ordered(successors)[i], Ordered(successors)[j])

\* Handlers may be added to a block in any order: edges that are left out
\* change nothing, every exception is taken by the handler that would take it
\* if all had been added, a copy takes it as the original does, and the
\* iterator gives the handlers in the order in which they are considered
\* (addExceptionEdge, copyExceptionSuccessors,
\* TR_OrderedExceptionHandlerIterator).
HandlersCorrect == TypeOK /\ SameHandler /\ CopyTakesSame /\ IteratorOrdered
=============================================================================
