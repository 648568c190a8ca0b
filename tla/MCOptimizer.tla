----------------------------- MODULE MCOptimizer ----------------------------
(***************************************************************************)
(* The optimizer with the strategies of nj.                                *)
(***************************************************************************)
EXTENDS Optimizer, NJStrategies

AllFacts == SUBSET {"loops", "blocks"}

\* Optimizations that nj's strategies run on request.
RequestedByOthers ==
  {"treeSimplification", "deadTreesElimination", "trivialDeadTreeRemoval",
   "tacticalGlobalRegisterAllocator"}

OrderBlocks == {"basicBlockOrdering"}

\* One effect at a time: every combination is met over several runs.
SomeEffects == {{}, {"nodes"}, {"removal"}, {"cfg"}, {"symrefs"}}
=============================================================================
