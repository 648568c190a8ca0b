--------------------------- MODULE NJStrategies -----------------------------
(***************************************************************************)
(* The strategies of the nj front end, the optimizations it creates        *)
(* managers for (NJOptimizer.cpp), and what the optimizations need         *)
(* (OMROptimizationManager.cpp), at each level on a 64-bit target.         *)
(***************************************************************************)
EXTENDS Sequences

Always(o) == [num |-> o, options |-> "Always"]
If(o, options) == [num |-> o, options |-> options]

NJTables ==
  [noOpt |-> << >>,
   cold |-> << Always("basicBlockExtension"), Always("localCSE"), Always("treeSimplification"),
               Always("localCSE") >>,
   warm |-> << Always("basicBlockExtension"), Always("localCSE"), Always("treeSimplification"),
               Always("localCSE"), Always("localDeadStoreElimination"),
               Always("globalDeadStoreGroup"), Always("cheapTacticalGRAGroup") >>,
   hot |-> << Always("treeSimplification"), Always("localCSE"), Always("basicBlockOrdering"),
              Always("globalCopyPropagation"), If("globalDeadStoreElimination", "IfMoreThanOneBlock"),
              Always("deadTreesElimination"), Always("treeSimplification"),
              Always("basicBlockHoisting"), Always("treeSimplification"),
              If("globalValuePropagation", "IfMoreThanOneBlock"),
              If("localValuePropagation", "IfOneBlock"), Always("switchAnalyzer"),
              Always("localCSE"), Always("treeSimplification"),
              If("trivialDeadTreeRemoval", "IfEnabled"), If("basicBlockOrdering", "IfLoops"),
              If("loopCanonicalization", "IfLoops"), If("inductionVariableAnalysis", "IfLoops"),
              If("generalLoopUnroller", "IfLoops"), If("basicBlockExtension", "MarkLastRun"),
              Always("treeSimplification"), Always("localCSE"),
              If("treeSimplification", "IfEnabled"), If("trivialDeadTreeRemoval", "IfEnabled"),
              Always("cheapTacticalGRAGroup"), Always("globalDeadStoreGroup"),
              Always("rematerialization"), If("deadTreesElimination", "IfEnabled"),
              If("deadTreesElimination", "IfEnabled"), Always("regDepCopyRemoval") >>,
   cheapTacticalGRAGroup |->
     << If("redundantGotoElimination", "IfNotProfiling"),
        If("tacticalGlobalRegisterAllocator", "IfEnabled") >>,
   globalDeadStoreGroup |->
     << If("globalDeadStoreElimination", "IfMoreThanOneBlock"), Always("deadTreesElimination") >>]

NJOptimizations ==
  {"deadTreesElimination", "treeSimplification", "localCSE",
   "basicBlockOrdering", "globalCopyPropagation", "globalDeadStoreElimination",
   "basicBlockHoisting", "globalValuePropagation", "localValuePropagation",
   "trivialDeadTreeRemoval", "generalLoopUnroller", "basicBlockExtension",
   "redundantGotoElimination", "rematerialization", "loopCanonicalization",
   "inductionVariableAnalysis", "tacticalGlobalRegisterAllocator",
   "regDepCopyRemoval", "switchAnalyzer"}

NJManagers == NJOptimizations \cup {"cheapTacticalGRAGroup", "globalDeadStoreGroup"}

\* The register allocator reads use-defs at level hot only.
ReadsUseDefs(level) ==
  {"globalCopyPropagation", "globalDeadStoreElimination"}
  \cup (IF level = "hot" THEN {"tacticalGlobalRegisterAllocator"} ELSE {})
ReadsStructure ==
  {"basicBlockExtension", "loopCanonicalization", "globalValuePropagation", "generalLoopUnroller",
   "basicBlockOrdering", "inductionVariableAnalysis", "tacticalGlobalRegisterAllocator"}

NJNeeds ==
  [o \in NJOptimizations \cup {"localDeadStoreElimination"} |->
     [level \in {"noOpt", "cold", "warm", "hot"} |->
        CASE o = "globalValuePropagation" -> {"structure", "useDef", "valueNumbers"}
          [] o \in ReadsUseDefs(level) -> {"structure", "useDef", "noLoads"}
          [] o \in ReadsStructure \ (ReadsUseDefs(level) \cup {"globalValuePropagation"}) -> {"structure"}
          [] OTHER -> {}]]

NJRequested == {"tacticalGlobalRegisterAllocator"}
=============================================================================
