--------------------------- MODULE MCCompilation ----------------------------
(***************************************************************************)
(* What a compilation takes and gives back, and what it leaves: its plan   *)
(* (OptimizationPlan), among few threads and addresses; its scratch memory *)
(* (Regions), with few areas and regions; the metadata of its method       *)
(* (CodeMetaData), with small buckets and method stores.  The three share  *)
(* no state: a behaviour is about one, the others stay as they began.      *)
(***************************************************************************)
EXTENDS Regions, OptimizationPlan, CodeMetaData, TLC

CONSTANTS m1, m2, m3, m4, m5, m6

VARIABLE part   \* what this behaviour is about

AreaSymmetry == Permutations(Areas)

\* Two caches, one behind the other.
TwoCaches == {[start |-> 4, end |-> 12], [start |-> 12, end |-> 14]}

\* m4 crosses a bucket, m5 ends where a cache ends, the code
\* of m6 is empty.
Starts == m1 :> 4 @@ m2 :> 5 @@ m3 :> 6 @@ m4 :> 7 @@ m5 :> 9 @@ m6 :> 12
Ends == m1 :> 5 @@ m2 :> 6 @@ m3 :> 7 @@ m4 :> 9 @@ m5 :> 12 @@ m6 :> 12

CompilationInit ==
  /\ PlanInit /\ Init /\ MetaInit
  /\ \/ part \in {"plans", "metadata"} /\ ~ debug /\ segmentPoolSize = 0
     \/ part = "regions"

CompilationNext ==
  \/ part = "plans" /\ PlanNext /\ UNCHANGED << part, vars, metaVars >>
  \/ part = "regions" /\ Next /\ UNCHANGED << part, planVars, metaVars >>
  \/ part = "metadata" /\ MetaNext /\ UNCHANGED << part, vars, planVars >>

CompilationSpec ==
  CompilationInit /\ [][CompilationNext]_<< part, vars, planVars, metaVars >>
=============================================================================
