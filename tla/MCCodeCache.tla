---------------------------- MODULE MCCodeCache -----------------------------
(***************************************************************************)
(* One code cache.  A behaviour is about the memory of the cache           *)
(* (CodeCache), in units of 16 bytes with alignment 32, headers and        *)
(* free-list records of 16 and MIN_SIZE_BLOCK of 96 bytes, as on a 64-bit  *)
(* host; or about its trampolines (Trampolines), for few threads, methods  *)
(* and slots.  The two share no state, and the other stays as it began.    *)
(***************************************************************************)
EXTENDS CodeCache, Trampolines

VARIABLE part   \* what this behaviour is about

CacheInit == Init /\ TrampolinesInit /\ part \in {"memory", "trampolines"}

CacheNext ==
  \/ part = "memory" /\ Next /\ UNCHANGED << part, trampolineVars >>
  \/ part = "trampolines" /\ TrampolinesNext /\ UNCHANGED << part, vars >>

CacheSpec ==
  /\ CacheInit /\ [][CacheNext]_<< part, vars, trampolineVars >>
  /\ \A t \in Threads : WF_trampolineVars(part = "trampolines" /\ ReserveResolved(t))
=============================================================================
