------------------------- MODULE MCCodeCacheManager -------------------------
(***************************************************************************)
(* The code cache manager with few threads and a small repository.  Two    *)
(* history variables tell how far the threads have come into each other's  *)
(* way: what the manager promises depends on it.                           *)
(***************************************************************************)
EXTENDS CodeCacheManager, TLC

VARIABLES
  started,    \* the threads that have begun a compilation
  switching   \* has the first attempt of some request failed?

ThreadSymmetry == Permutations(Threads)

MCInit == Init /\ started = {} /\ switching = FALSE

MCNext ==
  /\ Next
  /\ started' = {t \in Threads : t \in started \/ pc'[t] # "idle"}
  /\ switching' = (switching \/ \E t \in Threads : pc'[t] \in {"scan", "grow"})

MCSpec == MCInit /\ [][MCNext]_<< vars, started, switching >> /\ Fairness

\* Where a cache can begin: segments are aligned and no shorter than CodeCacheSize.
ASSUME AlignedSegments == CodeCacheSize % Align = 0
Bases == {PointerSize}
         \cup {a \in CodeCacheSize .. RepositorySize - CodeCacheSize : a % Align = 0}

Alone == Cardinality(started) =< 1

\* As long as one thread compiles, a cache that the scan has chosen, or that
\* was created for the request, has room for it: only the first attempt of a
\* request may fail, and the bound on retries is never reached.
OnlyFirstAttemptFails ==
  Alone => \A t \in Threads : pc[t] \in {"scan", "grow"} => retries[t] = Retries - 1

\* As long as one thread compiles, the code caches are declared full only when
\* no cache has more room than the request needs.
FullOnlyWhenNoRoom ==
  [][Alone' => \A t \in Threads :
                 DeclaresFull(t) => \A c \in Caches : ~ HasRoom(c, size[t])]_vars

\* Until some request has to leave its cache, reservation enforces "mutually
\* exclusive ownership" (OMRCodeCache.hpp) whatever threads do: it is the
\* release of the old cache that spoils it.
ExclusiveUntilSwitch == ~ switching => ExclusiveOwnership

\* However compilations end, a cache that is reserved is free again later.
ReservationsEnd ==
  /\ [](reserved \subseteq Bases)
  /\ \A c \in Bases : c \in reserved ~> c \notin reserved
=============================================================================
