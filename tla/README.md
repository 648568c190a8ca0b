# A verification of nj's code memory, compilation control and flow graph

nj is a just-in-time compiler built from Eclipse OMR: a C interface
(`frontends/nj/ilgen/nj_api.cpp`) builds intermediate language, the compiler
under `compiler/` optimizes it and generates machine code, and the code lives in
*code caches* until the JIT is shut down. What compilations *share* is the code
memory, the objects that guard it and a few pools: who owns which bytes, which
cache, which trampoline and which plan, when several threads compile and things
fail half way. What each compilation has for *itself* is scratch memory, a flow
graph with its analyses, and an optimizer that decides what runs next and which
analyses it may still trust. Both are modelled here; the transformations that the
optimizer runs, and the code generators, are not.

The modules are TLA+. TLC checks them on small instances (the `.cfg` files), and
TLAPS proves the most important invariants for every value of the constants (the
`*Proofs` modules). `PROJECT.json` maps each definition to the lines it stands
for and lists runs, mutants, hazards, findings and theorems.

## 1. The system

### Parts, state and operations

| part | source | state | operations |
|---|---|---|---|
| compilation driver | `compiler/control/CompileMethod.cpp` | per call: a compilation, a plan, a code generator | `compileMethodFromDetails` |
| optimization plan pool | `compiler/control/OptimizationPlan.cpp` | free list, its size, number of plans allocated | `new`, `freeOptimizationPlan`, `freeEntirePool` |
| code cache manager | `compiler/runtime/OMRCodeCacheManager.cpp` | list of caches, their number, the repository segment, flags "full" and "allocation failed" | `reserveCodeCache`, `unreserveCodeCache`, `allocateCodeMemory`, `allocateCodeCacheFromNewSegment`, lookup by address, trampoline calls |
| code cache heap | `compiler/runtime/OMRCodeCache.cpp` 90-420, 860-1673 | two bump pointers, free list, cached largest sizes, reservation mark | `allocateCodeMemory`, `trimCodeMemoryAllocation`, `addFreeBlock2`, `findFreeBlock` |
| method trampolines | `OMRCodeCache.cpp` 418-860 | allocation and reservation marks, table of resolved methods, synchronization blocks | reserve, create, replace, synchronize |
| ELF symbol lists | `OMRCodeCacheManager.cpp` 868-946 | three linked lists with their counts | register a method, register a relocation |
| regions, segment providers | `compiler/env/*Region*.cpp`, `*Segment*.cpp` | segments of scratch memory, nesting of stack regions, a pool | allocate, release, reuse |
| code metadata manager | `OMRCodeMetaDataManager.cpp` | a hash table for each cache, with method stores and chains; the last answer | insert, remove, find |
| control flow graph | `compiler/infra/OMRCfg.cpp` | blocks, edges, exception edges | add, remove with orphans, sweep, order |
| dominators | `compiler/optimizer/Dominators.cpp` | a table by depth-first number | find dominators and post-dominators, control dependence |
| optimizer strategies | `OMROptimizer.cpp`, `OMROptimizationManager.cpp`, `NJOptimizer.cpp` | position in a strategy, requests, last runs, analyses | `optimize`, `performOptimization`, `setRequested` |
| monitors | `compiler/infra/OMRMonitor.cpp` | a mutex | enter, exit |
| front ends | `frontends/nj`, `jitbuilder` | configuration of the caches | start, stop, construction of methods |
| IL, optimizations, code generators, containers, debugging, tests | the rest | data of one compilation | |

### How they interact

A thread of the embedding program calls `compileMethodFromDetails`. It takes an
optimization plan from the pool. During code generation, `OMRCodeGenerator.cpp`

1. reserves a cache (`reserveCodeCache`): the list of caches is scanned for one
   that is not reserved; if there is none, a new cache is carved from the
   repository, initialized, and linked into the list;
2. asks the manager for code memory, once or several times. The manager asks the
   reserved cache; if that is full, it looks for another cache with room or
   creates one, *switches* the reservation, and tries again, up to a number of
   retries. If nothing helps it records that the code caches are full;
3. trims the last allocation to the size the code really has;
4. gives the cache back (`unreserveCodeCache`) on every way out, exceptions
   included.

At the end the plan goes back to the pool. Four kinds of mutex guard this: the
list monitor, the repository monitor, one monitor per cache, and the plan
monitor. None is held across the whole of a compilation; the reservation mark of
a cache is meant to do that.

### What is hard here

- **Several threads compile.** nj has no compilation threads of its
  own; the threads are the embedding program's, and every one passes the thread
  identifier 0. A reservation is written under the list monitor in one place
  and outside of any monitor in another; the limit on the number of caches is
  compared in one critical section and acted upon in another.
- **Failure half way.** A segment is carved and the cache on it then finds no
  memory; an exception ends a compilation between two requests; the persistent
  allocator returns null after a counter was already incremented.
- **Long sequences.** The free list of a cache splits, joins and forgets blocks;
  the cached size of the largest block has to survive any sequence of
  allocations, trims and reclaims, and an error shows much later as code
  overwritten by other code.
- **Monitors entered twice, or not at all.** `reserveResolvedTrampoline` enters a
  monitor its caller holds; the symbol lists have none.
- **Analyses that outlive their subject.** Use-definition information, value numbers
  and structure are kept from one optimization to the next and dropped by comparing
  counters; the metadata manager answers from the last answer.
- **Boundaries.** Alignment, headers, blocks too small for their own list record,
  a request that fits exactly.

### What makes each part correct

- *heap*: blocks in use never overlap each other, the free list or the hole; no
  byte is lost; the cached sizes are exact; a request is refused only when it
  cannot be placed; the accounting of the repository follows.
- *manager*: segments never overlap; a cache is owned by one thread; every
  reservation ends; a cache that was chosen for a request has room for it; "full"
  is declared only when it is true; the number of caches is limited.
- *plan pool*: a plan has one owner; counters are exact; the pool is bounded.
- *trampolines*: a call never reaches a stale target after synchronization; every
  reservation has its slot, and returns.
- *symbol lists*: the counts are the lengths, whoever registers.
- *regions*: a segment has one holder, and none after its release; memory is handed
  out once; the counted bytes are those allocated.
- *metadata*: a pc is answered with the method whose code contains it, also from
  the remembered answer; chains do not share slots; a search may overlap an insertion.
- *flow graph*: what is removed was unreachable, what becomes unreachable is removed
  or noted; the handler of an exception does not depend on the order in which handlers
  were added; orders and dominators are those of the definitions.
- *optimizer*: an optimization runs with the analyses it needs, none out of date;
  requests and last runs are respected; indices are stable.

## 2. The modules

| module | models | uses |
|---|---|---|
| `CodeStore` | what a code cache promises: an abstract specification | |
| `CodeCache` | the heap of one cache | `CodeStore` (refinement) |
| `CodeCacheProofs` | theorems about `CodeCache`, and its refinement | `CodeCache` |
| `CodeCacheManager` | manager, with the threads that drive it | |
| `CodeCacheManagerProofs` | theorems about the manager | `MCCodeCacheManager` |
| `OptimizationPlan` | plan pool, with the threads that drive it | |
| `OptimizationPlanProofs` | theorems about `OptimizationPlan` | `OptimizationPlan` |
| `CallTargets` | where a call through a trampoline lands: an abstract specification | |
| `Trampolines` | method trampolines of one cache | `CallTargets` (refinement) |
| `TrampolinesProofs` | theorems about `Trampolines`, and its refinement | `Trampolines` |
| `SymbolLists` | the lists of symbols and relocations, access by access | |
| `Regions` | regions, pool and segment providers of a compilation | |
| `RegionsProofs` | theorems about `Regions` | `Regions` |
| `CodeMetaData` | the metadata manager, insertion store by store | |
| `CodeMetaDataProofs` | theorems about `CodeMetaData` | `CodeMetaData` |
| `ControlFlow` | editing of the flow graph | |
| `ControlFlowProofs` | theorems about the parts of `FlowParts` | `FlowParts` |
| `Handlers` | exception handlers of one block | |
| `Traversal` | forward and backward traversal orders | |
| `FlowParts` | editing, handlers and traversal of the flow graph beside one another | `ControlFlow`, `Handlers`, `Traversal` |
| `Dominators` | dominators, post-dominators, control dependence | |
| `Optimizer` | a strategy being run | |
| `OptimizerProofs` | theorems about `Optimizer` | `Optimizer` |
| `NJStrategies` | the strategies, managers and needs of nj: tables only | |
| `MCCodeCache` | instance for TLC | `CodeCache`, `Trampolines` |
| `MCCompilation` | instance for TLC | `OptimizationPlan`, `Regions`, `CodeMetaData` |
| other `MC*` | instances for TLC; `MCFlowGraph` adds `Dominators` to `FlowParts` | |

### CodeCache

State: `warmCodeAlloc`, `coldCodeAlloc` (the bump pointers), `freeBlocks` (the
free list, sorted by address in the code and therefore a set here), `largestWarm`
and `largestCold` (the cached sizes), `inUse` (the blocks whose headers say so),
`repositoryFree` (the manager's account of free space).

Actions: `Allocate` and `AllocateRefused` are `allocateCodeMemory` with
`performSizeAdjustments`, `findFreeBlock` (best fit, first of equal size) and
`removeFreeBlock` (split unless the rest is below `MIN_SIZE_BLOCK`);
`TrimLastBlock` and `TrimInnerBlock` are `trimCodeMemoryAllocation`, with
`addFreeBlock2WithCallSite` and `updateMaxSizeOfFreeBlocks`; `Reclaim` gives a
whole block back through the same routine. Nothing under `src/` calls that hook
(`addFreeBlock(metaData)` is empty), the free-list code exists for it, and without
it most of that code would never be reached: `Reclaim` is what a virtual machine
built on this code does.

Each action is one step because `allocateCodeMemory` and `addFreeBlock2` run under
the cache's monitor. A trim runs outside of it, by the thread that has reserved
the cache; that two threads may come to share a cache is a matter of
`CodeCacheManager`.

A request whose cold part could not be
placed although both checks were passed would hit the assertion "Must be able to
find space for cold code"; `ColdCodeFits` says that this does not happen.

### CodeStore

The promise to the code generator, without any of the machinery: a granted block
is aligned, inside the cache and apart from all blocks in use; a block in use
never moves and never grows, it is trimmed to a prefix or given back. The
refinement is `ImplementsStore`, with the identity on `inUse`.

### CodeCacheManager

State: the manager's fields (`segmentAlloc` of the repository, `codeCacheList`,
`curNumberOfCodeCaches`, `codeCacheFull`, `hasFailed`), the caches (by the address
of their segment: top, size of the hole, `reservingCompThreadID`, the owner of the
last allocated block), `reserved`, and the locals of each thread (`cache`,
`found`, `segment`, `tid`, `retries`, `size`, `numReserved`) with its place `pc`.

A step is one critical section or one access to shared state outside of any
monitor. So the scan with its reservation is one step (`ReserveScan`, `Scan`); the
test of the limit (`ReserveGrow`, `Grow`), carving (`Carve`), construction
(`Construct`, `ConstructFails`), undoing (`UndoCarving`) and linking (`Link`) are
steps that other threads may come between; and giving up the old cache on a
switch is *two* steps (`SwitchReleases`, `SwitchForgets`), as it is two
assignments without a monitor in the code. `Attempt` reads the thread identifier
back from the cache, also without a monitor.

Left out, because the calls of `OMRCodeGenerator.cpp` never make a difference of
them: contiguity and `almostFull` (only contiguous requests and method
trampolines look at it), cold code, size estimates, padding (0 KB in the
configuration), the search hint `_lastCache`. Free blocks are left to
`CodeCache`. The cache that is created at the start is made or not made, both in
`Init`.

### OptimizationPlan

State: `pool`, `poolSize`, `totalNumAllocatedPlans`, the plans that persistent
memory has handed out (`heap`), those marked in use, and each thread's plan and
list of plans to free. `New` and `FreeOptimizationPlan` are the critical
sections, `PersistentAlloc`, `PersistentAllocFails`, `InitPlan` and `ReleaseList`
what happens outside of them, `freeEntirePool` the whole routine, which any
thread may call at any time. The persistent allocator returns
memory nobody has, or null.

### Trampolines and CallTargets

State: the two marks, the entries of the table of resolved methods (trampoline and
start address each), the address every permanent trampoline jumps to, the
synchronization blocks, the flag for a full synchronization, and the room in the first
slab of table entries. Permanent trampolines are reserved by lowering one mark and
created later by lowering the other. An operation is one step under the cache's
monitor, but for `reserveResolvedTrampoline`, which is two
(`BeginReserveResolved`, `ReserveResolved`), because the second needs the monitor
again while the thread has it. `MayEnter` says whether it gets it: on
Windows it does, a default pthread mutex blocks. `Recompile` (a method gets a new start
address) and the moments at which the platform asks for a trampoline are external.

`CallTargets` is the promise: a permanent trampoline reaches the address it
was last told of, or its method is known to be late, by name (`late`) or as one of
several of which only this is known (`unlisted`); a safe point brings the late methods to their
current addresses. The refinement mapping takes `late` to be the methods saved in
the blocks and `unlisted` to be the flag for a full synchronization. Which methods a safe
point reaches when some are unlisted is as the code has it: those whose recorded
address is not the current one (`OMRCodeCache.cpp:670`). That this leaves out methods which wait
is the subject of `NoLostReplacement` (section 4); `ReplacementsKept` says that it is the only way to
lose a replacement.

### SymbolLists

`registerCompiledMethod` and `registerStaticRelocation` as the separate accesses they are
made of: make the element, test the head, link, move the tail, load and store the count. The
generator that walks the lists is `At`. `_next` of a new relocation is never assigned
(`OMRCodeCacheManager.cpp:937-940`), so it is null or anything else (`Garbage`).

### Regions

State: the provider's segments and counters, the pool, the regions, the stack of stack
regions, and what has been handed out. Destruction goes one destructor or one segment at
a time, since a region may be an object of another one. Init chooses the provider
(system or debugging) and the size of the pool, 0 being no pool. The byte
counter of the debugging provider has no initial value (`DebugSegmentProvider.cpp:37-42`),
so it starts as any element of `Garbage`; `BytesExact` is about the system provider,
`DebugBytesExact` about the other. After the regions' scope the pool is closed (`ClosePool`) and the
debugging provider's destructor unmaps its segments, released or not (`UnmapSegment`).

### CodeMetaData

State: per cache a hash table (buckets, method stores in one row of slots, the
allocation point), the remembered pc, table and answer, an insertion and a search under
way. An insertion is one step per bucket and store (`Prepare`, `Publish`) because the code
orders its stores for the sake of concurrent searches; a search is one step per slot.
The AVL tree is an external library. Two things the properties state as the code has
them: an insertion that runs out of memory leaves the method in the buckets it had reached
(`LookupExact` allows answers from `partial`), and `addCodeCache` does not forget
a remembered pc without a table, so an early question keeps its answer.

`RoomAssumption` is a limit that the code relies on and does not test: the methods of
one bucket fit into one method store. When a chain has to move, a new store of
`METHOD_STORE_SIZE` slots is made and the chain copied into it whatever its length
(`OMRCodeMetaDataManager.cpp:434-447`). With buckets of 512 bytes and stores of 256 slots
(`:226-227`) it holds as long as a method has three bytes of code or more; the
constants of the run satisfy it, and TLC evaluates it.

### ControlFlow, Handlers, Traversal, Dominators

`ControlFlow` has the graph, a stack of removals and the sweep of unreachable blocks;
`removeEdge` walks orphans one at a time (`WalkNode`), `removeNode` cuts one edge at a
time (`CutEdge`), `removeUnreachableBlocks` goes through a list made before it began
(`SweepNode`). `Handlers` has the exception successors of one block, what
`addExceptionEdge` leaves out because of another handler, copying, and the ordered
iterator. `Traversal` is `createTraversalOrder` with its explicit stack, for every graph
of four blocks. `Dominators` is the Lengauer-Tarjan algorithm as the code has it,
with the balanced forest, path compression and the dummy entry 0, compared with the
definition of dominance by removal of a block; then `dominates`,
`findControlDependents` and `countBlocksControlled`. Exception edges are ordinary edges
there, except that control dependence ignores them, so those graphs have none. These
parts share no state, so one run holds all of them and a variable `part` says
which one a behaviour is about. `FlowParts` has the first three, with the properties that the
run checks and the proofs are about; `MCFlowGraph` adds `Dominators`.

### Optimizer and NJStrategies

State: the calls of `performOptimization` (a strategy and the groups entered), the index,
the requests of each manager by block, the last runs, what runs, and what is known of
the method. `Skip` is every reason not to run, `Prepare` builds the analyses an
optimization needs, `Perform` runs it: any of the given effects on the trees, any requests
it may make, then the invalidation and the removal of unreachable blocks. `stale` is a history
variable: which analyses no longer describe the trees. `Outdated` says what an effect means for
the analyses, `Invalidated` what the code drops; an optimization that rewrites nodes in place, creates none
and repairs nothing is not among the effects, so that the run shows what the comparison of
counts catches and not that every optimization tells. What an optimization needs depends
on the level (the register allocator needs use-definition information at level hot only),
so `Needs` does on the strategy. `NJStrategies` holds nj's tables as they are, with one thing
worth knowing: the warm strategy names `localDeadStoreElimination`
(`NJOptimizer.cpp:117`), for which nj creates no manager; builds without assertions
leave it out silently.

Named assumptions say what the properties need of the tables: a group is entered
unconditionally and does not contain itself (`GroupsAssumption`), nothing that runs an
optimization stands behind the entry that marks its last run (`LastRunsAssumption`), and
what the constructor requests has a manager, is not declined and is named only with
options that let it run (`RequestedAssumption`). TLC evaluates all of them on nj's tables,
which satisfy them.

## 3. The runs

| run | cfg | states | question |
|---|---|---|---|
| `code_cache` | `CodeCache` | 109 000 | the heap keeps all its invariants and implements `CodeStore`; trampolines: reservations and their liveness, replacements, refinement of `CallTargets`, with memory for entries and blocks running out |
| `trampolines_lost_replacement` | `TrampolinesFullSync` | violated | does every replacement reach the permanent trampoline at last |
| `trampolines_self_deadlock` | `TrampolinesDeadlock` | violated | does a reservation return with a default pthread mutex |
| `manager_threads` | `ManagerThreads` | 1 379 000 | two threads with creation failing at any time: segments, leaked reservations, number of caches, lookup by address, ownership until the first switch |
| `manager_reservations` | `ManagerReservations` | 161 000 | does every reservation end (liveness); for one thread: is a chosen cache large enough, is "full" true |
| `manager_exclusive` | `ManagerExclusive` | violated | is ownership exclusive |
| `compilation` | `Compilation` | 839 000 | ownership and accounting of plans; holders of segments, memory handed out, bytes of the system provider; metadata: answers, chains, overlapping searches |
| `plan_pool_remaining` | `PlanRemaining` | violated | does `freeEntirePool` return the number of plans in use |
| `regions_debug_bytes` | `RegionsDebug` | violated | are the bytes of the debugging provider those of its segments |
| `symbol_lists_threads` | `SymbolListsThreads` | violated | are the counts the lengths when two threads register |
| `flow_graph` | `FlowGraph` | 376 000 | editing, handlers, traversal, dominators |
| `optimizer` | `Optimizer` | 325 000 | requests, last runs, indices, analyses |

Parts that share no state but belong together are checked by one run, in which a variable
`part` says which of them a behaviour is about and the others stay as they began:
`MCCodeCache` has the heap of a cache and its trampolines; `MCCompilation` what a compilation
takes, gives back and leaves (plan, scratch memory, metadata); `MCFlowGraph` the parts
of the flow graph.

**Bounds.** Heap: units of 16 bytes, so alignment 32, headers and list records of
16 and `MIN_SIZE_BLOCK` of 96 bytes keep their real proportions; 320 bytes of code
area hold several blocks at both ends, so that splits with and without a rest,
joins on either side and on both, and a list with warm and cold blocks all occur.
Manager: units of a pointer; two caches' worth of small requests make a thread
fill its cache, switch, create, fail to create, and run out; a request of 5 units
is larger than half a cache and makes a segment of its own size. The repository has room for a
cache more than the limit and its excess allow. Two threads are
enough for every race on a pair of accesses. The caches of
`manager_reservations` are one alignment larger, so that a cache which another
request left has room for a small request and not for a large one. Three
retries are the configured value.
Plans: three threads with threshold 2, so that a thread that
returns a plan to a full pool may find another with a list still to be released;
four addresses, so that a released address is handed out again. `MaxTotal` bounds
the count that failed allocations drive up; without it the state space is
infinite.

Trampolines: three methods on two permanent slots, so that one goes without, or two when
a reservation is made without a method; blocks of one entry and two temporary trampolines, so
that a third replacement before a safe point needs the other paths; slabs of two entries;
memory for a slab or a block may run out whenever one is asked for.
Regions: default segments of four units, requests that fit, that fill one and that exceed
it; a pool of one segment overflows at the second release. Metadata: buckets of
four addresses with methods inside one bucket, across two, at the end of a cache and
empty, stores of four slots that fill up, memory for two of them.
Flow graph: three blocks with a cycle, loops of one block and a shared handler, for every
subset of ten edges; handlers of two inline depths with repeated types, catch-alls and an
OSR block; all graphs of four blocks with at most two successors for the orders; a path
of seven blocks with up to three more edges for dominators (fewer do not rebalance the
forest), all graphs of five blocks for post-dominators.
Optimizer: nj's three strategies whole; one block besides the start (a request for the
end block counts as one for the start, and no optimization makes it); effects one at a
time; limits on the index that end a strategy in the middle or not at all.

**Named parts.** Most invariants are conjunctions of named parts: `FreeListExact` is
`Coalesced` and `LargestExact`; `AllocationExact` is `ColdCodeFits` and
`RefusedOnlyWhenFull`; `SegmentsSound` of the manager is its types, `SegmentsDisjoint` and
`LookupFindsOwner`; `TrampolinesSound` is types, `TrampolinesUnshared` and
`SyncListBounded`; `SegmentsSound` of the regions is types and `SegmentsHeldOnce`;
`StoresSound` is types and `ChainsUnshared`; `GraphSound` is types, `EdgesAreLive`,
`NoOrphans` and `UnreachableNoted`; `RequestsRespected` is types, `LastRunRespected` and
`RequestedRuns`; `AnalysesCurrent` is `AnalysesReady` and `AnalysesFresh`. `HandlersCorrect`,
`OrderCorrect`, `DominatorsCorrect` and `ControlDependenceCorrect` put the parts of
`Handlers`, `Traversal` and `Dominators` together in the same way.

**History variables.** `failures` of `OptimizationPlan` counts allocations that found no
memory, `started` and `switching` of `MCCodeCacheManager` tell whether more than one
thread has compiled and whether a request had to leave its cache: the properties say
exactly under which of these a promise holds.

**Symmetry.** Threads of `manager_threads` and `manager_exclusive` are interchangeable (they all
pass the same identifier), and so are the areas of segments in `compilation`; runs with a
liveness property use no symmetry.

**Deadlock.** It is checked everywhere but in two violated runs:
`trampolines_self_deadlock`, where blocking is the subject and stated as a liveness
property, and `symbol_lists_threads`, which ends when every thread has registered its
methods.

**Fairness.** `manager_reservations` assumes weak fairness of each thread's steps
once it is inside a compilation, and nothing about when compilations start. The
code justifies it: no monitor is held while another thread is waited for, every
loop under a monitor walks a finite list, and no step waits for a condition that
another thread must establish. `code_cache` and `trampolines_self_deadlock` assume weak
fairness of the second half of `reserveResolvedTrampoline`: a thread that can go on does.
`flow_graph` assumes it of the steps inside a removal, which is one sequential call. Strong
fairness is not needed.

**Mutants.** Each property of a passing run has a mutated definition
(`PROJECT.json`, "mutants"; defined just before the original) under which TLC
finds that property violated: a rest of a split block that is not relinked, a
trim the repository does not learn of, a carving undone whatever lies on top of
it, an old cache that stays reserved, and so on.

## 4. What the violated properties say

- **Ownership** (`manager_exclusive`). `OMRCodeCache.hpp:420-423` says that
  `_reserved` enforces "mutually exclusive ownership" and is written under the
  cache's monitor or the list monitor. On a switch
  `allocateCodeMemoryWithRetries` clears it, and then the thread identifier, under
  neither (`OMRCodeCacheManager.cpp:657`, `:736`). A thread that reserves the old
  cache in between loses its identifier; if it then needs a new cache itself, the
  cache it creates is not marked reserved, and the next scan gives it to another thread.
- **Reservation** (`trampolines_self_deadlock`). `reserveResolvedTrampoline` holds the
  cache's monitor and calls `reserveSpaceForTrampoline`, which enters it
  (`OMRCodeCache.cpp:542`). Where the monitor is a default pthread mutex the call does not
  return. It returns at once where `needsMethodTrampolines` is false, as in the front ends
  here.
- **Symbols** (`symbol_lists_threads`). "Synchronization is needed if multiple compilation
  threads are active" (`OMRCodeCacheManager.hpp:317`); there is none, and two threads that
  append at once leave a count that is not the length.
- **Replacements** (`trampolines_lost_replacement`). `replaceTrampoline` means to "rely on the
  sync later on to update the old one" (`OMRCodeCache.cpp:631`). When no memory is found for a
  synchronization block, the next synchronization goes through the whole table and skips entries whose recorded
  address is current (`:670`), although `replaceTrampoline` has recorded it without rewriting the
  permanent trampoline, and then empties the blocks. One failed save costs the
  saved methods their replacements too.
- **Plans in use** (`plan_pool_remaining`). `freeEntirePool` "Returns the number of plans still in
  use somewhere in the system" (`OptimizationPlan.cpp:122`), from what is called the "number of
  elements in the system" (`OptimizationPlan.hpp:235`). A plan is counted before it is allocated
  (`:108`) and stays counted if that fails; `PoolAccounted` and the theorem
  `RemainingPlansOffByFailures` give both numbers exactly.
- **Debugging bytes** (`regions_debug_bytes`). "_system bytes_ refers to the total amount of big
  segments of memory allocated" (`MemoryManager.md:78`); the debugging provider adds to a counter that
  was never initialized.

Other differences between what comments say and what the code does are written into
the models and into properties that hold:

- `_maxNumberOfCodeCaches` is "how many code caches allowed to have". It is compared
  outside of any monitor; `OvershootBounded` shows that it is exceeded by at most one cache
  for every further thread.
- "If one allocation request cannot be satisfied by any code cache in the system, then we
  must declare that code caches have become full"; the scan asks for strictly *more*
  room than needed (`:639`). `FullOnlyWhenNoRoom` shows that a cache with exactly enough
  room is the whole difference.
- `_numRelocations` is the "Total number of CodeCacheRelocationInfor in the linked list"
  (`OMRCodeCacheManager.hpp:95`). No one assigns to `_next` of a new relocation
  (`OMRCodeCacheManager.cpp:937-940`), and the generator walks until it is null
  (`ELFGenerator.cpp:374`), so with one thread already the list ends only by chance. `Create`
  of `SymbolLists` has it so; `CountsAreLengths` is about the lists of symbols, which are
  terminated, so that its violation shows the race alone.
- the partial insertion and the remembered pc of the metadata manager and the missing
  manager of nj, described in section 2.

## 5. The proofs

Eight modules hold 35 theorems. All but one state a property that a run checks, for every
value of the constants that the named assumptions allow, and each module is laid out in
the same way: lemmas about the data, the inductive invariant, one lemma per action,
then the theorems. The constants that stand for "nobody" or "nothing" are assumed to
differ from what they are compared with (`NoneAssumption`, `NoCacheAssumption`,
`ThreadsAssumption`, `AreasAssumption`, `MonitorAssumption`): in the code they are null pointers or a tag.
Two theorems have a hypothesis on the size of a cache, explained below.

The library's induction theorems take an operator as a parameter, which the provers
cannot instantiate. Where an argument is by induction over numbers (sums of sizes, layers
of the reachable blocks, the slots of a chain, the entries of a table) it is stated for a
*set* instead of a predicate: a set that contains 0 and with each number the next
contains all of them, because the complement would have a least element. That is enough
for recursive functions too. A lemma first shows, for each of them, that a function with the
recursive equations exists and is the only one; then what it computes is such an
induction. It is enough for sums, ranks, copies and removals, and less convenient than the
real thing.

Two things came to light. In `SweepNode` of `ControlFlow` and in
`Contracted` of `CodeMetaData` the guards of a `CASE` overlapped; which arm is meant is
then not defined, although TLC takes the first. They are disjoint now. And
the theorems about the metadata manager have an assumption that the
code needs and does not test (`RoomAssumption`).

### CodeCacheProofs

`TypeCorrect` and `BlocksNeverOverlap` hold for every size of the code area, every
alignment and every set of request and trim sizes. From the assumptions named in
`CodeCache`: alignment and header are positive (`AlignAssumption`,
`HeaderAssumption`), a list record is smaller than an alignment unit and than
`MIN_SIZE_BLOCK` (`FreeBlockAssumption`), both ends of the area are aligned
(`HeapAssumption`), and the constants have their types.

The inductive invariant is `TypeOK /\ NoOverlap /\ BlocksLarge`. `NoOverlap` alone
is not inductive: `addFreeBlock2` joins a freed block with a neighbour across a
gap that is too small to be a block, and takes the gap with it. That is safe only
if no block in use fits into such a gap, which is what `BlocksLarge` says: no block
is smaller than a list record. `NoOverlap` itself is a conjunction whose parts
need each other: that the pointers never cross and that every block lies outside
of the hole is what makes bump allocation safe, that free blocks and blocks in use
are apart is what makes recycling safe.

The argument: lemmas about rounding bound the adjusted sizes; lemmas about the
list say what `BestFit`, the split and `JoinedBlock` return; `GiveBackStep` covers
everything that puts bytes on the list, whether a tail or a whole block; then there
is one lemma per action.

`NoByteIsLost`, `RepositorySpaceExact`, `FreeListAlwaysExact`, `RequestsAnsweredExactly`
and `CacheImplementsStore` hold from the same assumptions. The invariant is extended by `AlignedHeap`: both edges of the hole and both ends of
every block are multiples of the alignment. Without it the others are not inductive. A
gap between two free blocks that is too small for a list record would be neither free
nor in use, and a byte would be lost; since a record is smaller than an alignment unit
and both ends of the gap are aligned, such a gap is empty. `NothingLost` and
`FreeListExact` need each other's invariant and no more.

`FreeListAlwaysExact` is about the cached sizes of the largest free blocks. The
argument follows the code: taking the largest block
searches the rest for the next, taking another leaves the largest alone, and a block
given back, joined or not, is compared with what was cached; a join
takes no block away without putting a larger one in its place. Maxima of finite sets are
characterised once, by lemmas, and used by what they satisfy. The refinement maps blocks in
use to the blocks of `CodeStore`; every action is then a `Grant`, `Shrink`, `Release` or
a stutter.

### CodeCacheManagerProofs

`SegmentsAlwaysSound`, `ReservationsNeverLeak` and `CachesAlwaysBounded` of the
manager with its threads, and `OwnershipExclusive` of the same with the history variable
`switching`; for any finite set of threads and any sizes for which the first cache fits.

The invariant relates program counters to what a thread holds (`Control`), says that a
block that may be trimmed fits back into the hole (`TrimFits`: types depend on it),
that all segments, linked or in the hands of a thread, are disjoint and of the size of a
cache, and that a reserved cache is owned by some thread also between the two writes that
give up an old cache for a new one (`ReservedOwned`). The bound on the number of caches
is `CountInv`. The limit is tested without a lock and the counter moves later, so the
counter alone is not bounded by induction: the threads
that have passed the test and have not linked their cache (`Growing`) count too. When a
thread passes the test the counter is below the limit, and every other thread adds one at most.
`OwnershipExclusive` adds that before the first switch no thread is on the paths that leave a
cache.

`LaterAttemptsSucceed` and `FullMeansNoRoom` are about one thread that compiles. They have
the hypothesis `CachesLarge`, that half a cache holds a header and three alignment
units: the room that the helpers and the rounding of a large request take from a new cache must be
bounded. nj has caches of 128 KB (`NJJit.cpp:77`, `:93`) and an alignment of 32
(`NJJit.cpp:95`). In the run a cache is smaller than that, and the properties hold there
too, for the sizes that it requests; the hypothesis makes them hold for every size. `FullMeansNoRoom`
also needs two retries or more (the configuration has three, `OMRCodeCacheConfig.hpp:92`):
with one, "full" is declared without a scan. The invariant `AloneInv` says that every
cache is in the list or about to be linked (`Listed`), that from the second attempt on
there is room for the request, wherever between scan, carving and switch the thread is
(`Served`), and that when it asks for a new cache no cache has room, or none exists
(`Searched`).

### TrampolinesProofs

`LayoutAlwaysSound` and `ReservationsAlwaysHonoured` hold for any number of slots,
any threads and any finite set of methods, whichever allocations fail. The invariant: a thread that reserves is
inside of the monitor and its method has no entry yet (`WorkInv`), a method without
entry has neither trampoline nor address (`EntriesInv`), only methods with a permanent
trampoline are saved, each once (`SavedServed`, `SavedOnce`). From `SavedOnce` and the
fact that a new block is pushed only when all are full follows the bound on blocks:
full blocks hold as many methods as they have places, by the cardinality of a product. That the
number of entries and of open reservations fits between the two marks is
an equation between cardinalities, which is what `ReservationHonoured` says.

`ReplacementsAlwaysKept` and `TrampolinesImplementTargets` hold whichever allocations fail, those of
synchronization blocks included. `AddressesInv` says that nobody has asked for an address that
the method does not have yet. Each step is one of four kinds seen from outside
(`Recompiled`, `Rewritten`, `Postponed`, `Synchronized`) or leaves what is visible
alone; that classification is the refinement as well. A postponed method is saved or the flag for a
full synchronization is set, and only a synchronization takes either away; what a full one
leaves behind is an entry whose recorded address is current, which is the exception that
`ReplacementsKept` names.

### RegionsProofs

`SegmentsNeverLeak`, `MemoryNeverShared` and `BytesAlwaysExact` hold for any areas, sizes,
pool and nesting, the first two for both providers. The idea is "held once": a family of lists
in which every element of a set is in exactly one list and there once (`HeldOnce`). Two
instances are conjuncts of the invariant: the chains of the regions and the pool hold the
segments in use (`SegmentsHeld`), and the stack, the list of regions being destroyed and the
lists of objects hold the live regions (`RegionsHeld`). Lemmas say what happens when an
element is added, removed, moved, or a holder comes, so each action is one of
these moves. `MemoryNeverShared` needs that what was handed out ends below the
allocation mark of a segment that the same region still holds (`GrantsInside`), since recycling
resets the mark; and `PoolSized`, since a recycled segment is trusted to have the default
size. `BytesAlwaysExact` is about a sum over a set that grows and shrinks. That the debugging
provider may unmap what it has needs `EndInv`: when the scope of the regions has ended no
region is live, because a region is younger than the one it is an object of, so the oldest
would have nobody to destroy it.

### CodeMetaDataProofs

`StoresStaySound`, `SearchStaysSafe`, `LookupStaysExact` and `RemovalAlwaysSucceeds` hold for
any caches that do not overlap, any methods, buckets and stores (`CachesAssumption`,
`MetasAssumption`, `StoreAssumption`, `RoomAssumption`), whenever memory runs out and
with a search at every moment of an insertion.

Nothing here is inductive alone. That a chain is read to its end and no further needs that
chains are apart and lie in the used part of a store (`TablesInv`), also the chain that an
insertion has written and not yet published, and the second end it puts behind a chain before it
takes the mark from the first (`PreparedInv`). A search may be in a chain that no bucket
names any more: it keeps its end, since slots are written only behind the allocation point
or behind a chain (`SearchInv`). That lookups are exact needs to know who is in which
bucket: a registered method is in all buckets of its range (`RegisteredHeld`), what a
bucket holds belongs there and is in the buckets before it (`HeldAlive`: an insertion that
ran out of memory leaves a prefix), methods in the tables do not overlap (`AliveApart`: callers insert code
that the code cache has granted, and granted blocks are apart), and the remembered answer is in the bucket of
the remembered pc (`CacheInv`), also after a removal. `RemovalAlwaysSucceeds` then follows the removal
bucket by bucket: taking a method out of one bucket leaves what the others hold.

### ControlFlowProofs

`GraphAlwaysSound` and `RemovalAlwaysSpares` hold for any finite set of blocks and any
set of possible edges. The model computes the reachable blocks in as many rounds
as there are blocks. The lemmas show that this is the least set that contains the start and is
closed under edges: the rounds grow until they are closed, and a set cannot grow more
often than it has elements. From there only `ReachClosed` and `ReachLeast` are used.

The properties speak of states between edits; the invariant says what holds
within one. Nodes of a walk have lost their last edge from another node, those visited have
no successors left (`WalkInv`); a node whose successors are being cut is out of the
graph (`CurrentInv`, `EdgesInv`); an orphan is in the walk (`OrphansInv`); and what a sweep
has yet to remove is all that the start does not reach (`SweepInv`). One lemma, `CutKeeps`, covers
the steps that cut edges: cutting only edges that leave unreachable blocks changes nothing that
the start reaches, and the blocks which lose their last edge are those given to the walk.

`HandlersAlwaysCorrect` is about the exception successors of one block, for any finite
set of catch blocks in which inline depth and handler index identify one
(`CatchersAssumption`, which the iterator asserts). The invariant (`HandlersInv`) says
that no handler is there twice and that each one left out is superseded by one that is kept
(`Covers`). A handler that supersedes another takes whatever that takes and is considered
before it, so the first handler for an exception among those requested was never left out. The copy
is the same argument, repeated along the loop. For the iterator the place of a
handler is shown to grow with the order of consideration: places are ranks of a finite set
of numbers.

`OrderAlwaysCorrect` is about both directions of `createTraversalOrder`, for every graph on a
finite set of block numbers that has the entry 0 (`BlocksAssumption`). The invariant
(`TraversalInv`): the stack is a path from the entry (`StackOK`); visited blocks are those
on the stack and those in the order (`SetsOK`); an edge from a block of the order leads forward in it or was noted as a back edge
(`EdgesOK`), and so for the edges that a block on the stack has passed (`PassedOK`); a block that extends its predecessor is next to it or the
next to be finished (`NextOK`, `FallsOK`; only the backward order looks at it,
`Direction`), and a block not yet visited has no back edge and no
visited fall-through (`LaterOK`). That all blocks which the entry reaches are in the order follows at
the end: the order is then closed under edges, and the reached blocks are the least closed set.

### OptimizerProofs

`AnalysesAlwaysCurrent` holds for any tables, needs and effects of optimizations on the
method. `AnalysesFresh` speaks of the moment at which an optimization runs; the
invariant says the same of every moment: an analysis that no longer describes the
trees is not present (`Outdated`; see section 2 for what it leaves out). It rests on the invalidations at the end of `performOptimization` covering every
effect, and on the analyses being built in the order of their dependence.

`IndexAlwaysStable` and `RequestsAlwaysRespected` need the assumptions on tables of section 2.
The invariant is `RunInv`. `StackInv`: the calls lead from the strategy through groups to the
entry at hand. `CountInv`: the index is the sum of what each open call has passed, where
a group that has been passed counts as all that it contains. `CountTo`, the count of the
entries of a table, is a recursive function over nested tables; it is well defined because
the nesting is not circular, shown along the number of tables within a table, and `Within` is
defined as a least closed set. `LastInv`: what is marked as having had its last run is not among the
entries to come, on any level of the stack. `RequestInv`: what the constructor requested is
requested for the whole method until it has run, and as long as it has not, some entry to come
runs it, or compilation failed or the limit on the index was passed.

### OptimizationPlanProofs

`PlanTypes`, `PlansNeverShared`, `PoolAlwaysAccounted` and `RemainingPlansOffByFailures` hold
for every finite set of threads and addresses and every threshold. The counters are exact:
`_totalNumAllocatedPlans` is the number of plans in the pool, in use or being allocated,
and of allocations that failed. The invariant adds to these that a thread has a plan
exactly from the end of `new` to the critical section of `freeOptimizationPlan`
(`PlanHeld`: otherwise taking a plan could overwrite one, and returning it push null).
Types are not
inductive by themselves: that the unsigned counters do not pass below zero follows
from `PoolAccounted`. Three lemmas say what taking the head, pushing and cutting
do to a list without duplicates, four how the sets of owners change, and one lemma
per action puts them together.

### What is only model-checked

- *Liveness*: `ReservationsEnd`, `ReservationReturns` and `RemovalsEnd` need fairness,
  which this proof system cannot treat.
- *Dominators*: `DominatorsCorrect` and `ControlDependenceCorrect` compare the
  Lengauer-Tarjan algorithm, with its balanced forest and path compression, with dominance
  by removal of a block. `Dominators` uses recursive operators, with which the backends
  cannot work, and the argument (semidominators, compression of paths) is induction over
  depth-first trees, a project of its own.
- The runs that end in a violation, by their nature.

## 6. What is not modelled

The repository has some 680 000 lines, most of them tables of instructions and
operations, code generators for five architectures and some hundred optimizations. The
models cover the parts that keep state across calls or are shared.

- *Optimizations*: sequential transformations of trees whose correctness is about the
  meaning of programs, which is not defined here. The optimizer's model
  takes an optimization for any of a set of effects. Conditions that only strategies of
  other front ends use, and global use-definition information and global value numbers,
  which no optimization of nj asks for, are left out.
- *Structure of the flow graph*: the forest of regions and loops kept beside it, which
  every edit repairs; frequencies, cloning of blocks and the trees inside blocks.
- *Lists for ELF output*: only how they are appended to and walked; the files are output.
- *The table of unresolved methods* of the trampolines has no writer in the repository;
  what the platform writes into a trampoline is external.
- *Persistent memory* (malloc) and the statistics of the region profiler.
- *Runtime assumptions*: only the record types are here; the table belongs to the
  embedding virtual machine.
- *Monitors*: pthread mutexes; a critical section is one step, apart from the case of an
  owner that enters again.
- *Front ends*: they supply the constants and the strategies. Start and stop of the JIT
  and the construction of IL are calls forwarded one to one.
- *Code generators*: only their calls into code caches.
- *Debugging, tests, tools, third-party code.*

## 7. Plan

1. **Algorithms that are worth a reference definition**: integer constraints of value
   propagation (merge and intersect with their overflow cases), colouring of the
   interference graph in the register allocator, the hash tables under `infra/`, the
   regular expressions of the option parser, reference counts of nodes.
2. **Composition**: the manager with the heaps of `CodeCache` in place of the size of
   the hole, so that an unlocked trim meets an allocation of another thread.
3. **Proofs**: the dominator algorithm, beginning with the depth-first numbering and the
   forest without balancing; the refinement of the composed manager; liveness where a
   proof system for fairness is at hand.
