---------------------------- MODULE SymbolLists -----------------------------
(***************************************************************************)
(* The lists from which the code cache manager writes its ELF files: the   *)
(* symbols of the executable, the symbols of the object file and the       *)
(* relocations of the object file, which name a symbol by its position in  *)
(* the list (OMRCodeCacheManager.cpp, registerCompiledMethod and           *)
(* registerStaticRelocation).  The lists are linked through _next and have *)
(* a head, a tail and a count, and no monitor: a step is one access to     *)
(* shared memory.  The contents of an element are left out.                *)
(***************************************************************************)
EXTENDS Integers, Sequences

CONSTANTS Threads,
          MaxNodes   \* bound: list elements that are allocated

Lists == {"symbols", "relocatableSymbols", "relocations"}
Null == 0
Garbage == -1   \* what memory that was never written holds, when it is not Null

VARIABLES
  head, tail, num,   \* the containers of the three lists
  next,              \* _next of every element; elements are numbered from 1
  allocated,         \* number of elements allocated
  crashed,           \* a null pointer was followed
  pc, todo,          \* of a thread: the lists it has yet to append to
  node, count        \* newSymbol or newRelocation, _num read by ++

lists == << head, tail, num, next >>
vars == << lists, allocated, crashed, pc, todo, node, count >>

Goto(t, label) == pc' = [pc EXCEPT ![t] = label]

\* registerCompiledMethod, and registerStaticRelocation, are sequences of
\* appends.
Registrations == { << "symbols", "relocatableSymbols" >>,
                   << "relocatableSymbols", "relocations" >> }

Register(t) ==
  /\ pc[t] = "idle"
  /\ \E r \in Registrations : /\ allocated + Len(r) =< MaxNodes
                              /\ todo' = [todo EXCEPT ![t] = r]
  /\ Goto(t, "create")
  /\ UNCHANGED << lists, allocated, crashed, node, count >>

\* getMemory and the assignments to the new element; no one assigns to _next of
\* a relocation.
Create(t) ==
  /\ pc[t] = "create"
  /\ allocated < MaxNodes
  /\ allocated' = allocated + 1
  /\ node' = [node EXCEPT ![t] = allocated']
  /\ \E n \in IF Head(todo[t]) = "relocations" THEN {Null, Garbage} ELSE {Null} :
       next' = [next EXCEPT ![allocated'] = n]
  /\ Goto(t, "test")
  /\ UNCHANGED << head, tail, num, crashed, todo, count >>

\* if (_head)
Test(t) ==
  /\ pc[t] = "test"
  /\ Goto(t, IF head[Head(todo[t])] # Null THEN "link" ELSE "first")
  /\ UNCHANGED << lists, allocated, crashed, todo, node, count >>

\* _tail->_next = newSymbol
LinkLast(t) ==
  /\ pc[t] = "link"
  /\ LET last == tail[Head(todo[t])]
     IN  IF last = Null
         THEN crashed' = TRUE /\ UNCHANGED next
         ELSE next' = [next EXCEPT ![last] = node[t]] /\ UNCHANGED crashed
  /\ Goto(t, "tail")
  /\ UNCHANGED << head, tail, num, allocated, todo, node, count >>

\* _head = newSymbol
LinkFirst(t) ==
  /\ pc[t] = "first"
  /\ head' = [head EXCEPT ![Head(todo[t])] = node[t]]
  /\ Goto(t, "tail")
  /\ UNCHANGED << tail, num, next, allocated, crashed, todo, node, count >>

\* _tail = newSymbol
SetTail(t) ==
  /\ pc[t] = "tail"
  /\ tail' = [tail EXCEPT ![Head(todo[t])] = node[t]]
  /\ Goto(t, "count")
  /\ UNCHANGED << head, num, next, allocated, crashed, todo, node, count >>

\* _numSymbols++, the load and the store.
LoadCount(t) ==
  /\ pc[t] = "count"
  /\ count' = [count EXCEPT ![t] = num[Head(todo[t])]]
  /\ Goto(t, "store")
  /\ UNCHANGED << lists, allocated, crashed, todo, node >>

StoreCount(t) ==
  /\ pc[t] = "store"
  /\ num' = [num EXCEPT ![Head(todo[t])] = count[t] + 1]
  /\ todo' = [todo EXCEPT ![t] = Tail(@)]
  /\ Goto(t, IF Len(todo[t]) > 1 THEN "create" ELSE "idle")
  /\ UNCHANGED << head, tail, next, allocated, crashed, node, count >>

Init ==
  /\ head = [l \in Lists |-> Null]
  /\ tail = [l \in Lists |-> Null]
  /\ num = [l \in Lists |-> 0]
  /\ next = [n \in 1 .. MaxNodes |-> Null]
  /\ allocated = 0
  /\ crashed = FALSE
  /\ pc = [t \in Threads |-> "idle"]
  /\ todo = [t \in Threads |-> << >>]
  /\ node = [t \in Threads |-> Null]
  /\ count = [t \in Threads |-> 0]

Next ==
  /\ ~crashed
  /\ \E t \in Threads : \/ Register(t) \/ Create(t) \/ Test(t) \/ LinkLast(t)
                        \/ LinkFirst(t) \/ SetTail(t) \/ LoadCount(t) \/ StoreCount(t)

Spec == Init /\ [][Next]_vars

-----------------------------------------------------------------------------
\* The element at position i of a list, from 0, or what ends the list.
At(l, i) ==
  LET walk[k \in 0 .. MaxNodes] ==
        IF k = 0 THEN head[l]
        ELSE IF walk[k - 1] \in {Null, Garbage} THEN walk[k - 1] ELSE next[walk[k - 1]]
  IN  walk[i]

\* A walk until Null meets as many elements as were counted.
CountIsLength(l) == \A i \in 0 .. MaxNodes : At(l, i) # Null <=> i < num[l]

Quiet == \A t \in Threads : pc[t] = "idle"

\* "Number of symbols in the linked list" (OMRCodeCacheManager.hpp): when no
\* registration is under way the counts, from which the ELF generator computes
\* the offsets of the sections, are the lengths of the lists it writes.
CountsAreLengths == Quiet => CountIsLength("symbols") /\ CountIsLength("relocatableSymbols")
=============================================================================
