----------------------------- MODULE CodeStore ------------------------------
(***************************************************************************)
(* What a code cache promises the code generator, whatever it does to find *)
(* the space: every block it hands out is aligned, lies inside the cache   *)
(* and shares no byte with a block that is still in use; a block in use    *)
(* never moves and never grows, it can only be trimmed to a prefix of      *)
(* itself or be given back.                                                *)
(***************************************************************************)
EXTENDS Integers, FiniteSets

CONSTANTS Align,      \* the code cache alignment
          CodeBase,   \* first byte code may occupy
          CodeTop     \* first byte above the code

VARIABLE inUse        \* the blocks in use: [start, size]

BlockEnd(b) == b.start + b.size

Apart(a, b) == BlockEnd(a) =< b.start \/ BlockEnd(b) =< a.start

\* A block the cache may hand out.
Grantable(b) == /\ b.start % Align = 0
                /\ b.size > 0
                /\ CodeBase =< b.start
                /\ BlockEnd(b) =< CodeTop

Init == inUse = {}

\* Grant hands out the warm block, the cold block or both.
Grant ==
    /\ inUse \subseteq inUse'
    /\ \E new \in {inUse' \ inUse} :
         /\ new # {} /\ Cardinality(new) =< 2
         /\ \A b \in new : Grantable(b)
         /\ \A b \in new : \A c \in inUse' : b # c => Apart(b, c)

\* Shrink cuts the tail of one block.
Shrink ==
    \E b \in inUse :
      /\ Cardinality(inUse' \ inUse) = 1
      /\ \A c \in inUse' \ inUse :
           /\ c.start = b.start
           /\ 0 < c.size /\ c.size < b.size
           /\ inUse' = (inUse \ {b}) \cup {c}

\* Release gives one block back.
Release == \E b \in inUse : inUse' = inUse \ {b}

Next == Grant \/ Shrink \/ Release

Spec == Init /\ [][Next]_inUse
=============================================================================
