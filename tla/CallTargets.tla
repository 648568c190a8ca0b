---------------------------- MODULE CallTargets -----------------------------
(***************************************************************************)
(* What the trampolines of a code cache promise the runtime, whatever      *)
(* their layout: a call that leaves the cache for a method goes through    *)
(* the method's permanent trampoline, and reaches the start address the    *)
(* trampoline was last told of or, while that cannot be written into code  *)
(* that may be executing, is a method known to be late.  A safe point      *)
(* brings every late method to its current start address.  When the late   *)
(* methods could not all be listed, it goes by the recorded addresses      *)
(* instead: it brings those methods to their current addresses that are    *)
(* recorded with another one, and leaves a late method alone that is       *)
(* recorded with its current address.                                      *)
(***************************************************************************)
EXTENDS Integers

CONSTANTS Methods, MaxPC

VARIABLES
  current,    \* the start address of every method; later ones are larger
  recorded,   \* the address its trampoline was last told of, 0 for none
  reached,    \* the address its permanent trampoline jumps to, 0 for none
  late,       \* methods listed as waiting for a safe point
  unlisted    \* some method waits that could not be listed

vars == << current, recorded, reached, late, unlisted >>

Init == /\ current = [m \in Methods |-> 1]
        /\ recorded = [m \in Methods |-> 0]
        /\ reached = [m \in Methods |-> 0]
        /\ late = {}
        /\ unlisted = FALSE

Compile(m) ==
  /\ current[m] < MaxPC
  /\ current' = [current EXCEPT ![m] = @ + 1]
  /\ UNCHANGED << recorded, reached, late, unlisted >>

\* The trampoline is created, or rewritten where no one can be executing it.
Rewrite(m, v) ==
  /\ recorded' = [recorded EXCEPT ![m] = v]
  /\ reached' = [reached EXCEPT ![m] = v]
  /\ UNCHANGED << current, late, unlisted >>

\* The trampoline cannot be rewritten now.  The request is recorded if there
\* is another way to serve it until the safe point.
Postpone(m, v) ==
  /\ reached[m] # 0
  /\ recorded' \in {recorded, [recorded EXCEPT ![m] = v]}
  /\ \/ late' = late \cup {m} /\ UNCHANGED unlisted
     \/ unlisted' = TRUE /\ UNCHANGED late
  /\ UNCHANGED << current, reached >>

\* The methods that a safe point brings to their current addresses.
Behind ==
  IF unlisted
  THEN {m \in Methods : reached[m] # 0 /\ recorded[m] # current[m]}
  ELSE late

SafePoint ==
  /\ recorded' = [m \in Methods |-> IF m \in Behind THEN current[m] ELSE recorded[m]]
  /\ reached' = [m \in Methods |-> IF m \in Behind THEN current[m] ELSE reached[m]]
  /\ late' = {}
  /\ unlisted' = FALSE
  /\ UNCHANGED current

Next == \/ \E m \in Methods : \/ Compile(m)
                              \/ \E v \in 1 .. current[m] : \/ Rewrite(m, v)
                                                            \/ Postpone(m, v)
        \/ SafePoint

Spec == Init /\ [][Next]_vars
=============================================================================
