------------------------------ MODULE Process ------------------------------
(***************************************************************************)
(* What every part of the simulator shares: the machine word and the fate  *)
(* of the simulating process itself.                                       *)
(***************************************************************************)
EXTENDS Integers

CONSTANT WORDS  \* the number of values of a uint32_t (2^32)

ASSUME WordAssumption == WORDS \in Nat \ {0}

Word == 0 .. WORDS - 1

\* Variant: an addition wider than the register it goes to.
Add_unwrapped(a, b) == a + b

Add(a, b) == (a + b) % WORDS
Subtract(a, b) == (a - b) % WORDS

VARIABLE process

\* "exited": the program called exit.  "crashed": it read through a null or a
\* wild pointer.  "undefined": it wrote outside its memory, and nothing more
\* can be said of it.
Fates == {"running", "exited", "crashed", "undefined"}

running == process = "running"
=============================================================================
