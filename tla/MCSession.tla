----------------------------- MODULE MCSession -----------------------------
(***************************************************************************)
(* Sessions over a memory of eight words, the lower two of which a reset   *)
(* clears, with four programs from the instruction set for control.        *)
(***************************************************************************)
EXTENDS MCComputer, Session

EmptyMemory == {[l \in Location |-> 0]}

\* A loop that traps, one that calls and returns, a RETURNI, and a program
\* that ends on the words of the one before it.
MCLoads == {<<9, 1, 7, 14, 9, 15>>, <<3, 14, 10, 5>>, <<8, 10, 15>>, <<11>>}
=============================================================================
