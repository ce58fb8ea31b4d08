------------------------------ MODULE MCDriver ------------------------------
(***************************************************************************)
(* The driver on a screen of six by five, with a box of three by two, and  *)
(* a timer that overflows only after the program has halted.               *)
(***************************************************************************)
EXTENDS Driver

MCReg == 0 .. 31

\* NOP is the only bitwise operation of the program.
MCBitAnd == [p \in Word \X Word |-> IF p[1] = p[2] THEN p[1] ELSE 0]
MCBitOr == [p \in Word \X Word |-> IF p[1] = p[2] THEN p[1] ELSE WORDS - 1]
MCBitXor == [p \in Word \X Word |-> IF p[1] = p[2] THEN 0 ELSE WORDS - 1]
=============================================================================
