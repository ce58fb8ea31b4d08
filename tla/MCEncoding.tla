----------------------------- MODULE MCEncoding -----------------------------
(***************************************************************************)
(* Four registers and, for each width of a field, the numbers around its   *)
(* bounds, with a few far outside every field.                             *)
(***************************************************************************)
EXTENDS Encoding

MCNames == {bits(r) : r \in {0, 10, 21, 31}}

MCOffsets ==
  {bits(n) : n \in {0, 1, -1, 5, 21845, -21846, 1000000000, -1000000000}
    \cup UNION {{2 ^ (w - 1) - 1, 2 ^ (w - 1), -(2 ^ (w - 1)),
                 -(2 ^ (w - 1)) - 1} : w \in {15, 16, 21, 23, 26}}}
=============================================================================
