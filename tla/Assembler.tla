------------------------------ MODULE Assembler ------------------------------
(***************************************************************************)
(* include/bit_twiddling.h and include/preprocessor_assembler.h: how the   *)
(* macros put an instruction together.  A uint32_t is the set of its bits  *)
(* that are one; registers and offsets are given as the integers that the  *)
(* programmer writes.                                                      *)
(***************************************************************************)
EXTENDS Integers

Bit == 0 .. 31
uint32 == SUBSET Bit

\* The two's complement of an int, or of a number up to 2^32.
bits(n) ==
  {i \in 0 .. 30 : (n \div 2 ^ i) % 2 = 1}
    \cup IF ((n \div 2 ^ 30) \div 2) % 2 = 1 THEN {31} ELSE {}

\* The number that the eight bits of a word from start_bit on are.
byte(word, start_bit) ==
  LET b(i) == IF start_bit + i \in word THEN 2 ^ i ELSE 0
  IN  b(0) + b(1) + b(2) + b(3) + b(4) + b(5) + b(6) + b(7)

\* The int that a uint32_t is the two's complement of.
int32(word) ==
  byte(word, 0) + 2 ^ 8 * byte(word, 8) + 2 ^ 16 * byte(word, 16)
    + 2 ^ 24 * (byte(word, 24) - IF 31 \in word THEN 2 ^ 8 ELSE 0)

\* << and >>
left(w, k) == {i \in Bit : i - k \in w}
right(w, k) == {i \in Bit : i + k \in w}

\* Variant: the mask of the bottom bits forgotten.
GET_BOTTOM_BITS_unmasked(value, number) == value

GET_BOTTOM_BITS(value, number) == value \cap 0 .. number - 1

GET_BITS_IN_RANGE(reg, start_bit, end_bit) ==
  right(reg \cap start_bit .. end_bit, start_bit)

CHECK_BIT_SET(reg, bit) == reg \cap {bit}

\* include/opcode_list.h, without MUL, DIV and COMPARE (6, 7 and 8), which no
\* macro can write.
OPCODE ==
  [AND |-> {}, OR |-> {0}, NOT |-> {1}, XOR |-> {0, 1}, ADD |-> {2},
   SUB |-> {0, 2}, SHIFTL |-> {0, 3}, ASHIFTR |-> {1, 3}, LOAD |-> {0, 1, 3},
   LOADR |-> {2, 3}, LOADA |-> {0, 2, 3}, STORE |-> {1, 2, 3},
   STORER |-> {0, 1, 2, 3}, JUMP |-> {4}, BRANCH |-> {0, 4}, CALL |-> {1, 4},
   CALLR |-> {0, 1, 4}, JUMPR |-> {2, 4}, TRAP |-> {0, 2, 4},
   RETURNI |-> {1, 2, 4}]
-----------------------------------------------------------------------------
(* The formats, on bits *)

REGISTER_OP(op, dest, sr1, sr2) ==
  left(op, 26) \cup left(dest, 21) \cup left(sr1, 16) \cup left(sr2, 11)

IMMEDIATE_OP(op, dest, sr, imm15) ==
  left(op, 26) \cup left(dest, 21) \cup left(sr, 16)
    \cup left(GET_BOTTOM_BITS(imm15, 15), 1) \cup {0}

PC_RELATIVE(op, reg, imm21) ==
  left(op, 26) \cup left(reg, 21) \cup GET_BOTTOM_BITS(imm21, 21)

BASE_PLUS_OFFSET(op, reg, base, imm16) ==
  left(op, 26) \cup left(reg, 21) \cup left(base, 16)
    \cup GET_BOTTOM_BITS(imm16, 16)

JUMP_PC_RELATIVE(op, pc_rel_offset26) ==
  left(op, 26) \cup GET_BOTTOM_BITS(pc_rel_offset26, 26)

\* codes: the bits P (0), Z (1) and N (2).
BRANCH_PC_RELATIVE(op, codes, pc_rel_offset23) ==
  left(op, 26) \cup left(codes, 23) \cup GET_BOTTOM_BITS(pc_rel_offset23, 23)
-----------------------------------------------------------------------------
(* The mnemonics the driver's program is written with *)

OR(dest, sr1, sr2) == REGISTER_OP(OPCODE.OR, bits(dest), bits(sr1), bits(sr2))
ADD_IMMEDIATE(dest, sr, imm15) ==
  IMMEDIATE_OP(OPCODE.ADD, bits(dest), bits(sr), bits(imm15))
LOAD(reg, imm21) == PC_RELATIVE(OPCODE.LOAD, bits(reg), bits(imm21))
STORER(reg, base, imm16) ==
  BASE_PLUS_OFFSET(OPCODE.STORER, bits(reg), bits(base), bits(imm16))
JUMP(offset) == JUMP_PC_RELATIVE(OPCODE.JUMP, bits(offset))
HCF == JUMP(-1)
CALL(offset) == JUMP_PC_RELATIVE(OPCODE.CALL, bits(offset))
RETURN == BASE_PLUS_OFFSET(OPCODE.JUMPR, {}, bits(30), {})
BRP(offset) == BRANCH_PC_RELATIVE(OPCODE.BRANCH, {0}, bits(offset))
=============================================================================
