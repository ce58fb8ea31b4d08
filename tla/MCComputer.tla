----------------------------- MODULE MCComputer -----------------------------
(***************************************************************************)
(* The computer scaled down for TLC: 4-bit words, three registers, six     *)
(* words of RAM under an address space of sixteen (0..7 boot ROM, 8..9     *)
(* vector table, 10..11 frame buffer, 12 keyboard, 13..15 RAM), and two    *)
(* instruction sets of sixteen words, one for data and one for control.    *)
(***************************************************************************)
EXTENDS ComputerIsa, Latency, FiniteSetsExt

MCReg == {0, 1, LINK_REGISTER}

Bit(w, i) == (w \div 2 ^ i) % 2

Wordwise(Combine(_, _)) ==
  [p \in Word \X Word |->
     MapThenSumSet(LAMBDA i : Combine(Bit(p[1], i), Bit(p[2], i)) * 2 ^ i,
                   0 .. 3)]

MCBitAnd == Wordwise(LAMBDA a, b : a * b)
MCBitOr == Wordwise(LAMBDA a, b : IF a + b = 0 THEN 0 ELSE 1)
MCBitXor == Wordwise(LAMBDA a, b : (a + b) % 2)

\* An instruction with all its offset fields equal; Imm marks the immediate
\* mode of an ALU operation, Ins the other instructions.
Fields(op, dr, sr1, sr2, imm, codes, value) ==
  [opcode |-> op, destination_reg1 |-> dr, source_reg1 |-> sr1,
   source_reg2 |-> sr2, immediate_mode |-> imm,
   instruction_condition_codes |-> codes,
   ALU_immediate_bits |-> value % WORDS,
   load_pc_relative_offset_bits |-> value % WORDS,
   base_register_offset_bits |-> value % WORDS,
   jump_pc_relative_offset_bits |-> value % WORDS,
   branch_pc_relative_offset_bits |-> value % WORDS]

Imm(op, dr, sr1, value) == Fields(op, dr, sr1, 0, TRUE, {}, value)
Regs(op, dr, sr1, sr2) == Fields(op, dr, sr1, sr2, FALSE, {}, 0)
Mem(op, r, base, value) == Fields(op, r, base, 0, FALSE, {}, value)
Goto(op, base, value) == Fields(op, 0, base, 0, FALSE, {}, value)
Branch(codes, value) == Fields("BRANCH", 0, 0, 0, FALSE, codes, value)

Table(list) == [w \in Word |-> list[w + 1]]

DataDecode == Table(<<
  Regs("AND", 0, 0, 0),        \*  0
  Mem("LOAD", 1, 0, 2),        \*  1  from two past the next instruction
  Mem("STORE", 1, 0, 1),       \*  2  one past the next instruction
  Mem("STORER", 1, 0, 10),     \*  3  frame buffer, keyboard or past the RAM
  Mem("LOADR", 1, 0, 4),       \*  4
  Mem("LOADA", 0, 0, 1),       \*  5
  Imm("ADD", 0, 0, 1),         \*  6
  Regs("NOT", 1, 0, 0),        \*  7
  Imm("XOR", 1, 1, 5),         \*  8
  Regs("SUB", 0, 1, 0),        \*  9
  Imm("OR", 0, 0, -5),         \* 10
  Mem("LOADR", 1, 0, 10),      \* 11  frame buffer, keyboard or past the RAM
  Imm("AND", 1, 1, 6),         \* 12
  Regs("NOP", 0, 0, 0),        \* 13
  Mem("STORE", 1, 0, -1),      \* 14  over itself
  Goto("JUMP", 0, -1)          \* 15  HCF: jump to itself
>>)

ControlDecode == Table(<<
  Regs("AND", 0, 0, 0),             \*  0
  Branch({"ZERO"}, 1),              \*  1
  Branch({"NEGATIVE", "POSITIVE"}, -2), \*  2
  Goto("CALL", 0, 1),               \*  3
  Goto("CALLR", LINK_REGISTER, 1),  \*  4  base register = link register
  Goto("JUMPR", LINK_REGISTER, 0),  \*  5  RETURN
  Goto("JUMPR", 0, 10),             \*  6  into the frame buffer
  Mem("TRAP", 1, 0, 0),             \*  7
  Goto("RETURNI", 0, 0),            \*  8
  Imm("ADD", 0, 0, -1),             \*  9
  Imm("ADD", 1, 1, 1),              \* 10
  Mem("LOAD", 1, 0, 1),             \* 11
  Mem("STORER", 1, 0, 12),          \* 12  to the keyboard
  Mem("LOADR", 1, 0, 12),           \* 13  from the keyboard
  Goto("JUMP", 0, 1),               \* 14
  Goto("JUMP", 0, -1)               \* 15  HCF
>>)

\* Three instructions, HCF, and two words of data.
Program(first, second, third) ==
  {<<a, b, c, 15, 6, 9>> : a \in first, b \in second, c \in third}

Loaded(programs) == {[l \in Location |-> p[l + 1]] : p \in programs}

DataPrograms == Loaded(
  Program({1, 5, 6, 7, 10}, {2, 3, 4, 8, 11, 12, 14}, {0, 3, 4, 9, 11, 13}))

ControlPrograms == Loaded(
  Program({0, 3, 7, 8, 10, 14}, {1, 2, 4, 8, 9, 11, 13}, {2, 5, 6, 8, 12})
    \cup Program({9, 12}, {1}, {7}))
=============================================================================
