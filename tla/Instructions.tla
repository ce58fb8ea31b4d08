---------------------------- MODULE Instructions ----------------------------
(***************************************************************************)
(* What an instruction is once it is decoded, and the arithmetic that the  *)
(* pipelined CPU (Cpu) and its instruction set (Isa) have in common.       *)
(***************************************************************************)
EXTENDS Process

CONSTANTS
  Reg,         \* the numbers of the general purpose registers (0 .. 31)
  Decode,      \* the fields decode() latches from each instruction word
  NotDecoded,  \* the fields of a CPU that has decoded nothing: null pointers
  HALF,        \* 2^16: the immediates of AND, OR and XOR are cut to this
  BitAnd, BitOr, BitXor  \* the bitwise operations on words

\* The opcodes with a function of their own in instruction_table; the table's
\* remaining entries are all cpu_nop, and "NOP" stands for each of them.
Opcode == {"AND", "OR", "NOT", "XOR", "ADD", "SUB", "LOAD", "LOADR", "LOADA",
           "STORE", "STORER", "JUMP", "BRANCH", "CALL", "CALLR", "JUMPR",
           "TRAP", "RETURNI", "NOP"}

ConditionCode == {"POSITIVE", "ZERO", "NEGATIVE"}

\* The destination, store source and trap vector registers are the same bits
\* of the word, and so are source register 1 and the base register.
Instruction ==
  [opcode : Opcode, destination_reg1 : Reg, source_reg1 : Reg,
   source_reg2 : Reg, immediate_mode : BOOLEAN,
   instruction_condition_codes : SUBSET ConditionCode,
   ALU_immediate_bits : Word, load_pc_relative_offset_bits : Word,
   base_register_offset_bits : Word, jump_pc_relative_offset_bits : Word,
   branch_pc_relative_offset_bits : Word]

LINK_REGISTER == 30

ASSUME CpuAssumption ==
  /\ LINK_REGISTER \in Reg
  /\ Decode \in [Word -> Instruction]
  /\ NotDecoded \notin Instruction
  /\ HALF \in Nat \ {0} /\ HALF <= WORDS
  /\ BitAnd \in [Word \X Word -> Word]
  /\ BitOr \in [Word \X Word -> Word]
  /\ BitXor \in [Word \X Word -> Word]

\* immediate | 0xFFFF0000 and immediate & 0x0000FFFF
upper_ones(w) == (WORDS - HALF) + (w % HALF)
upper_zeros(w) == w % HALF

condition_code_bits(result) ==
  IF result = 0 THEN {"ZERO"}
  ELSE IF 2 * result >= WORDS THEN {"NEGATIVE"} ELSE {"POSITIVE"}
=============================================================================
