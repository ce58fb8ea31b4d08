------------------------------ MODULE Encoding ------------------------------
(***************************************************************************)
(* An instruction on its way through the instruction word: written with    *)
(* the macros of include/preprocessor_assembler.h into program[], and      *)
(* taken apart by decode of src/cpu.c once it is in IR.                    *)
(***************************************************************************)
EXTENDS Decoder

CONSTANTS
  NAMES,   \* the register numbers that are written, as bits
  OFFSETS  \* the offsets and immediates that are written, as bits

ASSUME EncodingAssumption ==
  NAMES \subseteq SUBSET (0 .. 4) /\ OFFSETS \subseteq uint32

VARIABLES
  written,  \* what the programmer gave for each field of the instruction
  IR        \* the word it became

vars == <<written, IR>>

nothing == [field \in {} |-> {}]

Init == written = nothing /\ IR = {}

\* The mnemonics by their formats.
register_mnemonic == {"AND", "OR", "NOT", "XOR", "ADD", "SUB", "SHIFTL",
                      "ASHIFTR", "TRAP", "RETURNI"}
immediate_mnemonic == register_mnemonic \ {"NOT", "TRAP", "RETURNI"}

write_register_op ==
  \E name \in register_mnemonic, dest, sr1, sr2 \in NAMES :
    /\ written' = [opcode |-> OPCODE[name], destination_reg1 |-> dest,
                   source_reg1 |-> sr1, source_reg2 |-> sr2,
                   immediate_mode |-> {}]
    /\ IR' = REGISTER_OP(OPCODE[name], dest, sr1, sr2)

write_immediate_op ==
  \E name \in immediate_mnemonic, dest, sr \in NAMES, imm15 \in OFFSETS :
    /\ written' = [opcode |-> OPCODE[name], destination_reg1 |-> dest,
                   source_reg1 |-> sr, immediate_mode |-> {0},
                   ALU_immediate_bits |-> imm15]
    /\ IR' = IMMEDIATE_OP(OPCODE[name], dest, sr, imm15)

write_pc_relative ==
  \E name \in {"LOAD", "LOADA", "STORE"}, reg \in NAMES, imm21 \in OFFSETS :
    /\ written' = [opcode |-> OPCODE[name], destination_reg1 |-> reg,
                   load_pc_relative_offset_bits |-> imm21]
    /\ IR' = PC_RELATIVE(OPCODE[name], reg, imm21)

write_base_plus_offset ==
  \E name \in {"LOADR", "STORER", "JUMPR", "CALLR"}, reg, base \in NAMES,
    imm16 \in OFFSETS :
    /\ written' = [opcode |-> OPCODE[name], destination_reg1 |-> reg,
                   source_reg1 |-> base, base_register_offset_bits |-> imm16]
    /\ IR' = BASE_PLUS_OFFSET(OPCODE[name], reg, base, imm16)

write_jump ==
  \E name \in {"JUMP", "CALL"}, offset \in OFFSETS :
    /\ written' = [opcode |-> OPCODE[name],
                   jump_pc_relative_offset_bits |-> offset]
    /\ IR' = JUMP_PC_RELATIVE(OPCODE[name], offset)

write_branch ==
  \E codes \in SUBSET (0 .. 2), offset \in OFFSETS :
    /\ written' = [opcode |-> OPCODE.BRANCH,
                   instruction_condition_codes |-> codes,
                   branch_pc_relative_offset_bits |-> offset]
    /\ IR' = BRANCH_PC_RELATIVE(OPCODE.BRANCH, codes, offset)

next_line == written # nothing /\ written' = nothing /\ IR' = {}

Next ==
  \/ /\ written = nothing
     /\ \/ write_register_op \/ write_immediate_op \/ write_pc_relative
        \/ write_base_plus_offset \/ write_jump \/ write_branch
  \/ next_line

Spec == Init /\ [][Next]_vars
-----------------------------------------------------------------------------
\* A number fits a field when all its bits from the field's sign on are equal.
fits(number, n) ==
  \/ \A i \in n - 1 .. 31 : i \in number
  \/ \A i \in n - 1 .. 31 : i \notin number

\* Every field that was written is decoded again, a number with a sign if it
\* fits its field: the fields of no format overlap, and no negative number
\* reaches into the registers or the opcode (preprocessor_assembler.h:17,
\* cpu.c:70, cpu.c:239).
FieldsRecovered ==
  \A field \in DOMAIN written :
    \/ decoded(IR)[field] = written[field]
    \/ field \in DOMAIN width /\ ~fits(written[field], width[field])

\* As an integer, what is decoded is the one number of the field's range that
\* agrees with the written one modulo the field's size: sign extension is
\* arithmetic, and a number that does not fit becomes another without a word
\* (cpu.c:70, preprocessor_assembler.h:19).
NumbersRecovered ==
  \A field \in DOMAIN written \cap DOMAIN width :
    LET half == 2 ^ (width[field] - 1)
        result == int32(decoded(IR)[field])
    IN  /\ - half <= result /\ result < half
        /\ (result - int32(written[field])) % (2 * half) = 0
=============================================================================
