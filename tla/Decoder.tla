------------------------------ MODULE Decoder ------------------------------
(***************************************************************************)
(* decode of src/cpu.c, as far as it takes the word in IR apart, and which *)
(* entry of instruction_table the opcode selects.                          *)
(***************************************************************************)
EXTENDS Assembler

\* Variant: the sign looked for one bit too high.
sign_extend_late(original_value, width) ==
  IF right(original_value, width) # {}
  THEN original_value \cup width .. 31 ELSE original_value

sign_extend(original_value, width) ==
  IF right(original_value, width - 1) # {}
  THEN original_value \cup width .. 31 ELSE original_value

\* The fields that hold numbers with a sign.
width ==
  [ALU_immediate_bits |-> 15, load_pc_relative_offset_bits |-> 21,
   base_register_offset_bits |-> 16, jump_pc_relative_offset_bits |-> 26,
   branch_pc_relative_offset_bits |-> 23]

\* What decode latches, with the numbers of the registers for the pointers.
decoded(instruction) ==
  LET signed(field, start_bit) ==
        sign_extend(GET_BITS_IN_RANGE(instruction, start_bit,
                                      start_bit + width[field] - 1),
                    width[field])
  IN  [opcode |-> GET_BITS_IN_RANGE(instruction, 26, 31),
       destination_reg1 |-> GET_BITS_IN_RANGE(instruction, 21, 25),
       source_reg1 |-> GET_BITS_IN_RANGE(instruction, 16, 20),
       source_reg2 |-> GET_BITS_IN_RANGE(instruction, 11, 15),
       immediate_mode |-> CHECK_BIT_SET(instruction, 0),
       instruction_condition_codes |-> GET_BITS_IN_RANGE(instruction, 23, 25),
       ALU_immediate_bits |-> signed("ALU_immediate_bits", 1),
       load_pc_relative_offset_bits |->
         signed("load_pc_relative_offset_bits", 0),
       base_register_offset_bits |-> signed("base_register_offset_bits", 0),
       jump_pc_relative_offset_bits |->
         signed("jump_pc_relative_offset_bits", 0),
       branch_pc_relative_offset_bits |->
         signed("branch_pc_relative_offset_bits", 0)]

\* The opcodes whose entry is a function of their own, or that memory2
\* performs; every other entry of the table is cpu_nop.
performed == DOMAIN OPCODE \ {"SHIFTL", "ASHIFTR"}

get_instruction(opcode) ==
  IF \E name \in performed : OPCODE[name] = opcode
  THEN CHOOSE name \in performed : OPCODE[name] = opcode ELSE "NOP"
=============================================================================
