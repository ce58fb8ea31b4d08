---------------------------- MODULE DriverProofs ----------------------------
(***************************************************************************)
(* The driver's program on the computer, for every screen and every box    *)
(* whose numbers fit their fields: it runs only its instructions, draws    *)
(* only in its box, halts on the picture it draws, and does so before the  *)
(* timer ends the process.                                                 *)
(*                                                                         *)
(* The argument is made one instruction at a time.  The pipeline           *)
(* implements the instruction set (IsaProofs), so ProgramInv, which speaks *)
(* of what the instruction set sees, has to be kept only by the            *)
(* instructions; and the words that are executed are those that were       *)
(* written, because decode gives back what the macros put into a word      *)
(* (EncodingProofs).  Each instruction also takes one from the number      *)
(* left before HCF, and the cycles it takes are bounded (LatencyProofs).   *)
(***************************************************************************)
EXTENDS IsaProofs, LatencyProofs, Driver

E == INSTANCE EncodingProofs
       WITH NAMES <- {}, OFFSETS <- {}, written <- 0, IR <- 0

(* What Encoding shows of the macros and of decode is about these. *)
LEMMA SameDecoder ==
  /\ E!width = width /\ E!OPCODE = OPCODE /\ E!uint32 = uint32
  /\ \A w : E!decoded(w) = decoded(w) /\ E!int32(w) = int32(w)
  /\ \A n : E!bits(n) = bits(n)
  /\ \A w, n : /\ E!sign_extend(w, n) = sign_extend(w, n)
               /\ E!GET_BOTTOM_BITS(w, n) = GET_BOTTOM_BITS(w, n)
  /\ \A o, n : E!JUMP_PC_RELATIVE(o, n) = JUMP_PC_RELATIVE(o, n)
  /\ \A o, r, n : /\ E!PC_RELATIVE(o, r, n) = PC_RELATIVE(o, r, n)
                  /\ E!BRANCH_PC_RELATIVE(o, r, n) = BRANCH_PC_RELATIVE(o, r, n)
  /\ \A o, d, s, n : /\ E!IMMEDIATE_OP(o, d, s, n) = IMMEDIATE_OP(o, d, s, n)
                     /\ E!REGISTER_OP(o, d, s, n) = REGISTER_OP(o, d, s, n)
                     /\ E!BASE_PLUS_OFFSET(o, d, s, n) =
                          BASE_PLUS_OFFSET(o, d, s, n)
<1> USE DEF E!width, width, E!OPCODE, OPCODE, E!uint32, uint32, E!Bit, Bit,
            E!left, left, E!right, right, E!GET_BOTTOM_BITS, GET_BOTTOM_BITS
<1>1. /\ E!width = width /\ E!OPCODE = OPCODE /\ E!uint32 = uint32
  OBVIOUS
<1>2. \A w : E!decoded(w) = decoded(w)
  BY DEF E!decoded, decoded, E!sign_extend, sign_extend, E!GET_BITS_IN_RANGE,
         GET_BITS_IN_RANGE, E!CHECK_BIT_SET, CHECK_BIT_SET
<1>3. \A w : E!int32(w) = int32(w)
  BY DEF E!int32, int32, E!byte, byte
<1>4. \A n : E!bits(n) = bits(n) BY DEF E!bits, bits
<1>5. \A w, n : /\ E!sign_extend(w, n) = sign_extend(w, n)
                /\ E!GET_BOTTOM_BITS(w, n) = GET_BOTTOM_BITS(w, n)
  BY DEF E!sign_extend, sign_extend
<1>6. \A o, n : E!JUMP_PC_RELATIVE(o, n) = JUMP_PC_RELATIVE(o, n)
  BY DEF E!JUMP_PC_RELATIVE, JUMP_PC_RELATIVE
<1>7. \A o, r, n : /\ E!PC_RELATIVE(o, r, n) = PC_RELATIVE(o, r, n)
                   /\ E!BRANCH_PC_RELATIVE(o, r, n) =
                        BRANCH_PC_RELATIVE(o, r, n)
  BY DEF E!PC_RELATIVE, PC_RELATIVE, E!BRANCH_PC_RELATIVE, BRANCH_PC_RELATIVE
<1>8. \A o, d, s, n : /\ E!IMMEDIATE_OP(o, d, s, n) = IMMEDIATE_OP(o, d, s, n)
                      /\ E!REGISTER_OP(o, d, s, n) = REGISTER_OP(o, d, s, n)
                      /\ E!BASE_PLUS_OFFSET(o, d, s, n) =
                           BASE_PLUS_OFFSET(o, d, s, n)
  BY DEF E!IMMEDIATE_OP, IMMEDIATE_OP, E!REGISTER_OP, REGISTER_OP,
         E!BASE_PLUS_OFFSET, BASE_PLUS_OFFSET
<1> QED BY <1>1, <1>2, <1>3, <1>4, <1>5, <1>6, <1>7, <1>8

(* The opcodes of instruction_table are different. *)
LEMMA OpcodeSelects ==
  ASSUME NEW name \in performed
  PROVE  /\ get_instruction(OPCODE[name]) = name
         /\ name \in DOMAIN E!OPCODE /\ OPCODE[name] \in SUBSET (0 .. 5)
<1>1. get_instruction(OPCODE[name]) = name
  BY DEF performed, get_instruction, OPCODE
<1>2. name \in DOMAIN E!OPCODE BY SameDecoder DEF performed
<1>3. E!OPCODE[name] \in SUBSET (0 .. 5) BY <1>2, E!OpcodeBits
<1> QED BY <1>1, <1>2, <1>3, SameDecoder

(* decode, of a word of the program. *)
LEMMA DecodedWord ==
  ASSUME NEW l \in InstructionAddress, l \in Word
  PROVE  LET d == decoded(program[l + 1])
         IN  /\ Decode[l].opcode = get_instruction(d.opcode)
             /\ Decode[l].destination_reg1 = int32(d.destination_reg1)
             /\ Decode[l].source_reg1 = int32(d.source_reg1)
             /\ Decode[l].immediate_mode = (d.immediate_mode # {})
             /\ Decode[l].instruction_condition_codes =
                  {<<"POSITIVE", "ZERO", "NEGATIVE">>[i + 1] :
                     i \in d.instruction_condition_codes}
             /\ Decode[l].ALU_immediate_bits =
                  int32(d.ALU_immediate_bits) % WORDS
             /\ Decode[l].load_pc_relative_offset_bits =
                  int32(d.load_pc_relative_offset_bits) % WORDS
             /\ Decode[l].base_register_offset_bits =
                  int32(d.base_register_offset_bits) % WORDS
             /\ Decode[l].jump_pc_relative_offset_bits =
                  int32(d.jump_pc_relative_offset_bits) % WORDS
             /\ Decode[l].branch_pc_relative_offset_bits =
                  int32(d.branch_pc_relative_offset_bits) % WORDS
BY DriverFits DEF DriverFits, DriverDecode

(* The bits of a field of n bits, and the numbers of a signed one. *)
field(b, n) == b \in SUBSET (0 .. n - 1)
fits(number, n) == - 2 ^ (n - 1) <= number /\ number < 2 ^ (n - 1)

LEMMA OpcodeField ==
  ASSUME NEW name \in performed
  PROVE  field(OPCODE[name], 6) /\ get_instruction(OPCODE[name]) = name
BY OpcodeSelects DEF field

LEMMA RegisterField ==
  ASSUME NEW r \in 0 .. 31
  PROVE  field(bits(r), 5) /\ int32(bits(r)) = r
BY E!RegisterBits, SameDecoder DEF field

(* A number of a field's range is what decode finds in the field. *)
LEMMA NumberField ==
  ASSUME NEW name \in DOMAIN width, NEW n \in Int, fits(n, width[name])
  PROVE  /\ int32(sign_extend(GET_BOTTOM_BITS(bits(n), width[name]),
                              width[name])) = n
         /\ bits(n) \in uint32
<1>1. name \in DOMAIN E!width /\ E!width[name] = width[name]
  BY SameDecoder
<1>2. width[name] \in {15, 16, 21, 23, 26} BY DEF width
<1>3. n \in - 2 ^ (E!width[name] - 1) .. 2 ^ (E!width[name] - 1) - 1
  BY <1>1, <1>2 DEF fits
<1>4. n \in - 2 ^ 31 .. 2 ^ 31 - 1
  <2>1. CASE width[name] = 15 BY <2>1 DEF fits
  <2>2. CASE width[name] = 16 BY <2>2 DEF fits
  <2>3. CASE width[name] = 21 BY <2>3 DEF fits
  <2>4. CASE width[name] = 23 BY <2>4 DEF fits
  <2>5. CASE width[name] = 26 BY <2>5 DEF fits
  <2> QED BY <1>2, <2>1, <2>2, <2>3, <2>4, <2>5
<1>5. E!int32(E!sign_extend(E!GET_BOTTOM_BITS(E!bits(n), E!width[name]),
                            E!width[name])) = n
  BY <1>1, <1>3, E!NumberRecovered
<1>6. E!bits(n) \in E!uint32 BY <1>4, E!IntRoundTrip
<1> QED BY <1>1, <1>5, <1>6, SameDecoder

LEMMA Numbers ==
  ASSUME NEW n \in Int
  PROVE  /\ \A w \in {15, 16, 21, 23, 26} : fits(n, w) => bits(n) \in uint32
         /\ fits(n, 15) =>
              int32(sign_extend(GET_BOTTOM_BITS(bits(n), 15), 15)) = n
         /\ fits(n, 16) =>
              int32(sign_extend(GET_BOTTOM_BITS(bits(n), 16), 16)) = n
         /\ fits(n, 21) =>
              int32(sign_extend(GET_BOTTOM_BITS(bits(n), 21), 21)) = n
         /\ fits(n, 23) =>
              int32(sign_extend(GET_BOTTOM_BITS(bits(n), 23), 23)) = n
         /\ fits(n, 26) =>
              int32(sign_extend(GET_BOTTOM_BITS(bits(n), 26), 26)) = n
<1>1. /\ "ALU_immediate_bits" \in DOMAIN width
      /\ "base_register_offset_bits" \in DOMAIN width
      /\ "load_pc_relative_offset_bits" \in DOMAIN width
      /\ "branch_pc_relative_offset_bits" \in DOMAIN width
      /\ "jump_pc_relative_offset_bits" \in DOMAIN width
      /\ width["ALU_immediate_bits"] = 15
      /\ width["base_register_offset_bits"] = 16
      /\ width["load_pc_relative_offset_bits"] = 21
      /\ width["branch_pc_relative_offset_bits"] = 23
      /\ width["jump_pc_relative_offset_bits"] = 26
  BY DEF width
<1> QED BY <1>1, NumberField

(* The formats. *)
LEMMA RegisterFormat ==
  ASSUME NEW op, field(op, 6), NEW reg, field(reg, 5)
  PROVE  LET d == decoded(REGISTER_OP(op, reg, reg, reg))
         IN  d.opcode = op /\ d.destination_reg1 = reg /\ d.source_reg1 = reg
<1>1. op \in SUBSET (0 .. 5) /\ reg \in SUBSET (0 .. 4) BY DEF field
<1> QED BY <1>1, E!RegisterOpDecoded, SameDecoder

LEMMA ImmediateDecoded ==
  ASSUME NEW op \in SUBSET (0 .. 5), NEW dest \in SUBSET (0 .. 4),
         NEW sr \in SUBSET (0 .. 4), NEW n \in uint32
  PROVE  LET d == decoded(IMMEDIATE_OP(op, dest, sr, n))
         IN  /\ d.opcode = op /\ d.destination_reg1 = dest
             /\ d.source_reg1 = sr /\ d.immediate_mode = {0}
             /\ d.ALU_immediate_bits =
                  sign_extend(GET_BOTTOM_BITS(n, 15), 15)
<1>2. n \in E!uint32 BY SameDecoder
<1> DEFINE w == E!IMMEDIATE_OP(op, dest, sr, n)
<1>3. /\ E!decoded(w).opcode = op /\ E!decoded(w).destination_reg1 = dest
      /\ E!decoded(w).source_reg1 = sr /\ E!decoded(w).immediate_mode = {0}
  BY <1>2, E!ImmediateOpDecoded
<1>4. E!decoded(w).ALU_immediate_bits =
        E!sign_extend(E!GET_BOTTOM_BITS(n, 15), 15)
  BY <1>2, E!ImmediateNumberDecoded
<1>5. /\ w = IMMEDIATE_OP(op, dest, sr, n)
      /\ E!sign_extend(E!GET_BOTTOM_BITS(n, 15), 15) =
           sign_extend(GET_BOTTOM_BITS(n, 15), 15)
      /\ E!decoded(w) = decoded(w)
  BY SameDecoder
<1> HIDE DEF w
<1> QED BY <1>3, <1>4, <1>5

LEMMA ImmediateFormat ==
  ASSUME NEW op, field(op, 6), NEW dest, field(dest, 5), NEW sr, field(sr, 5),
         NEW n \in uint32
  PROVE  LET d == decoded(IMMEDIATE_OP(op, dest, sr, n))
         IN  /\ d.opcode = op /\ d.destination_reg1 = dest
             /\ d.source_reg1 = sr /\ d.immediate_mode = {0}
             /\ d.ALU_immediate_bits =
                  sign_extend(GET_BOTTOM_BITS(n, 15), 15)
<1>1. /\ op \in SUBSET (0 .. 5) /\ dest \in SUBSET (0 .. 4)
      /\ sr \in SUBSET (0 .. 4)
  BY DEF field
<1> QED BY <1>1, ImmediateDecoded

LEMMA PcRelativeFormat ==
  ASSUME NEW op, field(op, 6), NEW reg, field(reg, 5), NEW n \in uint32
  PROVE  LET d == decoded(PC_RELATIVE(op, reg, n))
         IN  /\ d.opcode = op /\ d.destination_reg1 = reg
             /\ d.load_pc_relative_offset_bits =
                  sign_extend(GET_BOTTOM_BITS(n, 21), 21)
<1>1. op \in SUBSET (0 .. 5) /\ reg \in SUBSET (0 .. 4) BY DEF field
<1> QED BY <1>1, E!PcRelativeDecoded, SameDecoder

LEMMA BasePlusOffsetFormat ==
  ASSUME NEW op, field(op, 6), NEW reg, field(reg, 5), NEW base, field(base, 5),
         NEW n \in uint32
  PROVE  LET d == decoded(BASE_PLUS_OFFSET(op, reg, base, n))
         IN  /\ d.opcode = op
             /\ d.destination_reg1 = reg /\ d.source_reg1 = base
             /\ d.base_register_offset_bits =
                  sign_extend(GET_BOTTOM_BITS(n, 16), 16)
<1>1. /\ op \in SUBSET (0 .. 5) /\ reg \in SUBSET (0 .. 4)
      /\ base \in SUBSET (0 .. 4)
  BY DEF field
<1> QED BY <1>1, E!BasePlusOffsetDecoded, SameDecoder

LEMMA JumpFormat ==
  ASSUME NEW op, field(op, 6), NEW n \in uint32
  PROVE  LET d == decoded(JUMP_PC_RELATIVE(op, n))
         IN  /\ d.opcode = op
             /\ d.jump_pc_relative_offset_bits =
                  sign_extend(GET_BOTTOM_BITS(n, 26), 26)
<1>1. op \in SUBSET (0 .. 5) BY DEF field
<1> QED BY <1>1, E!JumpDecoded, SameDecoder

LEMMA BranchFormat ==
  ASSUME NEW op, field(op, 6), NEW codes, field(codes, 3), NEW n \in uint32
  PROVE  LET d == decoded(BRANCH_PC_RELATIVE(op, codes, n))
         IN  /\ d.opcode = op /\ d.instruction_condition_codes = codes
             /\ d.branch_pc_relative_offset_bits =
                  sign_extend(GET_BOTTOM_BITS(n, 23), 23)
<1>1. op \in SUBSET (0 .. 5) /\ codes \in SUBSET (0 .. 2) BY DEF field
<1> QED BY <1>1, E!BranchDecoded, SameDecoder

holds(l, word) ==
  l \in InstructionAddress /\ l \in Word /\ program[l + 1] = word

(* The program's instructions, decoded. *)
LEMMA DecodedLoad ==
  ASSUME NEW l \in Word, NEW reg \in 0 .. 31,
         NEW n \in Int, fits(n, 21),
         holds(l, LOAD(reg, n))
  PROVE  /\ Decode[l].opcode = "LOAD" /\ Decode[l].destination_reg1 = reg
         /\ Decode[l].load_pc_relative_offset_bits = n % WORDS
<1> DEFINE op == OPCODE["LOAD"]
<1>1. "LOAD" \in performed BY DEF performed, OPCODE
<1>2. field(op, 6) /\ get_instruction(op) = "LOAD"
  BY <1>1, OpcodeField
<1>3. field(bits(reg), 5) /\ int32(bits(reg)) = reg BY RegisterField
<1>4. /\ bits(n) \in uint32
      /\ int32(sign_extend(GET_BOTTOM_BITS(bits(n), 21), 21)) = n
  BY Numbers
<1>5. program[l + 1] = PC_RELATIVE(op, bits(reg), bits(n))
  BY DEF LOAD, holds
<1>6. l \in InstructionAddress BY DEF holds
<1> HIDE DEF op
<1> QED BY <1>2, <1>3, <1>4, <1>5, <1>6, PcRelativeFormat, DecodedWord

LEMMA DecodedAdd ==
  ASSUME NEW l \in Word, NEW dest \in 0 .. 31, NEW sr \in 0 .. 31,
         NEW n \in Int, fits(n, 15),
         holds(l, ADD_IMMEDIATE(dest, sr, n))
  PROVE  /\ Decode[l].opcode = "ADD" /\ Decode[l].destination_reg1 = dest
         /\ Decode[l].source_reg1 = sr /\ Decode[l].immediate_mode = TRUE
         /\ Decode[l].ALU_immediate_bits = n % WORDS
<1> DEFINE op == OPCODE["ADD"]
<1>1. "ADD" \in performed BY DEF performed, OPCODE
<1>2. field(op, 6) /\ get_instruction(op) = "ADD"
  BY <1>1, OpcodeField
<1>3. field(bits(dest), 5) /\ int32(bits(dest)) = dest BY RegisterField
<1>4. field(bits(sr), 5) /\ int32(bits(sr)) = sr BY RegisterField
<1>5. /\ bits(n) \in uint32
      /\ int32(sign_extend(GET_BOTTOM_BITS(bits(n), 15), 15)) = n
  BY Numbers
<1>6. program[l + 1] = IMMEDIATE_OP(op, bits(dest), bits(sr), bits(n))
  BY DEF ADD_IMMEDIATE, holds
<1>7. l \in InstructionAddress BY DEF holds
<1> HIDE DEF op
<1> DEFINE d == decoded(program[l + 1])
<1>8. /\ d.opcode = op /\ d.destination_reg1 = bits(dest)
      /\ d.source_reg1 = bits(sr) /\ d.immediate_mode = {0}
      /\ d.ALU_immediate_bits = sign_extend(GET_BOTTOM_BITS(bits(n), 15), 15)
  BY <1>2, <1>3, <1>4, <1>5, <1>6, ImmediateFormat
<1> HIDE DEF d
<1> QED BY <1>2, <1>3, <1>4, <1>5, <1>7, <1>8, DecodedWord DEF d

LEMMA DecodedStore ==
  ASSUME NEW l \in Word, NEW reg \in 0 .. 31, NEW base \in 0 .. 31,
         NEW n \in Int, fits(n, 16),
         holds(l, STORER(reg, base, n))
  PROVE  /\ Decode[l].opcode = "STORER" /\ Decode[l].destination_reg1 = reg
         /\ Decode[l].source_reg1 = base
         /\ Decode[l].base_register_offset_bits = n % WORDS
<1> DEFINE op == OPCODE["STORER"]
<1>1. "STORER" \in performed BY DEF performed, OPCODE
<1>2. field(op, 6) /\ get_instruction(op) = "STORER"
  BY <1>1, OpcodeField
<1>3. field(bits(reg), 5) /\ int32(bits(reg)) = reg BY RegisterField
<1>4. field(bits(base), 5) /\ int32(bits(base)) = base BY RegisterField
<1>5. /\ bits(n) \in uint32
      /\ int32(sign_extend(GET_BOTTOM_BITS(bits(n), 16), 16)) = n
  BY Numbers
<1>6. program[l + 1] = BASE_PLUS_OFFSET(op, bits(reg), bits(base), bits(n))
  BY DEF STORER, holds
<1>7. l \in InstructionAddress BY DEF holds
<1> HIDE DEF op
<1> QED BY <1>2, <1>3, <1>4, <1>5, <1>6, <1>7, BasePlusOffsetFormat, DecodedWord

LEMMA DecodedJump ==
  ASSUME NEW l \in Word, NEW n \in Int, fits(n, 26),
         holds(l, JUMP(n))
  PROVE  /\ Decode[l].opcode = "JUMP"
         /\ Decode[l].jump_pc_relative_offset_bits = n % WORDS
<1> DEFINE op == OPCODE["JUMP"]
<1>1. "JUMP" \in performed BY DEF performed, OPCODE
<1>2. field(op, 6) /\ get_instruction(op) = "JUMP"
  BY <1>1, OpcodeField
<1>3. /\ bits(n) \in uint32
      /\ int32(sign_extend(GET_BOTTOM_BITS(bits(n), 26), 26)) = n
  BY Numbers
<1>4. program[l + 1] = JUMP_PC_RELATIVE(op, bits(n))
  BY DEF JUMP, holds
<1>5. l \in InstructionAddress BY DEF holds
<1> HIDE DEF op
<1> QED BY <1>2, <1>3, <1>4, <1>5, JumpFormat, DecodedWord

LEMMA DecodedCall ==
  ASSUME NEW l \in Word, NEW n \in Int, fits(n, 26),
         holds(l, CALL(n))
  PROVE  /\ Decode[l].opcode = "CALL"
         /\ Decode[l].jump_pc_relative_offset_bits = n % WORDS
<1> DEFINE op == OPCODE["CALL"]
<1>1. "CALL" \in performed BY DEF performed, OPCODE
<1>2. field(op, 6) /\ get_instruction(op) = "CALL"
  BY <1>1, OpcodeField
<1>3. /\ bits(n) \in uint32
      /\ int32(sign_extend(GET_BOTTOM_BITS(bits(n), 26), 26)) = n
  BY Numbers
<1>4. program[l + 1] = JUMP_PC_RELATIVE(op, bits(n))
  BY DEF CALL, holds
<1>5. l \in InstructionAddress BY DEF holds
<1> HIDE DEF op
<1> QED BY <1>2, <1>3, <1>4, <1>5, JumpFormat, DecodedWord

LEMMA DecodedBranch ==
  ASSUME NEW l \in Word, NEW n \in Int, fits(n, 23),
         holds(l, BRP(n))
  PROVE  /\ Decode[l].opcode = "BRANCH"
         /\ Decode[l].instruction_condition_codes = {"POSITIVE"}
         /\ Decode[l].branch_pc_relative_offset_bits = n % WORDS
<1> DEFINE op == OPCODE["BRANCH"]
<1>1. "BRANCH" \in performed BY DEF performed, OPCODE
<1>2. field(op, 6) /\ get_instruction(op) = "BRANCH"
  BY <1>1, OpcodeField
<1>3. /\ bits(n) \in uint32
      /\ int32(sign_extend(GET_BOTTOM_BITS(bits(n), 23), 23)) = n
  BY Numbers
<1>4. field({0}, 3) BY DEF field
<1>5. program[l + 1] = BRANCH_PC_RELATIVE(op, {0}, bits(n))
  BY DEF BRP, holds
<1>6. l \in InstructionAddress BY DEF holds
<1> HIDE DEF op
<1> DEFINE d == decoded(program[l + 1])
<1>7. /\ d.opcode = op /\ d.instruction_condition_codes = {0}
      /\ d.branch_pc_relative_offset_bits =
           sign_extend(GET_BOTTOM_BITS(bits(n), 23), 23)
  BY <1>2, <1>3, <1>4, <1>5, BranchFormat
<1> HIDE DEF d
<1> QED BY <1>2, <1>3, <1>6, <1>7, DecodedWord DEF d

LEMMA DecodedReturn ==
  ASSUME NEW l \in Word,
         holds(l, RETURN)
  PROVE  /\ Decode[l].opcode = "JUMPR" /\ Decode[l].source_reg1 = 30
         /\ Decode[l].base_register_offset_bits = 0
<1> DEFINE op == OPCODE["JUMPR"]
<1>1. "JUMPR" \in performed BY DEF performed, OPCODE
<1>2. field(op, 6) /\ get_instruction(op) = "JUMPR"
  BY <1>1, OpcodeField
<1>3. bits(0) = {}
  <2>1. bits(0) \in SUBSET (0 .. 4) BY RegisterField DEF field
  <2>2. 0 \notin bits(0) /\ 1 \notin bits(0) /\ 2 \notin bits(0)
        /\ 3 \notin bits(0) /\ 4 \notin bits(0)
    BY DEF bits
  <2> QED BY <2>1, <2>2
<1>4. field({}, 5) BY DEF field
<1>5. field(bits(30), 5) /\ int32(bits(30)) = 30 BY RegisterField
<1>6. /\ {} \in uint32 /\ int32(sign_extend(GET_BOTTOM_BITS({}, 16), 16)) = 0
  <2>1. fits(0, 16) BY DEF fits
  <2> QED BY <1>3, <2>1, Numbers DEF uint32
<1>7. 0 % WORDS = 0 BY WordAssumption DEF WordAssumption
<1>8. program[l + 1] = BASE_PLUS_OFFSET(op, {}, bits(30), {})
  BY DEF RETURN, holds
<1>9. l \in InstructionAddress BY DEF holds
<1> HIDE DEF op
<1> QED BY <1>2, <1>3, <1>4, <1>5, <1>6, <1>7, <1>8, <1>9,
          BasePlusOffsetFormat, DecodedWord

(* NOP is an OR of a register with itself into itself. *)
LEMMA DecodedNop ==
  ASSUME NEW l \in Word, NEW r \in 0 .. 31,
         holds(l, OR(r, r, r))
  PROVE  /\ Decode[l].opcode = "OR" /\ Decode[l].destination_reg1 = r
         /\ Decode[l].source_reg1 = r
<1> DEFINE op == OPCODE["OR"]
<1>1. "OR" \in performed BY DEF performed, OPCODE
<1>2. field(op, 6) /\ get_instruction(op) = "OR"
  BY <1>1, OpcodeField
<1>3. field(bits(r), 5) /\ int32(bits(r)) = r BY RegisterField
<1>4. program[l + 1] = REGISTER_OP(op, bits(r), bits(r), bits(r))
  BY DEF OR, holds
<1>5. l \in InstructionAddress BY DEF holds
<1> HIDE DEF op
<1> QED BY <1>2, <1>3, <1>4, <1>5, RegisterFormat, DecodedWord

-----------------------------------------------------------------------------
(* The box on the screen. *)

START == STARTING_POSITION_IN_FRAME_BUFFER

LEMMA Sizes ==
  /\ WORDS \in Nat /\ GRAPHICS_REGION_SIZE \in Nat /\ SCREEN_WIDTH \in Nat
  /\ BOX_WIDTH \in Nat /\ BOX_HEIGHT \in Nat
  /\ 1 <= BOX_WIDTH /\ BOX_WIDTH <= SCREEN_WIDTH /\ 1 <= BOX_HEIGHT
  /\ SCREEN_WIDTH <= GRAPHICS_REGION_SIZE
  /\ BOX_HEIGHT <= GRAPHICS_REGION_SIZE
  /\ 2 * GRAPHICS_REGION_SIZE < WORDS
<1>1. /\ SCREEN_WIDTH \in Nat /\ SCREEN_HEIGHT \in Nat
      /\ SCREEN_WIDTH * SCREEN_HEIGHT = GRAPHICS_REGION_SIZE
      /\ BOX_WIDTH \in 1 .. SCREEN_WIDTH /\ BOX_HEIGHT \in 1 .. SCREEN_HEIGHT
      /\ WORDS \in Nat /\ GRAPHICS_REGION_SIZE \in Nat
      /\ 2 * GRAPHICS_REGION_SIZE < WORDS
  BY DriverAssumption, DriverFits, WordAssumption, MemoryMapAssumption
  DEF DriverAssumption, DriverFits, WordAssumption, MemoryMapAssumption
<1>2. ASSUME NEW w \in Nat, NEW h \in Nat, 1 <= w, 1 <= h
      PROVE  w <= w * h /\ h <= w * h
  <2>1. w * h = w + w * (h - 1) /\ w * h = h + h * (w - 1)
    BY <1>2
  <2>2. w * (h - 1) >= 0 /\ h * (w - 1) >= 0
    BY <1>2
  <2> QED BY <2>1, <2>2, <1>2
<1>3. 1 <= SCREEN_WIDTH /\ 1 <= SCREEN_HEIGHT BY <1>1
<1>4. /\ SCREEN_WIDTH <= GRAPHICS_REGION_SIZE
      /\ SCREEN_HEIGHT <= GRAPHICS_REGION_SIZE
  BY <1>1, <1>2, <1>3
<1> QED BY <1>1, <1>3, <1>4

(* The box lies on the screen. *)
LEMMA Corner ==
  \E r \in Nat, c \in Nat :
    /\ START = r * SCREEN_WIDTH + c
    /\ r + BOX_HEIGHT <= SCREEN_HEIGHT /\ c + BOX_WIDTH <= SCREEN_WIDTH
<1> DEFINE r == (SCREEN_HEIGHT \div 2) - (BOX_HEIGHT \div 2)
           c == (SCREEN_WIDTH \div 2) - (BOX_WIDTH \div 2)
<1>1. ASSUME NEW s \in Nat, NEW b \in Nat, 1 <= b, b <= s
      PROVE  /\ (s \div 2) - (b \div 2) \in Nat
             /\ (s \div 2) - (b \div 2) + b <= s
  BY <1>1
<1>2. /\ SCREEN_HEIGHT \in Nat /\ BOX_HEIGHT \in Nat /\ 1 <= BOX_HEIGHT
      /\ BOX_HEIGHT <= SCREEN_HEIGHT
  BY Sizes, DriverAssumption DEF DriverAssumption
<1>3. r \in Nat /\ r + BOX_HEIGHT <= SCREEN_HEIGHT BY <1>1, <1>2
<1>4. c \in Nat /\ c + BOX_WIDTH <= SCREEN_WIDTH BY <1>1, Sizes
<1>5. START = r * SCREEN_WIDTH + c
  BY DEF START, STARTING_POSITION_IN_FRAME_BUFFER
<1> QED BY <1>3, <1>4, <1>5

(* So does each of its rows, and the next row's start is a word as well. *)
LEMMA CellInside ==
  ASSUME NEW i \in 0 .. BOX_HEIGHT - 1
  PROVE  /\ START + i * SCREEN_WIDTH \in Nat
         /\ START + i * SCREEN_WIDTH + BOX_WIDTH <= GRAPHICS_REGION_SIZE
         /\ START + (i + 1) * SCREEN_WIDTH =
              START + i * SCREEN_WIDTH + SCREEN_WIDTH
<1>1. PICK r \in Nat, c \in Nat :
        /\ START = r * SCREEN_WIDTH + c
        /\ r + BOX_HEIGHT <= SCREEN_HEIGHT /\ c + BOX_WIDTH <= SCREEN_WIDTH
  BY Corner
<1>2. ASSUME NEW w \in Nat, NEW h \in Nat, NEW k \in Nat, k < h
      PROVE  k * w + w <= w * h /\ k * w \in Nat
  <2>1. k * w + w = w * (k + 1) BY <1>2
  <2>2. w * h = w * (k + 1) + w * (h - k - 1) BY <1>2
  <2>3. w * (h - k - 1) >= 0 /\ k * w >= 0 BY <1>2
  <2> QED BY <2>1, <2>2, <2>3
<1>3. /\ i \in Nat /\ i < BOX_HEIGHT /\ SCREEN_HEIGHT \in Nat
      /\ SCREEN_WIDTH * SCREEN_HEIGHT = GRAPHICS_REGION_SIZE
  BY Sizes, DriverAssumption DEF DriverAssumption
<1>4. r + i \in Nat /\ r + i < SCREEN_HEIGHT BY <1>1, <1>3, Sizes
<1>5. /\ (r + i) * SCREEN_WIDTH + SCREEN_WIDTH <= GRAPHICS_REGION_SIZE
      /\ (r + i) * SCREEN_WIDTH \in Nat
  BY <1>2, <1>3, <1>4, Sizes
<1>6. START + i * SCREEN_WIDTH = (r + i) * SCREEN_WIDTH + c
  <2>1. \A w \in Nat : r * w + c + i * w = (r + i) * w + c
    BY <1>3
  <2> QED BY <1>1, <2>1, Sizes
<1>7. (i + 1) * SCREEN_WIDTH = i * SCREEN_WIDTH + SCREEN_WIDTH
      /\ i * SCREEN_WIDTH \in Nat
  <2>1. \A w \in Nat : (i + 1) * w = i * w + w /\ i * w \in Nat
    BY <1>3
  <2> QED BY <2>1, Sizes
<1>8. START \in Int
  <2>1. \A w \in Nat : r * w \in Nat OBVIOUS
  <2> QED BY <1>1, <2>1, Sizes
<1> HIDE DEF START
<1> QED BY <1>1, <1>5, <1>6, <1>7, <1>8, Sizes

LEMMA StartIsWord ==
  /\ START \in Nat /\ START + BOX_WIDTH <= GRAPHICS_REGION_SIZE
  /\ START \in Word /\ START + 0 * SCREEN_WIDTH = START
<1>1. 0 \in 0 .. BOX_HEIGHT - 1 BY Sizes
<1>2. \A w \in Nat : 0 * w = 0 OBVIOUS
<1>3. 0 * SCREEN_WIDTH = 0 BY <1>2, Sizes
<1>4. START \in Nat
  <2>1. PICK r \in Nat, c \in Nat : START = r * SCREEN_WIDTH + c
    BY Corner
  <2>2. \A w \in Nat : r * w \in Nat OBVIOUS
  <2> QED BY <2>1, <2>2, Sizes
<1>5. START + 0 * SCREEN_WIDTH + BOX_WIDTH <= GRAPHICS_REGION_SIZE
  BY <1>1, CellInside
<1> QED BY <1>3, <1>4, <1>5, Sizes DEF Word
-----------------------------------------------------------------------------
(* The program's words. *)

LEMMA ProgramWords ==
  /\ Len(program) = 23
  /\ program[1] = LOAD(R0, 3) /\ program[2] = CALL(7)
  /\ program[3] = NOP /\ program[4] = HCF
  /\ program[10] = LOAD(PIXEL_POSITION, -3)
  /\ program[11] = LOAD(PIXEL_VALUE, -3)
  /\ program[12] = LOAD(BOX_WIDTH_COUNTER, -7)
  /\ program[13] = LOAD(BOX_HEIGHT_COUNTER, -7)
  /\ program[14] = STORER(PIXEL_VALUE, PIXEL_POSITION, GRAPHICS_REGION_START)
  /\ program[15] = INC(PIXEL_POSITION)
  /\ program[16] = DEC(BOX_WIDTH_COUNTER)
  /\ program[17] = BRP(-4)
  /\ program[18] =
       ADD_IMMEDIATE(BOX_WIDTH_COUNTER, BOX_WIDTH_COUNTER, BOX_WIDTH)
  /\ program[19] = ADD_IMMEDIATE(PIXEL_POSITION, PIXEL_POSITION, SCREEN_WIDTH)
  /\ program[20] = ADD_IMMEDIATE(PIXEL_POSITION, PIXEL_POSITION, -BOX_WIDTH)
  /\ program[21] = DEC(BOX_HEIGHT_COUNTER)
  /\ program[22] = BRP(-8) /\ program[23] = RETURN
BY DEF program, main_program, draw_the_box_initialization, draw_the_row,
       go_to_next_row

LEMMA Addresses ==
  /\ InstructionAddress = (0 .. 3) \cup (9 .. 22)
  /\ InstructionAddress \subseteq Word /\ DataAddress \subseteq Word
  /\ InstructionAddress \subseteq Location /\ DataAddress \subseteq Location
  /\ 23 \in Word /\ GRAPHICS_REGION_START \in 23 .. 2 ^ 15 - 1
  /\ GRAPHICS_REGION_START + GRAPHICS_REGION_SIZE < WORDS
  /\ \A l \in 0 .. 22 : DeviceAt(l) = "MEMORY_SELECTED"
  /\ \A p \in Pixel : DeviceAt(GRAPHICS_REGION_START + p) = "GRAPHICS_SELECTED"
<1>1. /\ Len(program) = 23 /\ 23 <= MEM_SIZE /\ 23 <= BOOT_ROM_SIZE
      /\ GRAPHICS_REGION_START < 2 ^ 15
  BY ProgramWords, DriverFits DEF DriverFits
<1>2. /\ BOOT_ROM_SIZE \in Nat /\ INTERRUPT_VECTOR_TABLE_SIZE \in Nat
      /\ KEYBOARD_REGION_SIZE \in Nat /\ GRAPHICS_REGION_SIZE \in Nat
      /\ 1 <= KEYBOARD_REGION_SIZE
      /\ GRAPHICS_REGION_START = BOOT_ROM_SIZE + INTERRUPT_VECTOR_TABLE_SIZE
      /\ GRAPHICS_REGION_END = GRAPHICS_REGION_START + GRAPHICS_REGION_SIZE - 1
      /\ KEYBOARD_REGION_START = GRAPHICS_REGION_START + GRAPHICS_REGION_SIZE
      /\ KEYBOARD_REGION_END =
           GRAPHICS_REGION_START + GRAPHICS_REGION_SIZE
             + KEYBOARD_REGION_SIZE - 1
      /\ KEYBOARD_REGION_END \in 0 .. WORDS - 1 /\ WORDS \in Nat
  BY MemoryMapAssumption, WordAssumption
  DEF MemoryMapAssumption, WordAssumption, KEYBOARD_REGION_END,
      KEYBOARD_REGION_START, GRAPHICS_REGION_END, GRAPHICS_REGION_START,
      INTERRUPT_VECTOR_TABLE_END, INTERRUPT_VECTOR_TABLE_START, BOOT_ROM_END,
      Word
<1>3. MEM_SIZE \in Nat BY MemoryAssumption DEF MemoryAssumption
<1>4. /\ GRAPHICS_REGION_START \in 23 .. 2 ^ 15 - 1 /\ 23 < WORDS
      /\ GRAPHICS_REGION_START + GRAPHICS_REGION_SIZE < WORDS
  BY <1>1, <1>2
<1>5. \A l \in 0 .. 22 : DeviceAt(l) = "MEMORY_SELECTED"
  BY <1>2, <1>4 DEF DeviceAt
<1>6. \A p \in Pixel : DeviceAt(GRAPHICS_REGION_START + p) = "GRAPHICS_SELECTED"
  BY <1>2, <1>4 DEF DeviceAt, Pixel
<1>7. InstructionAddress = (0 .. 3) \cup (9 .. 22)
  BY <1>1 DEF InstructionAddress, DataAddress
<1> QED
  BY <1>1, <1>2, <1>3, <1>4, <1>5, <1>6, <1>7 DEF Word, Location, DataAddress

(* What memory holds at them. *)
LEMMA Loaded ==
  ASSUME NEW memory \in DriverPrograms
  PROVE  /\ \A l \in InstructionAddress : memory[l] = l
         /\ \A l \in DataAddress : memory[l] = program_data[l - 3]
<1>1. PICK behind \in [0 .. OVERREAD_LENGTH - 1 -> OVERREAD] :
        memory =
          [l \in Location |->
             IF l \in InstructionAddress THEN l
             ELSE IF l \in DataAddress THEN program_data[l - 3]
             ELSE IF l < Len(program) + OVERREAD_LENGTH
                  THEN behind[l - Len(program)]
             ELSE 0]
  BY DEF DriverPrograms
<1>2. InstructionAddress \cap DataAddress = {} BY DEF InstructionAddress
<1> QED BY <1>1, <1>2, Addresses

(* They fit their fields. *)
LEMMA NumbersFit ==
  /\ \A n \in -8 .. 8 : fits(n, 15) /\ fits(n, 21) /\ fits(n, 23) /\ fits(n, 26)
  /\ fits(BOX_WIDTH, 15) /\ fits(-BOX_WIDTH, 15) /\ fits(SCREEN_WIDTH, 15)
  /\ fits(GRAPHICS_REGION_START, 16)
<1>1. \A n \in -8 .. 8 :
        fits(n, 15) /\ fits(n, 21) /\ fits(n, 23) /\ fits(n, 26)
  BY DEF fits
<1>2. ASSUME NEW n \in Nat, n < 2 ^ 14 PROVE fits(n, 15) /\ fits(-n, 15)
  BY <1>2 DEF fits
<1>3. ASSUME NEW n \in Nat, n < 2 ^ 15 PROVE fits(n, 16)
  BY <1>3 DEF fits
<1>4. /\ BOX_WIDTH \in Nat /\ BOX_WIDTH < 2 ^ 14
      /\ SCREEN_WIDTH \in Nat /\ SCREEN_WIDTH < 2 ^ 14
  BY Sizes, DriverFits DEF DriverFits
<1>5. GRAPHICS_REGION_START \in Nat /\ GRAPHICS_REGION_START < 2 ^ 15
  BY Addresses
<1> QED BY <1>1, <1>2, <1>3, <1>4, <1>5

LEMMA AddSigned ==
  ASSUME NEW a \in Word, NEW n \in Int, a + n \in Word
  PROVE  Add(a, n % WORDS) = a + n
<1>1. /\ WORDS \in Nat \ {0} /\ a \in Nat /\ a < WORDS /\ 0 <= a + n
      /\ a + n < WORDS
  BY WordAssumption DEF WordAssumption, Word
<1>2. CASE 0 <= n
  <2>1. n % WORDS = n BY <1>1, <1>2
  <2> QED BY <1>1, <2>1 DEF Add
<1>3. CASE n < 0
  <2>1. n % WORDS = n + WORDS BY <1>1, <1>3
  <2>2. (a + n + WORDS) % WORDS = a + n BY <1>1
  <2> QED BY <2>1, <2>2, <1>1 DEF Add
<1> QED BY <1>2, <1>3

-----------------------------------------------------------------------------
(* What each of the program's instructions does. *)

Machine ==
  cpu.registers \in [0 .. 31 -> Word] /\ frame_buffer \in [Pixel -> Word]

Executes == ControlInv /\ Machine /\ I!instruction

goes_to(address) ==
  isa_PC' = address /\ UNCHANGED <<isa_process, system_memory>>

sets(register, value) ==
  cpu'.registers = [cpu.registers EXCEPT ![register] = value]

keeps_registers == cpu'.registers = cpu.registers
keeps_CCR == cpu'.CCR = cpu.CCR
keeps_picture == UNCHANGED frame_buffer

LEMMA AtAddress ==
  ASSUME ControlInv
  PROVE  /\ isa_PC \in InstructionAddress /\ isa_PC \in 0 .. 22
         /\ isa_PC \in Word /\ isa_PC + 1 \in Word
         /\ I!next_PC = isa_PC + 1
<1>1. isa_PC \in InstructionAddress
  BY DEF ControlInv
<1>2. isa_PC \in 0 .. 22 /\ isa_PC \in Word /\ isa_PC + 1 \in Word
  BY <1>1, Addresses, WordAssumption DEF Word, WordAssumption
<1>3. I!next_PC = (isa_PC + 1) % WORDS BY SameMap DEF I!next_PC, Add
<1>4. \A l \in Word : l % WORDS = l
  BY WordAssumption DEF Word, WordAssumption
<1> QED BY <1>1, <1>2, <1>3, <1>4

LEMMA AtInstruction ==
  ASSUME Executes
  PROVE  /\ isa_PC \in InstructionAddress /\ isa_PC \in 0 .. 22
         /\ isa_PC \in Word /\ isa_PC + 1 \in Word
         /\ I!next_PC = isa_PC + 1
BY AtAddress DEF Executes

(* The word that is executed is the program's at that address. *)
LEMMA Fetched ==
  ASSUME Executes
  PROVE  LET i == Decode[isa_PC]
         IN  /\ isa_process = "running"
             /\ \/ I!Calculate(i) \/ I!Load(i) \/ I!Store(i) \/ I!Transfer(i)
                \/ I!Call(i) \/ I!Trap(i) \/ I!ReturnFromInterrupt(i)
                \/ I!Nothing(i)
<1>1. /\ isa_PC \in InstructionAddress /\ system_memory \in DriverPrograms
      /\ I!instruction
  BY DEF Executes, ControlInv
<1>2. isa_PC \in Location /\ isa_PC \in 0 .. 22
  BY <1>1, AtInstruction, Addresses
<1>3. isa_process = "running" BY <1>1 DEF I!instruction
<1>4. \A word : I!Reads(isa_PC, word) => word = isa_PC
  BY <1>1, <1>2, Addresses, Loaded, ReadsMeaning
<1>5. PICK word \in I!Word :
        /\ I!Reads(isa_PC, word)
        /\ LET i == Decode[word]
           IN  \/ I!Calculate(i) \/ I!Load(i) \/ I!Store(i) \/ I!Transfer(i)
               \/ I!Call(i) \/ I!Trap(i) \/ I!ReturnFromInterrupt(i)
               \/ I!Nothing(i)
  BY <1>1 DEF I!instruction
<1>6. word = isa_PC BY <1>4, <1>5
<1> QED BY <1>3, <1>5, <1>6

LEMMA AddStep ==
  ASSUME Executes, NEW dest \in 0 .. 31, NEW sr \in 0 .. 31,
         NEW n \in Int, fits(n, 15),
         NEW a \in Word, cpu.registers[sr] = a, a + n \in Word,
         holds(isa_PC, ADD_IMMEDIATE(dest, sr, n))
  PROVE  /\ sets(dest, a + n) /\ cpu'.CCR = condition_code_bits(a + n)
         /\ keeps_picture /\ goes_to(isa_PC + 1)
<1> DEFINE i == Decode[isa_PC]
<1>1. /\ i.opcode = "ADD" /\ i.destination_reg1 = dest /\ i.source_reg1 = sr
      /\ i.immediate_mode = TRUE /\ i.ALU_immediate_bits = n % WORDS
  BY AtInstruction, DecodedAdd, Zenon
<1> HIDE DEF i
<1>3. Add(a, n % WORDS) = a + n
  BY AddSigned DEF fits
<1>4. I!Calculate(i)
  BY <1>1, Fetched DEF i, I!Calculate, I!Load, I!Store, I!Transfer,
     I!Call, I!Trap, I!ReturnFromInterrupt, I!Nothing
<1>5. I!ALU_value(i) = a + n
  BY <1>1, <1>3, SameMap DEF I!ALU_value
<1>6. /\ cpu'.registers =
           [cpu.registers EXCEPT ![i.destination_reg1] = I!ALU_value(i)]
      /\ cpu'.CCR = I!condition_code_bits(I!ALU_value(i))
      /\ I!falls_through /\ I!untouched_memory
  BY <1>4 DEF I!Calculate
<1>7. sets(dest, a + n) BY <1>1, <1>5, <1>6 DEF sets
<1>8. cpu'.CCR = condition_code_bits(a + n) BY <1>5, <1>6, SameMap
<1>9. keeps_picture /\ goes_to(isa_PC + 1)
  BY <1>6, AtInstruction
  DEF I!falls_through, I!finishes, I!untouched_memory, keeps_picture, goes_to
<1> QED BY <1>7, <1>8, <1>9

(* NOP is an OR of a register with itself into itself. *)
LEMMA NopStep ==
  ASSUME Executes, NEW r \in 0 .. 31, holds(isa_PC, OR(r, r, r))
  PROVE  /\ \E value : sets(r, value)
         /\ keeps_picture /\ goes_to(isa_PC + 1)
<1> DEFINE i == Decode[isa_PC]
<1>1. i.opcode = "OR" /\ i.destination_reg1 = r
  BY AtInstruction, DecodedNop
<1> HIDE DEF i
<1>2. I!Calculate(i)
  BY <1>1, Fetched DEF i, I!Calculate, I!Load, I!Store, I!Transfer,
     I!Call, I!Trap, I!ReturnFromInterrupt, I!Nothing
<1> QED
  BY <1>1, <1>2, AtInstruction, SameMap
  DEF I!Calculate, I!falls_through, I!finishes, I!untouched_memory, sets,
      keeps_picture, goes_to

(* The data are addressed from the instruction on. *)
LEMMA LoadAddress ==
  ASSUME ControlInv, NEW reg \in 0 .. 31, NEW n \in Int, fits(n, 21),
         NEW address \in DataAddress, address = isa_PC + 1 + n,
         holds(isa_PC, LOAD(reg, n))
  PROVE  LET i == Decode[isa_PC]
         IN  /\ i.opcode = "LOAD" /\ i.destination_reg1 = reg
             /\ I!operand_address(i) = address
<1> DEFINE i == Decode[isa_PC]
<1>1. /\ i.opcode = "LOAD" /\ i.destination_reg1 = reg
      /\ i.load_pc_relative_offset_bits = n % WORDS
  BY AtAddress, DecodedLoad
<1>2. isa_PC + 1 \in Word /\ n \in Int /\ isa_PC + 1 + n \in Word
  BY AtAddress, Addresses DEF fits
<1>3. Add(isa_PC + 1, n % WORDS) = address BY <1>2, AddSigned
<1> HIDE DEF i
<1>4. I!operand_address(i) = address
  BY <1>1, <1>3, AtAddress, SameMap
  DEF I!operand_address, I!pc_relative_address
<1> QED BY <1>1, <1>4 DEF i

LEMMA LoadStep ==
  ASSUME Executes, NEW reg \in 0 .. 31, NEW n \in Int, fits(n, 21),
         NEW address \in DataAddress, address = isa_PC + 1 + n,
         holds(isa_PC, LOAD(reg, n))
  PROVE  /\ sets(reg, program_data[address - 3])
         /\ keeps_CCR /\ keeps_picture /\ goes_to(isa_PC + 1)
<1> DEFINE i == Decode[isa_PC]
<1>0. ControlInv BY DEF Executes
<1>1. i.opcode = "LOAD" /\ i.destination_reg1 = reg BY <1>0, LoadAddress
<1>2. I!operand_address(i) = address BY <1>0, LoadAddress
<1> HIDE DEF i
<1>3. I!Load(i)
  BY <1>1, Fetched DEF i, I!Calculate, I!Load, I!Store, I!Transfer,
     I!Call, I!Trap, I!ReturnFromInterrupt, I!Nothing, I!ALU_instruction
<1>4. system_memory \in DriverPrograms BY DEF Executes, ControlInv
<1>5. \A value : I!Reads(address, value) => value = program_data[address - 3]
  <2>1. DeviceAt(address) = "MEMORY_SELECTED" /\ address \in Location
    BY Addresses DEF DataAddress
  <2> QED BY <2>1, <1>4, Loaded, ReadsMeaning
<1>6. \E value : /\ I!Reads(address, value)
                 /\ sets(reg, value)
  BY <1>1, <1>2, <1>3 DEF I!Load, sets
<1>7. sets(reg, program_data[address - 3]) BY <1>5, <1>6
<1>8. keeps_CCR /\ keeps_picture /\ goes_to(isa_PC + 1)
  BY <1>3, AtInstruction
  DEF I!Load, I!falls_through, I!finishes, I!untouched_memory, keeps_CCR,
      keeps_picture, goes_to
<1> QED BY <1>7, <1>8

(* A store to the frame buffer, the pixel's number in the base register. *)
LEMMA StoreAddress ==
  ASSUME ControlInv, NEW reg \in 0 .. 31, NEW base \in 0 .. 31,
         NEW p \in Pixel, cpu.registers[base] = p,
         holds(isa_PC, STORER(reg, base, GRAPHICS_REGION_START))
  PROVE  LET i == Decode[isa_PC]
         IN  /\ i.opcode = "STORER" /\ i.destination_reg1 = reg
             /\ I!operand_address(i) = GRAPHICS_REGION_START + p
<1> DEFINE i == Decode[isa_PC]
<1>0. GRAPHICS_REGION_START \in Nat
  BY Addresses
<1>1. /\ i.opcode = "STORER" /\ i.destination_reg1 = reg /\ i.source_reg1 = base
      /\ i.base_register_offset_bits = GRAPHICS_REGION_START % WORDS
  <2>1. fits(GRAPHICS_REGION_START, 16) BY NumbersFit
  <2>2. isa_PC \in Word BY AtAddress
  <2>3. GRAPHICS_REGION_START \in Int BY <1>0
  <2> QED BY <2>1, <2>2, <2>3, DecodedStore, Zenon
<1>2. p \in Word /\ p + GRAPHICS_REGION_START \in Word /\ p \in Int
  BY <1>0, Addresses, Sizes DEF Pixel, Word
<1>3. Add(p, GRAPHICS_REGION_START % WORDS) = p + GRAPHICS_REGION_START
  BY <1>2, <1>0, AddSigned
<1> HIDE DEF i
<1>4. I!operand_address(i) = GRAPHICS_REGION_START + p
  BY <1>0, <1>1, <1>2, <1>3, SameMap DEF I!operand_address, I!base_plus_offset
<1> QED BY <1>1, <1>4 DEF i

LEMMA StoreStep ==
  ASSUME Executes, NEW reg \in 0 .. 31, NEW base \in 0 .. 31,
         NEW p \in Pixel, cpu.registers[base] = p,
         holds(isa_PC, STORER(reg, base, GRAPHICS_REGION_START))
  PROVE  /\ frame_buffer' =
              [frame_buffer EXCEPT ![p] = cpu.registers[reg]]
         /\ keeps_registers /\ keeps_CCR /\ goes_to(isa_PC + 1)
<1> DEFINE i == Decode[isa_PC]
<1>0. GRAPHICS_REGION_START \in Nat /\ ControlInv
  BY Addresses DEF Executes
<1>1. i.opcode = "STORER" /\ i.destination_reg1 = reg
  BY <1>0, StoreAddress, Zenon
<1>2. I!operand_address(i) = GRAPHICS_REGION_START + p
  BY <1>0, StoreAddress, Zenon
<1> HIDE DEF i
<1>3. I!Store(i)
  BY <1>1, Fetched DEF i, I!Calculate, I!Load, I!Store, I!Transfer,
     I!Call, I!Trap, I!ReturnFromInterrupt, I!Nothing, I!ALU_instruction
<1>4. DeviceAt(GRAPHICS_REGION_START + p) = "GRAPHICS_SELECTED"
  BY Addresses
<1>5. (GRAPHICS_REGION_START + p) - GRAPHICS_REGION_START = p
  BY <1>0, Sizes DEF Pixel
<1>8. I!DeviceAt(I!operand_address(i)) = "GRAPHICS_SELECTED"
  BY <1>2, <1>4, SameMap
<1>9. /\ I!operand_address(i) - I!GRAPHICS_REGION_START = p
  BY <1>2, <1>5, SameMap
<1>6. /\ frame_buffer' = [frame_buffer EXCEPT ![p] = cpu.registers[reg]]
      /\ UNCHANGED <<system_memory, isa_process>>
  BY <1>1, <1>3, <1>8, <1>9 DEF I!Store, I!past_the_array
<1>7. keeps_registers /\ keeps_CCR /\ isa_PC' = isa_PC + 1
  BY <1>3, AtInstruction DEF I!Store, keeps_registers, keeps_CCR
<1> QED BY <1>6, <1>7 DEF goes_to

LEMMA BranchStep ==
  ASSUME Executes, NEW n \in Int, fits(n, 23), isa_PC + 1 + n \in Word,
         holds(isa_PC, BRP(n))
  PROVE  /\ goes_to(IF "POSITIVE" \in cpu.CCR THEN isa_PC + 1 + n
                    ELSE isa_PC + 1)
         /\ keeps_registers /\ keeps_CCR /\ keeps_picture
<1> DEFINE i == Decode[isa_PC]
<1>1. /\ i.opcode = "BRANCH" /\ i.instruction_condition_codes = {"POSITIVE"}
      /\ i.branch_pc_relative_offset_bits = n % WORDS
  BY AtInstruction, DecodedBranch
<1>2. Add(isa_PC + 1, n % WORDS) = isa_PC + 1 + n
  <2>1. isa_PC + 1 \in Word /\ n \in Int
    BY AtInstruction DEF fits
  <2> QED BY <2>1, AddSigned
<1> HIDE DEF i
<1>3. I!Transfer(i)
  BY <1>1, Fetched DEF i, I!Calculate, I!Load, I!Store, I!Transfer,
     I!Call, I!Trap, I!ReturnFromInterrupt, I!Nothing, I!ALU_instruction
<1> QED
  BY <1>1, <1>2, <1>3, AtInstruction, SameMap
  DEF I!Transfer, I!finishes, I!untouched_memory, goes_to, keeps_registers,
      keeps_CCR, keeps_picture

LEMMA JumpStep ==
  ASSUME Executes, NEW n \in Int, fits(n, 26), isa_PC + 1 + n \in Word,
         holds(isa_PC, JUMP(n))
  PROVE  /\ goes_to(isa_PC + 1 + n)
         /\ keeps_registers /\ keeps_CCR /\ keeps_picture
<1> DEFINE i == Decode[isa_PC]
<1>1. /\ i.opcode = "JUMP"
      /\ i.jump_pc_relative_offset_bits = n % WORDS
  BY AtInstruction, DecodedJump
<1>2. Add(isa_PC + 1, n % WORDS) = isa_PC + 1 + n
  <2>1. isa_PC + 1 \in Word /\ n \in Int
    BY AtInstruction DEF fits
  <2> QED BY <2>1, AddSigned
<1> HIDE DEF i
<1>3. I!Transfer(i)
  BY <1>1, Fetched DEF i, I!Calculate, I!Load, I!Store, I!Transfer,
     I!Call, I!Trap, I!ReturnFromInterrupt, I!Nothing, I!ALU_instruction
<1> QED
  BY <1>1, <1>2, <1>3, AtInstruction, SameMap
  DEF I!Transfer, I!finishes, I!untouched_memory, goes_to, keeps_registers,
      keeps_CCR, keeps_picture

LEMMA CallStep ==
  ASSUME Executes, NEW n \in Int, fits(n, 26), isa_PC + 1 + n \in Word,
         holds(isa_PC, CALL(n))
  PROVE  /\ goes_to(isa_PC + 1 + n) /\ sets(LINK_REGISTER, isa_PC + 1)
         /\ keeps_CCR /\ keeps_picture
<1> DEFINE i == Decode[isa_PC]
<1>1. /\ i.opcode = "CALL"
      /\ i.jump_pc_relative_offset_bits = n % WORDS
  BY AtInstruction, DecodedCall
<1>2. Add(isa_PC + 1, n % WORDS) = isa_PC + 1 + n
  <2>1. isa_PC + 1 \in Word /\ n \in Int
    BY AtInstruction DEF fits
  <2> QED BY <2>1, AddSigned
<1> HIDE DEF i
<1>3. I!Call(i)
  BY <1>1, Fetched DEF i, I!Calculate, I!Load, I!Store, I!Transfer,
     I!Call, I!Trap, I!ReturnFromInterrupt, I!Nothing, I!ALU_instruction
<1> QED
  BY <1>1, <1>2, <1>3, AtInstruction, SameMap
  DEF I!Call, I!finishes, I!untouched_memory, goes_to, sets,
      keeps_CCR, keeps_picture

LEMMA ReturnStep ==
  ASSUME Executes, holds(isa_PC, RETURN)
  PROVE  /\ goes_to(cpu.registers[LINK_REGISTER])
         /\ keeps_registers /\ keeps_CCR /\ keeps_picture
<1> DEFINE i == Decode[isa_PC]
<1>1. /\ i.opcode = "JUMPR" /\ i.source_reg1 = 30
      /\ i.base_register_offset_bits = 0
  BY AtInstruction, DecodedReturn
<1>2. cpu.registers[30] \in Word BY DEF Executes, Machine
<1>3. Add(cpu.registers[30], 0) = cpu.registers[30]
  BY <1>2, WordAssumption DEF WordAssumption, Word, Add
<1> HIDE DEF i
<1>4. I!Transfer(i)
  BY <1>1, Fetched DEF i, I!Calculate, I!Load, I!Store, I!Transfer,
     I!Call, I!Trap, I!ReturnFromInterrupt, I!Nothing, I!ALU_instruction
<1> QED
  BY <1>1, <1>3, <1>4, AtInstruction, SameMap
  DEF I!Transfer, I!base_plus_offset, I!finishes, I!untouched_memory, goes_to,
      keeps_registers, keeps_CCR, keeps_picture, LINK_REGISTER

-----------------------------------------------------------------------------
(* The picture grows pixel by pixel and row by row. *)

cell(row, column) == START + row * SCREEN_WIDTH + column
draws(row, column) ==
  /\ row \in 0 .. BOX_HEIGHT - 1 /\ column \in 0 .. BOX_WIDTH - 1
  /\ first_drawn_column(row) <= column /\ cell(row, column) \in Pixel

LEMMA PixelDrawn ==
  ASSUME NEW row \in Int, NEW column \in Int, draws(row, column)
  PROVE  drawn_before(row, column + 1) =
           drawn_before(row, column) \cup {cell(row, column)}
<1>0. /\ row \in 0 .. BOX_HEIGHT - 1 /\ column \in 0 .. BOX_WIDTH - 1
      /\ first_drawn_column(row) <= column
  BY DEF draws
<1> DEFINE p == cell(row, column)
<1>1. ASSUME NEW i \in 0 .. BOX_HEIGHT - 1,
             NEW j \in first_drawn_column(i) .. BOX_WIDTH - 1
      PROVE  (i < row \/ (i = row /\ j < column + 1)) <=>
               (i < row \/ (i = row /\ j < column)) \/ (i = row /\ j = column)
  BY <1>0, <1>1, Sizes DEF first_drawn_column
<1>2. column \in first_drawn_column(row) .. BOX_WIDTH - 1
  BY <1>0, Sizes DEF first_drawn_column
<1>3. drawn_before(row, column + 1) \subseteq drawn_before(row, column) \cup {p}
  BY <1>0, <1>1 DEF drawn_before, START, cell
<1>4. drawn_before(row, column) \subseteq drawn_before(row, column + 1)
  BY <1>1 DEF drawn_before
<1>5. p \in drawn_before(row, column + 1)
  <2>1. column < column + 1 OBVIOUS
  <2>2. p \in Pixel BY DEF draws
  <2> QED BY <1>0, <1>2, <2>1, <2>2 DEF drawn_before, START, cell
<1> QED BY <1>3, <1>4, <1>5

LEMMA RowDrawn ==
  ASSUME NEW row \in 0 .. BOX_HEIGHT - 1
  PROVE  drawn_before(row, BOX_WIDTH) = drawn_before(row + 1, 0)
<1>1. ASSUME NEW i \in 0 .. BOX_HEIGHT - 1,
             NEW j \in first_drawn_column(i) .. BOX_WIDTH - 1
      PROVE  (i < row \/ (i = row /\ j < BOX_WIDTH)) <=>
               (i < row + 1 \/ (i = row + 1 /\ j < 0))
  BY <1>1, Sizes DEF first_drawn_column
<1> QED BY <1>1 DEF drawn_before

(* The first column of a row that is not the first one is skipped. *)
LEMMA ColumnSkipped ==
  ASSUME NEW row \in 1 .. BOX_HEIGHT
  PROVE  drawn_before(row, 0) = drawn_before(row, 1)
<1>1. ASSUME NEW i \in 0 .. BOX_HEIGHT - 1,
             NEW j \in first_drawn_column(i) .. BOX_WIDTH - 1
      PROVE  (i < row \/ (i = row /\ j < 0)) <=>
               (i < row \/ (i = row /\ j < 1))
  BY <1>1, Sizes DEF first_drawn_column
<1> QED BY <1>1 DEF drawn_before

LEMMA NothingDrawn == drawn_before(0, 0) = {}
<1>1. ASSUME NEW i \in 0 .. BOX_HEIGHT - 1,
             NEW j \in first_drawn_column(i) .. BOX_WIDTH - 1
      PROVE  ~(i < 0 \/ (i = 0 /\ j < 0))
  BY <1>1, Sizes DEF first_drawn_column
<1> QED BY <1>1 DEF drawn_before

LEMMA PositiveCode ==
  ASSUME NEW n \in 0 .. GRAPHICS_REGION_SIZE
  PROVE  "POSITIVE" \in condition_code_bits(n) <=> n > 0
BY Sizes DEF condition_code_bits

-----------------------------------------------------------------------------
(* Every instruction keeps the invariant. *)

LEMMA Instructions0 ==
  /\ holds(0, LOAD(R0, 3)) /\ holds(1, CALL(7)) /\ holds(2, OR(R0, R0, R0))
  /\ holds(3, JUMP(-1))
  /\ holds(9, LOAD(PIXEL_POSITION, -3)) /\ holds(10, LOAD(PIXEL_VALUE, -3))
  /\ holds(11, LOAD(BOX_WIDTH_COUNTER, -7))
  /\ holds(12, LOAD(BOX_HEIGHT_COUNTER, -7))
BY ProgramWords, Addresses DEF holds, NOP, HCF

LEMMA Instructions1 ==
  /\ holds(13, STORER(PIXEL_VALUE, PIXEL_POSITION, GRAPHICS_REGION_START))
  /\ holds(14, ADD_IMMEDIATE(PIXEL_POSITION, PIXEL_POSITION, 1))
  /\ holds(15, ADD_IMMEDIATE(BOX_WIDTH_COUNTER, BOX_WIDTH_COUNTER, -1))
  /\ holds(16, BRP(-4))
  /\ holds(17, ADD_IMMEDIATE(BOX_WIDTH_COUNTER, BOX_WIDTH_COUNTER, BOX_WIDTH))
  /\ holds(18, ADD_IMMEDIATE(PIXEL_POSITION, PIXEL_POSITION, SCREEN_WIDTH))
  /\ holds(19, ADD_IMMEDIATE(PIXEL_POSITION, PIXEL_POSITION, -BOX_WIDTH))
  /\ holds(20, ADD_IMMEDIATE(BOX_HEIGHT_COUNTER, BOX_HEIGHT_COUNTER, -1))
  /\ holds(21, BRP(-8)) /\ holds(22, RETURN)
BY ProgramWords, Addresses DEF holds, INC, DEC

(* The parts of the invariant that most steps keep. *)
LEMMA ControlKept ==
  ASSUME ControlInv, NEW address \in InstructionAddress, goes_to(address),
         address >= 9 => cpu'.registers[30] = 2
  PROVE  ControlInv' /\ isa_PC' = address
BY DEF ControlInv, goes_to, LINK_REGISTER

LEMMA PictureKept ==
  ASSUME PictureInv, keeps_picture, drawn_so_far' = drawn_so_far,
         isa_PC' \in {2, 3, 22} => current_row' = BOX_HEIGHT
  PROVE  PictureInv'
BY DEF PictureInv, keeps_picture, picture

Stepping == ProgramInv /\ Executes

(* An instruction brings HCF nearer, or is HCF. *)
steps_on ==
  IF isa_PC = HCF_ADDRESS THEN isa_PC' = HCF_ADDRESS
  ELSE instructions_left' <= instructions_left - 1

LEMMA RowBegun ==
  ASSUME NEW n \in 1 .. BOX_HEIGHT
  PROVE  /\ rows(n) \in Nat /\ rows(n - 1) \in Nat
         /\ rows(n) = rows(n - 1) + (4 * BOX_WIDTH + 5)
<1> DEFINE row == 4 * BOX_WIDTH + 5
<1>1. row \in Nat /\ n \in Nat /\ n - 1 \in Nat BY Sizes
<1>2. rows(n) = n * row /\ rows(n - 1) = (n - 1) * row BY DEF rows
<1> HIDE DEF row
<1>3. n * row = (n - 1) * row + row BY <1>1
<1>4. n * row \in Nat /\ (n - 1) * row \in Nat BY <1>1
<1> QED BY <1>2, <1>3, <1>4 DEF row

LEMMA AllRows == rows(BOX_HEIGHT) \in Nat
<1>1. BOX_HEIGHT \in 1 .. BOX_HEIGHT BY Sizes
<1> QED BY <1>1, RowBegun

LEMMA Unfolded ==
  ASSUME Stepping
  PROVE  /\ ControlInv /\ LoadedInv /\ LoopInv /\ PictureInv
         /\ Machine /\ Executes
         /\ isa_PC \in InstructionAddress /\ isa_PC \in Word
         /\ cpu.registers \in [0 .. 31 -> Word]
BY Addresses DEF Stepping, ProgramInv, Executes, ControlInv, Machine

LEMMA FewInstructions ==
  /\ 0 \in InstructionAddress /\ 1 \in InstructionAddress
  /\ 2 \in InstructionAddress /\ 3 \in InstructionAddress
  /\ \A l \in 9 .. 22 : l \in InstructionAddress
BY Addresses

LEMMA Step0 ==
  ASSUME Stepping, isa_PC = 0
  PROVE  ProgramInv' /\ steps_on
<1>1. /\ sets(0, program_data[4 - 3]) /\ keeps_picture /\ goes_to(1)
  <2>1. 4 \in DataAddress /\ 3 \in Int /\ fits(3, 21)
    BY NumbersFit DEF DataAddress
  <2>2. holds(isa_PC, LOAD(0, 3)) BY Instructions0 DEF R0
  <2> QED BY <2>1, <2>2, Unfolded, LoadStep
<1>2. ControlInv' /\ isa_PC' = 1
  BY <1>1, Unfolded, FewInstructions, ControlKept
<1>3. LoadedInv' /\ LoopInv' BY <1>2 DEF LoadedInv, LoopInv
<1>4. PictureInv'
  <2>1. drawn_so_far' = drawn_so_far BY <1>2 DEF drawn_so_far
  <2> QED BY <1>1, <1>2, <2>1, Unfolded, PictureKept
<1>5. steps_on
  BY <1>2, AllRows DEF steps_on, instructions_left, HCF_ADDRESS
<1> QED BY <1>2, <1>3, <1>4, <1>5 DEF ProgramInv

LEMMA Step1 ==
  ASSUME Stepping, isa_PC = 1
  PROVE  ProgramInv' /\ steps_on
<1>1. /\ sets(30, 2) /\ keeps_picture /\ goes_to(9)
  <2>1. 7 \in Int /\ fits(7, 26) /\ 9 \in Word
    BY NumbersFit, Addresses DEF Word
  <2>2. holds(isa_PC, CALL(7)) BY Instructions0
  <2> QED BY <2>1, <2>2, Unfolded, CallStep DEF LINK_REGISTER
<1>2. cpu'.registers[30] = 2 BY <1>1, Unfolded DEF sets
<1>3. ControlInv' /\ isa_PC' = 9
  BY <1>1, <1>2, Unfolded, FewInstructions, ControlKept
<1>4. LoadedInv' /\ LoopInv' BY <1>3 DEF LoadedInv, LoopInv
<1>5. PictureInv'
  <2>1. drawn_so_far' = drawn_so_far BY <1>3 DEF drawn_so_far
  <2> QED BY <1>1, <1>3, <2>1, Unfolded, PictureKept
<1>6. steps_on
  BY <1>3, AllRows DEF steps_on, instructions_left, HCF_ADDRESS
<1> QED BY <1>3, <1>4, <1>5, <1>6 DEF ProgramInv

LEMMA Step2 ==
  ASSUME Stepping, isa_PC = 2
  PROVE  ProgramInv' /\ steps_on
<1>1. (\E value : sets(0, value)) /\ keeps_picture /\ goes_to(3)
  <2>1. holds(isa_PC, OR(0, 0, 0)) BY Instructions0 DEF R0
  <2> QED BY <2>1, Unfolded, NopStep
<1>2. cpu'.registers[5] = cpu.registers[5] BY <1>1, Unfolded DEF sets
<1>3. ControlInv' /\ isa_PC' = 3
  BY <1>1, Unfolded, FewInstructions, ControlKept
<1>4. LoadedInv' /\ LoopInv' BY <1>3 DEF LoadedInv, LoopInv
<1>5. PictureInv'
  <2>1. current_row' = current_row /\ current_row = BOX_HEIGHT
    BY <1>2, Unfolded DEF PictureInv, current_row, BOX_HEIGHT_COUNTER
  <2>2. drawn_so_far' = drawn_so_far
    BY <1>3, <2>1 DEF drawn_so_far, current_column
  <2> QED BY <1>1, <1>3, <2>1, <2>2, Unfolded, PictureKept
<1>6. steps_on
  BY <1>3 DEF steps_on, instructions_left, HCF_ADDRESS
<1> QED BY <1>3, <1>4, <1>5, <1>6 DEF ProgramInv

LEMMA Step3 ==
  ASSUME Stepping, isa_PC = 3
  PROVE  ProgramInv' /\ steps_on
<1>1. goes_to(3) /\ keeps_registers /\ keeps_picture
  <2>1. -1 \in Int /\ fits(-1, 26) /\ isa_PC + 1 + (-1) = 3 /\ 3 \in Word
    BY NumbersFit, Addresses DEF Word
  <2>2. holds(isa_PC, JUMP(-1)) BY Instructions0
  <2> QED BY <2>1, <2>2, Unfolded, JumpStep
<1>2. cpu'.registers[5] = cpu.registers[5] BY <1>1 DEF keeps_registers
<1>3. ControlInv' /\ isa_PC' = 3
  BY <1>1, Unfolded, FewInstructions, ControlKept
<1>4. LoadedInv' /\ LoopInv' BY <1>3 DEF LoadedInv, LoopInv
<1>5. PictureInv'
  <2>1. current_row' = current_row /\ current_row = BOX_HEIGHT
    BY <1>2, Unfolded DEF PictureInv, current_row, BOX_HEIGHT_COUNTER
  <2>2. drawn_so_far' = drawn_so_far
    BY <1>3, <2>1 DEF drawn_so_far, current_column
  <2> QED BY <1>1, <1>3, <2>1, <2>2, Unfolded, PictureKept
<1>6. steps_on
  BY <1>3 DEF steps_on, HCF_ADDRESS
<1> QED BY <1>3, <1>4, <1>5, <1>6 DEF ProgramInv

LEMMA Step9 ==
  ASSUME Stepping, isa_PC = 9
  PROVE  ProgramInv' /\ steps_on
<1>1. /\ sets(1, STARTING_POSITION_IN_FRAME_BUFFER)
      /\ keeps_picture /\ goes_to(10)
  <2>1. 7 \in DataAddress /\ -3 \in Int /\ fits(-3, 21)
        /\ isa_PC + 1 + (-3) = 7
    BY NumbersFit DEF DataAddress
  <2>2. holds(isa_PC, LOAD(1, -3))
    BY Instructions0 DEF PIXEL_POSITION
  <2>3. program_data[7 - 3] = STARTING_POSITION_IN_FRAME_BUFFER
    BY DEF program_data
  <2> QED BY <2>1, <2>2, <2>3, Unfolded, LoadStep
<1>2. /\ cpu'.registers[1] = STARTING_POSITION_IN_FRAME_BUFFER
      /\ \A r \in 0 .. 31 : r # 1 => cpu'.registers[r] = cpu.registers[r]
  BY <1>1, Unfolded DEF sets
<1>3. cpu'.registers[30] = 2
  BY <1>2, Unfolded DEF ControlInv, LINK_REGISTER
<1>4. ControlInv' /\ isa_PC' = 10
  BY <1>1, <1>3, Unfolded, FewInstructions, ControlKept
<1>5. LoadedInv'
  BY <1>2, <1>4, Unfolded
  DEF LoadedInv, PIXEL_POSITION, PIXEL_VALUE, BOX_WIDTH_COUNTER
<1>6. LoopInv' BY <1>4 DEF LoopInv
<1>7. PictureInv'
  <2>1. drawn_so_far' = drawn_so_far BY <1>4 DEF drawn_so_far
  <2> QED BY <1>1, <1>4, <2>1, Unfolded, PictureKept
<1>8. steps_on
  BY <1>4, AllRows DEF steps_on, instructions_left, HCF_ADDRESS
<1> QED BY <1>4, <1>5, <1>6, <1>7, <1>8 DEF ProgramInv

LEMMA Step10 ==
  ASSUME Stepping, isa_PC = 10
  PROVE  ProgramInv' /\ steps_on
<1>1. /\ sets(2, WHITE) /\ keeps_picture /\ goes_to(11)
  <2>1. 8 \in DataAddress /\ -3 \in Int /\ fits(-3, 21)
        /\ isa_PC + 1 + (-3) = 8
    BY NumbersFit DEF DataAddress
  <2>2. holds(isa_PC, LOAD(2, -3))
    BY Instructions0 DEF PIXEL_VALUE
  <2>3. program_data[8 - 3] = WHITE BY DEF program_data
  <2> QED BY <2>1, <2>2, <2>3, Unfolded, LoadStep
<1>2. /\ cpu'.registers[2] = WHITE
      /\ \A r \in 0 .. 31 : r # 2 => cpu'.registers[r] = cpu.registers[r]
  BY <1>1, Unfolded DEF sets
<1>3. cpu'.registers[30] = 2
  BY <1>2, Unfolded DEF ControlInv, LINK_REGISTER
<1>4. ControlInv' /\ isa_PC' = 11
  BY <1>1, <1>3, Unfolded, FewInstructions, ControlKept
<1>5. LoadedInv'
  BY <1>2, <1>4, Unfolded
  DEF LoadedInv, PIXEL_POSITION, PIXEL_VALUE, BOX_WIDTH_COUNTER
<1>6. LoopInv' BY <1>4 DEF LoopInv
<1>7. PictureInv'
  <2>1. drawn_so_far' = drawn_so_far BY <1>4 DEF drawn_so_far
  <2> QED BY <1>1, <1>4, <2>1, Unfolded, PictureKept
<1>8. steps_on
  BY <1>4, AllRows DEF steps_on, instructions_left, HCF_ADDRESS
<1> QED BY <1>4, <1>5, <1>6, <1>7, <1>8 DEF ProgramInv

LEMMA Step11 ==
  ASSUME Stepping, isa_PC = 11
  PROVE  ProgramInv' /\ steps_on
<1>1. /\ sets(4, BOX_WIDTH) /\ keeps_picture /\ goes_to(12)
  <2>1. 5 \in DataAddress /\ -7 \in Int /\ fits(-7, 21)
        /\ isa_PC + 1 + (-7) = 5
    BY NumbersFit DEF DataAddress
  <2>2. holds(isa_PC, LOAD(4, -7))
    BY Instructions0 DEF BOX_WIDTH_COUNTER
  <2>3. program_data[5 - 3] = BOX_WIDTH BY DEF program_data
  <2> QED BY <2>1, <2>2, <2>3, Unfolded, LoadStep
<1>2. /\ cpu'.registers[4] = BOX_WIDTH
      /\ \A r \in 0 .. 31 : r # 4 => cpu'.registers[r] = cpu.registers[r]
  BY <1>1, Unfolded DEF sets
<1>3. cpu'.registers[30] = 2
  BY <1>2, Unfolded DEF ControlInv, LINK_REGISTER
<1>4. ControlInv' /\ isa_PC' = 12
  BY <1>1, <1>3, Unfolded, FewInstructions, ControlKept
<1>5. LoadedInv'
  BY <1>2, <1>4, Unfolded
  DEF LoadedInv, PIXEL_POSITION, PIXEL_VALUE, BOX_WIDTH_COUNTER
<1>6. LoopInv' BY <1>4 DEF LoopInv
<1>7. PictureInv'
  <2>1. drawn_so_far' = drawn_so_far BY <1>4 DEF drawn_so_far
  <2> QED BY <1>1, <1>4, <2>1, Unfolded, PictureKept
<1>8. steps_on
  BY <1>4, AllRows DEF steps_on, instructions_left, HCF_ADDRESS
<1> QED BY <1>4, <1>5, <1>6, <1>7, <1>8 DEF ProgramInv

LEMMA Step12 ==
  ASSUME Stepping, isa_PC = 12
  PROVE  ProgramInv' /\ steps_on
<1>1. /\ sets(5, BOX_HEIGHT) /\ keeps_picture /\ goes_to(13)
  <2>1. 6 \in DataAddress /\ -7 \in Int /\ fits(-7, 21)
        /\ isa_PC + 1 + (-7) = 6
    BY NumbersFit DEF DataAddress
  <2>2. holds(isa_PC, LOAD(5, -7))
    BY Instructions0 DEF BOX_HEIGHT_COUNTER
  <2>3. program_data[6 - 3] = BOX_HEIGHT BY DEF program_data
  <2> QED BY <2>1, <2>2, <2>3, Unfolded, LoadStep
<1>2. /\ cpu'.registers[5] = BOX_HEIGHT
      /\ \A r \in 0 .. 31 : r # 5 => cpu'.registers[r] = cpu.registers[r]
  BY <1>1, Unfolded DEF sets
<1>3. cpu'.registers[30] = 2
  BY <1>2, Unfolded DEF ControlInv, LINK_REGISTER
<1>4. ControlInv' /\ isa_PC' = 13
  BY <1>1, <1>3, Unfolded, FewInstructions, ControlKept
<1>5. LoadedInv'
  BY <1>2, <1>4, Unfolded
  DEF LoadedInv, PIXEL_POSITION, PIXEL_VALUE, BOX_WIDTH_COUNTER
<1>6. /\ cpu'.registers[1] = START /\ cpu'.registers[4] = BOX_WIDTH
      /\ cpu'.registers[5] = BOX_HEIGHT
  BY <1>2, Unfolded
  DEF LoadedInv, START, PIXEL_POSITION, BOX_WIDTH_COUNTER
<1>7. current_row' = 0 /\ current_column' = 0 /\ advance' = 0
  BY <1>4, <1>6, Sizes
  DEF current_row, current_column, advance, BOX_WIDTH_COUNTER,
      BOX_HEIGHT_COUNTER
<1>8. row_start' = START
  <2>1. row_start' = START + 0 * SCREEN_WIDTH
    BY <1>7 DEF row_start, START
  <2> QED BY <2>1, StartIsWord
<1>9. LoopInv'
  BY <1>4, <1>6, <1>7, <1>8, Sizes, StartIsWord
  DEF LoopInv, first_drawn_column, PIXEL_POSITION, BOX_WIDTH_COUNTER,
      BOX_HEIGHT_COUNTER
<1>10. PictureInv'
  <2>1. drawn_so_far' = drawn_before(0, 0) BY <1>4, <1>7 DEF drawn_so_far
  <2>2. drawn_so_far = {} BY DEF drawn_so_far
  <2> QED BY <1>1, <1>4, <2>1, <2>2, NothingDrawn, Unfolded, PictureKept
<1>11. steps_on
  <2>1. BOX_HEIGHT \in 1 .. BOX_HEIGHT BY Sizes
  <2>2. /\ rows(BOX_HEIGHT) = rows(BOX_HEIGHT - 1) + (4 * BOX_WIDTH + 5)
        /\ rows(BOX_HEIGHT - 1) \in Nat
    BY <2>1, RowBegun
  <2> QED
    BY <1>4, <1>6, <2>2, Sizes
    DEF steps_on, instructions_left, HCF_ADDRESS, BOX_WIDTH_COUNTER,
        BOX_HEIGHT_COUNTER
<1> QED BY <1>4, <1>5, <1>9, <1>10, <1>11 DEF ProgramInv

(* In the loops, up to the row's last instruction. *)
LEMMA PlaceInRow ==
  ASSUME ProgramInv, isa_PC \in 13 .. 20
  PROVE  /\ current_row \in 0 .. BOX_HEIGHT - 1
         /\ row_start \in Nat /\ row_start + BOX_WIDTH <= GRAPHICS_REGION_SIZE
         /\ START + (current_row + 1) * SCREEN_WIDTH = row_start + SCREEN_WIDTH
         /\ cpu.registers[1] = row_start + advance
         /\ cpu.registers[4] \in 0 .. BOX_WIDTH
         /\ cpu.registers[5] \in 1 .. BOX_HEIGHT
         /\ cpu.registers[2] = WHITE /\ cpu.registers[30] = 2
<1>0. isa_PC \in 13 .. 21 /\ isa_PC \in 11 .. 21 /\ isa_PC >= 9 /\ isa_PC # 21
  OBVIOUS
<1>1. /\ cpu.registers[1] = row_start + advance
      /\ cpu.registers[5] \in 1 .. BOX_HEIGHT
      /\ cpu.registers[4] \in IF isa_PC = 16 THEN 0 .. BOX_WIDTH - 1
                              ELSE 0 .. BOX_WIDTH
      /\ cpu.registers[2] = WHITE /\ cpu.registers[30] = 2
  <2>1. LoopInv /\ LoadedInv /\ ControlInv BY DEF ProgramInv
  <2>2. cpu.registers[2] = WHITE /\ cpu.registers[30] = 2
    BY <1>0, <2>1 DEF LoadedInv, ControlInv, LINK_REGISTER, PIXEL_VALUE
  <2> QED
    BY <1>0, <2>1, <2>2
    DEF LoopInv, PIXEL_POSITION, BOX_WIDTH_COUNTER, BOX_HEIGHT_COUNTER
<1>2. cpu.registers[4] \in 0 .. BOX_WIDTH BY <1>1, Sizes
<1>3. current_row \in 0 .. BOX_HEIGHT - 1
  BY <1>1, Sizes DEF current_row, BOX_HEIGHT_COUNTER
<1>4. row_start = START + current_row * SCREEN_WIDTH
  BY DEF row_start, START
<1> QED BY <1>1, <1>2, <1>3, <1>4, CellInside

LEMMA InRow ==
  ASSUME Stepping, isa_PC \in 13 .. 20
  PROVE  /\ current_row \in 0 .. BOX_HEIGHT - 1
         /\ row_start \in Nat /\ row_start + BOX_WIDTH <= GRAPHICS_REGION_SIZE
         /\ START + (current_row + 1) * SCREEN_WIDTH = row_start + SCREEN_WIDTH
         /\ cpu.registers[1] = row_start + advance
         /\ cpu.registers[4] \in 0 .. BOX_WIDTH
         /\ cpu.registers[5] \in 1 .. BOX_HEIGHT
         /\ cpu.registers[2] = WHITE /\ cpu.registers[30] = 2
BY PlaceInRow DEF Stepping

(* A step that changes no register of the row counter stays in the row. *)
LEMMA SameRow ==
  ASSUME cpu'.registers[5] = cpu.registers[5]
  PROVE  current_row' = current_row /\ row_start' = row_start
BY DEF current_row, row_start, BOX_HEIGHT_COUNTER

(* The rows that come after this one. *)
LEMMA RowsInRow ==
  ASSUME Stepping, isa_PC \in 13 .. 20
  PROVE  rows(cpu.registers[5] - 1) \in Nat
BY InRow, RowBegun

(* What is left to show when an instruction of a row leads to the next one. *)
LEMMA RowKept ==
  ASSUME LoadedInv', LoopInv', ControlInv', PictureInv'
  PROVE  ProgramInv'
BY DEF ProgramInv

LEMMA Step13 ==
  ASSUME Stepping, isa_PC = 13
  PROVE  ProgramInv' /\ steps_on
<1>0. /\ cpu.registers[4] \in 1 .. BOX_WIDTH
      /\ advance = current_column
      /\ current_column = BOX_WIDTH - cpu.registers[4]
      /\ current_column \in 0 .. BOX_WIDTH - 1
      /\ first_drawn_column(current_row) <= current_column
  <2>1. current_column = BOX_WIDTH - cpu.registers[4]
    BY DEF current_column, BOX_WIDTH_COUNTER
  <2>2. /\ cpu.registers[4] > 0
        /\ current_column >= first_drawn_column(current_row)
    BY Unfolded DEF LoopInv, BOX_WIDTH_COUNTER
  <2> QED BY <2>1, <2>2, InRow, Sizes DEF advance, first_drawn_column
<1>1. PICK p \in Pixel : p = row_start + current_column
  <2>1. row_start + current_column \in 0 .. GRAPHICS_REGION_SIZE - 1
    BY <1>0, InRow, Sizes
  <2> QED BY <2>1 DEF Pixel
<1>2. /\ frame_buffer' = [frame_buffer EXCEPT ![p] = cpu.registers[2]]
      /\ keeps_registers /\ goes_to(14)
  <2>1. holds(isa_PC, STORER(2, 1, GRAPHICS_REGION_START))
    BY Instructions1 DEF PIXEL_VALUE, PIXEL_POSITION
  <2>2. cpu.registers[1] = p BY <1>0, <1>1, InRow
  <2>3. Executes /\ 1 \in 0 .. 31 /\ 2 \in 0 .. 31 /\ isa_PC + 1 = 14
    BY Unfolded
  <2> QED BY <2>1, <2>2, <2>3, StoreStep, Zenon
<1>3. cpu'.registers = cpu.registers BY <1>2 DEF keeps_registers
<1>4. ControlInv' /\ isa_PC' = 14
  BY <1>2, <1>3, InRow, Unfolded, FewInstructions, ControlKept
<1>5. current_row' = current_row /\ row_start' = row_start
  BY <1>3, SameRow
<1>6. current_column' = current_column + 1 /\ advance' = advance
  BY <1>0, <1>3, <1>4, Sizes, InRow
  DEF current_column, advance, BOX_WIDTH_COUNTER
<1>7. LoadedInv'
  BY <1>3, <1>4, InRow DEF LoadedInv, PIXEL_VALUE
<1>8. LoopInv'
  BY <1>0, <1>3, <1>4, <1>5, <1>6, InRow
  DEF LoopInv, PIXEL_POSITION, BOX_WIDTH_COUNTER, BOX_HEIGHT_COUNTER
<1>9. PictureInv'
  <2>1. p = cell(current_row, current_column)
    BY <1>1 DEF row_start, START, cell
  <2>0. draws(current_row, current_column) /\ current_row \in Int
        /\ current_column \in Int
    BY <1>0, <2>1, InRow DEF draws
  <2>2. drawn_before(current_row, current_column + 1) =
          drawn_before(current_row, current_column) \cup {p}
    BY <2>0, <2>1, PixelDrawn
  <2>3. drawn_so_far' = drawn_so_far \cup {p}
    BY <1>4, <1>5, <1>6, <2>2 DEF drawn_so_far
  <2>4. frame_buffer = picture(drawn_so_far) BY Unfolded DEF PictureInv
  <2>5. frame_buffer' = picture(drawn_so_far \cup {p})
    BY <1>2, <2>4, InRow DEF picture
  <2>6. picture(drawn_so_far)' = picture(drawn_so_far \cup {p})
    BY <2>3 DEF picture
  <2> QED BY <1>4, <2>5, <2>6 DEF PictureInv
<1>10. steps_on
  BY <1>0, <1>3, <1>4, RowsInRow, Sizes
  DEF steps_on, instructions_left, HCF_ADDRESS,
      BOX_WIDTH_COUNTER, BOX_HEIGHT_COUNTER
<1> QED BY <1>4, <1>7, <1>8, <1>9, <1>10, RowKept

LEMMA Step14 ==
  ASSUME Stepping, isa_PC = 14
  PROVE  ProgramInv' /\ steps_on
<1>0. /\ cpu.registers[4] \in 1 .. BOX_WIDTH
      /\ current_column = (BOX_WIDTH - cpu.registers[4]) + 1
      /\ advance = current_column - 1
  BY Unfolded, InRow, Sizes
  DEF LoopInv, LoadedInv, current_column, advance, BOX_WIDTH_COUNTER,
      BOX_HEIGHT_COUNTER
<1>1. PICK a \in Word : a = cpu.registers[1] /\ a + (1) \in Word
  <2>1. /\ cpu.registers[1] \in Word
        /\ cpu.registers[1] + (1) \in 0 .. WORDS - 1
    BY <1>0, InRow, Sizes, Unfolded
  <2> QED BY <2>1 DEF Word
<1>2. /\ sets(1, a + (1)) /\ cpu'.CCR = condition_code_bits(a + (1))
      /\ keeps_picture /\ goes_to(15)
  <2>1. holds(isa_PC, ADD_IMMEDIATE(1, 1, 1))
    BY Instructions1 DEF PIXEL_POSITION
  <2>2. 1 \in Int /\ fits(1, 15) BY NumbersFit, Sizes
  <2>3. Executes /\ 1 \in 0 .. 31 /\ isa_PC + 1 = 15 BY Unfolded
  <2> QED BY <1>1, <2>1, <2>2, <2>3, AddStep, Zenon
<1>3. /\ cpu'.registers[1] = a + (1)
      /\ \A r \in 0 .. 31 : r # 1 => cpu'.registers[r] = cpu.registers[r]
  BY <1>2, Unfolded DEF sets
<1>4. ControlInv' /\ isa_PC' = 15
  BY <1>2, <1>3, InRow, Unfolded, FewInstructions, ControlKept
<1>5. current_row' = current_row /\ row_start' = row_start
  BY <1>3, SameRow
<1>6. current_column' = current_column /\ advance' = advance + 1
  BY <1>0, <1>1, <1>3, <1>4, Sizes, InRow
  DEF current_column, advance, BOX_WIDTH_COUNTER
<1>7. LoadedInv'
  BY <1>0, <1>1, <1>3, <1>4, InRow, Sizes
  DEF LoadedInv, PIXEL_VALUE, BOX_WIDTH_COUNTER
<1>8. LoopInv'
  BY <1>0, <1>1, <1>2, <1>3, <1>4, <1>5, <1>6, InRow, Sizes
  DEF LoopInv, PIXEL_POSITION, BOX_WIDTH_COUNTER, BOX_HEIGHT_COUNTER
<1>9. PictureInv'
  <2>1. drawn_so_far' = drawn_so_far
    BY <1>4, <1>5, <1>6 DEF drawn_so_far
  <2> QED BY <1>2, <1>4, <2>1, Unfolded, PictureKept
<1>10. steps_on
  BY <1>0, <1>3, <1>4, RowsInRow, Sizes
  DEF steps_on, instructions_left, HCF_ADDRESS,
      BOX_WIDTH_COUNTER, BOX_HEIGHT_COUNTER
<1> QED BY <1>4, <1>7, <1>8, <1>9, <1>10, RowKept

LEMMA Step15 ==
  ASSUME Stepping, isa_PC = 15
  PROVE  ProgramInv' /\ steps_on
<1>0. /\ cpu.registers[4] \in 1 .. BOX_WIDTH
      /\ current_column = (BOX_WIDTH - cpu.registers[4]) + 1
      /\ advance = current_column
  BY Unfolded, InRow, Sizes
  DEF LoopInv, LoadedInv, current_column, advance, BOX_WIDTH_COUNTER,
      BOX_HEIGHT_COUNTER
<1>1. PICK a \in Word : a = cpu.registers[4] /\ a + (-1) \in Word
  <2>1. /\ cpu.registers[4] \in Word
        /\ cpu.registers[4] + (-1) \in 0 .. WORDS - 1
    BY <1>0, InRow, Sizes, Unfolded
  <2> QED BY <2>1 DEF Word
<1>2. /\ sets(4, a + (-1)) /\ cpu'.CCR = condition_code_bits(a + (-1))
      /\ keeps_picture /\ goes_to(16)
  <2>1. holds(isa_PC, ADD_IMMEDIATE(4, 4, -1))
    BY Instructions1 DEF BOX_WIDTH_COUNTER
  <2>2. -1 \in Int /\ fits(-1, 15) BY NumbersFit, Sizes
  <2>3. Executes /\ 4 \in 0 .. 31 /\ isa_PC + 1 = 16 BY Unfolded
  <2> QED BY <1>1, <2>1, <2>2, <2>3, AddStep, Zenon
<1>3. /\ cpu'.registers[4] = a + (-1)
      /\ \A r \in 0 .. 31 : r # 4 => cpu'.registers[r] = cpu.registers[r]
  BY <1>2, Unfolded DEF sets
<1>4. ControlInv' /\ isa_PC' = 16
  BY <1>2, <1>3, InRow, Unfolded, FewInstructions, ControlKept
<1>5. current_row' = current_row /\ row_start' = row_start
  BY <1>3, SameRow
<1>6. current_column' = current_column /\ advance' = advance
  BY <1>0, <1>1, <1>3, <1>4, Sizes, InRow
  DEF current_column, advance, BOX_WIDTH_COUNTER
<1>7. LoadedInv'
  BY <1>0, <1>1, <1>3, <1>4, InRow, Sizes
  DEF LoadedInv, PIXEL_VALUE, BOX_WIDTH_COUNTER
<1>8. LoopInv'
  BY <1>0, <1>1, <1>2, <1>3, <1>4, <1>5, <1>6, InRow, Sizes
  DEF LoopInv, PIXEL_POSITION, BOX_WIDTH_COUNTER, BOX_HEIGHT_COUNTER
<1>9. PictureInv'
  <2>1. drawn_so_far' = drawn_so_far
    BY <1>4, <1>5, <1>6 DEF drawn_so_far
  <2> QED BY <1>2, <1>4, <2>1, Unfolded, PictureKept
<1>10. steps_on
  BY <1>0, <1>1, <1>3, <1>4, RowsInRow, Sizes
  DEF steps_on, instructions_left, HCF_ADDRESS,
      BOX_WIDTH_COUNTER, BOX_HEIGHT_COUNTER
<1> QED BY <1>4, <1>7, <1>8, <1>9, <1>10, RowKept

LEMMA Step17 ==
  ASSUME Stepping, isa_PC = 17
  PROVE  ProgramInv' /\ steps_on
<1>0. /\ cpu.registers[4] = 0
      /\ current_column = BOX_WIDTH /\ advance = BOX_WIDTH
  BY Unfolded, InRow, Sizes
  DEF LoopInv, LoadedInv, current_column, advance, BOX_WIDTH_COUNTER,
      BOX_HEIGHT_COUNTER
<1>1. PICK a \in Word : a = cpu.registers[4] /\ a + BOX_WIDTH \in Word
  <2>1. /\ cpu.registers[4] \in Word
        /\ cpu.registers[4] + BOX_WIDTH \in 0 .. WORDS - 1
    BY <1>0, InRow, Sizes, Unfolded
  <2> QED BY <2>1 DEF Word
<1>2. /\ sets(4, a + BOX_WIDTH)
      /\ cpu'.CCR = condition_code_bits(a + BOX_WIDTH)
      /\ keeps_picture /\ goes_to(18)
  <2>1. holds(isa_PC, ADD_IMMEDIATE(4, 4, BOX_WIDTH))
    BY Instructions1 DEF BOX_WIDTH_COUNTER
  <2>2. BOX_WIDTH \in Int /\ fits(BOX_WIDTH, 15) BY NumbersFit, Sizes
  <2>3. Executes /\ 4 \in 0 .. 31 /\ isa_PC + 1 = 18 BY Unfolded
  <2> QED BY <1>1, <2>1, <2>2, <2>3, AddStep, Zenon
<1>3. /\ cpu'.registers[4] = a + BOX_WIDTH
      /\ \A r \in 0 .. 31 : r # 4 => cpu'.registers[r] = cpu.registers[r]
  BY <1>2, Unfolded DEF sets
<1>4. ControlInv' /\ isa_PC' = 18
  BY <1>2, <1>3, InRow, Unfolded, FewInstructions, ControlKept
<1>5. current_row' = current_row /\ row_start' = row_start
  BY <1>3, SameRow
<1>6. current_column' = current_column /\ advance' = advance
  BY <1>0, <1>1, <1>3, <1>4, Sizes, InRow
  DEF current_column, advance, BOX_WIDTH_COUNTER
<1>7. LoadedInv'
  BY <1>0, <1>1, <1>3, <1>4, InRow, Sizes
  DEF LoadedInv, PIXEL_VALUE, BOX_WIDTH_COUNTER
<1>8. LoopInv'
  BY <1>0, <1>1, <1>2, <1>3, <1>4, <1>5, <1>6, InRow, Sizes
  DEF LoopInv, PIXEL_POSITION, BOX_WIDTH_COUNTER, BOX_HEIGHT_COUNTER
<1>9. PictureInv'
  <2>1. drawn_so_far' = drawn_so_far
    BY <1>4, <1>5, <1>6 DEF drawn_so_far
  <2> QED BY <1>2, <1>4, <2>1, Unfolded, PictureKept
<1>10. steps_on
  BY <1>3, <1>4, RowsInRow
  DEF steps_on, instructions_left, HCF_ADDRESS, BOX_HEIGHT_COUNTER
<1> QED BY <1>4, <1>7, <1>8, <1>9, <1>10, RowKept

LEMMA Step18 ==
  ASSUME Stepping, isa_PC = 18
  PROVE  ProgramInv' /\ steps_on
<1>0. /\ cpu.registers[4] = BOX_WIDTH
      /\ current_column = BOX_WIDTH /\ advance = BOX_WIDTH
  BY Unfolded, InRow, Sizes
  DEF LoopInv, LoadedInv, current_column, advance, BOX_WIDTH_COUNTER,
      BOX_HEIGHT_COUNTER
<1>1. PICK a \in Word : a = cpu.registers[1] /\ a + SCREEN_WIDTH \in Word
  <2>1. /\ cpu.registers[1] \in Word
        /\ cpu.registers[1] + SCREEN_WIDTH \in 0 .. WORDS - 1
    BY <1>0, InRow, Sizes, Unfolded
  <2> QED BY <2>1 DEF Word
<1>2. /\ sets(1, a + SCREEN_WIDTH)
      /\ cpu'.CCR = condition_code_bits(a + SCREEN_WIDTH)
      /\ keeps_picture /\ goes_to(19)
  <2>1. holds(isa_PC, ADD_IMMEDIATE(1, 1, SCREEN_WIDTH))
    BY Instructions1 DEF PIXEL_POSITION
  <2>2. SCREEN_WIDTH \in Int /\ fits(SCREEN_WIDTH, 15) BY NumbersFit, Sizes
  <2>3. Executes /\ 1 \in 0 .. 31 /\ isa_PC + 1 = 19 BY Unfolded
  <2> QED BY <1>1, <2>1, <2>2, <2>3, AddStep, Zenon
<1>3. /\ cpu'.registers[1] = a + SCREEN_WIDTH
      /\ \A r \in 0 .. 31 : r # 1 => cpu'.registers[r] = cpu.registers[r]
  BY <1>2, Unfolded DEF sets
<1>4. ControlInv' /\ isa_PC' = 19
  BY <1>2, <1>3, InRow, Unfolded, FewInstructions, ControlKept
<1>5. current_row' = current_row /\ row_start' = row_start
  BY <1>3, SameRow
<1>6. current_column' = current_column /\ advance' = advance + SCREEN_WIDTH
  BY <1>0, <1>1, <1>3, <1>4, Sizes, InRow
  DEF current_column, advance, BOX_WIDTH_COUNTER
<1>7. LoadedInv'
  BY <1>0, <1>1, <1>3, <1>4, InRow, Sizes
  DEF LoadedInv, PIXEL_VALUE, BOX_WIDTH_COUNTER
<1>8. LoopInv'
  BY <1>0, <1>1, <1>2, <1>3, <1>4, <1>5, <1>6, InRow, Sizes
  DEF LoopInv, PIXEL_POSITION, BOX_WIDTH_COUNTER, BOX_HEIGHT_COUNTER
<1>9. PictureInv'
  <2>1. drawn_so_far' = drawn_so_far
    BY <1>4, <1>5, <1>6 DEF drawn_so_far
  <2> QED BY <1>2, <1>4, <2>1, Unfolded, PictureKept
<1>10. steps_on
  BY <1>3, <1>4, RowsInRow
  DEF steps_on, instructions_left, HCF_ADDRESS, BOX_HEIGHT_COUNTER
<1> QED BY <1>4, <1>7, <1>8, <1>9, <1>10, RowKept

LEMMA Step19 ==
  ASSUME Stepping, isa_PC = 19
  PROVE  ProgramInv' /\ steps_on
<1>0. /\ cpu.registers[4] = BOX_WIDTH
      /\ current_column = BOX_WIDTH /\ advance = BOX_WIDTH + SCREEN_WIDTH
  BY Unfolded, InRow, Sizes
  DEF LoopInv, LoadedInv, current_column, advance, BOX_WIDTH_COUNTER,
      BOX_HEIGHT_COUNTER
<1>1. PICK a \in Word : a = cpu.registers[1] /\ a + (-BOX_WIDTH) \in Word
  <2>1. /\ cpu.registers[1] \in Word
        /\ cpu.registers[1] + (-BOX_WIDTH) \in 0 .. WORDS - 1
    BY <1>0, InRow, Sizes, Unfolded
  <2> QED BY <2>1 DEF Word
<1>2. /\ sets(1, a + (-BOX_WIDTH))
      /\ cpu'.CCR = condition_code_bits(a + (-BOX_WIDTH))
      /\ keeps_picture /\ goes_to(20)
  <2>1. holds(isa_PC, ADD_IMMEDIATE(1, 1, -BOX_WIDTH))
    BY Instructions1 DEF PIXEL_POSITION
  <2>2. -BOX_WIDTH \in Int /\ fits(-BOX_WIDTH, 15) BY NumbersFit, Sizes
  <2>3. Executes /\ 1 \in 0 .. 31 /\ isa_PC + 1 = 20 BY Unfolded
  <2> QED BY <1>1, <2>1, <2>2, <2>3, AddStep, Zenon
<1>3. /\ cpu'.registers[1] = a + (-BOX_WIDTH)
      /\ \A r \in 0 .. 31 : r # 1 => cpu'.registers[r] = cpu.registers[r]
  BY <1>2, Unfolded DEF sets
<1>4. ControlInv' /\ isa_PC' = 20
  BY <1>2, <1>3, InRow, Unfolded, FewInstructions, ControlKept
<1>5. current_row' = current_row /\ row_start' = row_start
  BY <1>3, SameRow
<1>6. current_column' = current_column /\ advance' = SCREEN_WIDTH
  BY <1>0, <1>1, <1>3, <1>4, Sizes, InRow
  DEF current_column, advance, BOX_WIDTH_COUNTER
<1>7. LoadedInv'
  BY <1>0, <1>1, <1>3, <1>4, InRow, Sizes
  DEF LoadedInv, PIXEL_VALUE, BOX_WIDTH_COUNTER
<1>8. LoopInv'
  BY <1>0, <1>1, <1>2, <1>3, <1>4, <1>5, <1>6, InRow, Sizes
  DEF LoopInv, PIXEL_POSITION, BOX_WIDTH_COUNTER, BOX_HEIGHT_COUNTER
<1>9. PictureInv'
  <2>1. drawn_so_far' = drawn_so_far
    BY <1>4, <1>5, <1>6 DEF drawn_so_far
  <2> QED BY <1>2, <1>4, <2>1, Unfolded, PictureKept
<1>10. steps_on
  BY <1>3, <1>4, RowsInRow
  DEF steps_on, instructions_left, HCF_ADDRESS, BOX_HEIGHT_COUNTER
<1> QED BY <1>4, <1>7, <1>8, <1>9, <1>10, RowKept

LEMMA Step20 ==
  ASSUME Stepping, isa_PC = 20
  PROVE  ProgramInv' /\ steps_on
<1>0. /\ cpu.registers[4] = BOX_WIDTH /\ cpu.registers[5] \in 1 .. BOX_HEIGHT
      /\ current_column = BOX_WIDTH /\ advance = SCREEN_WIDTH
      /\ current_row = BOX_HEIGHT - cpu.registers[5]
  BY Unfolded, InRow, Sizes
  DEF LoopInv, LoadedInv, current_column, advance, BOX_WIDTH_COUNTER,
      BOX_HEIGHT_COUNTER, current_row
<1>1. PICK a \in Word : a = cpu.registers[5] /\ a + (-1) \in Word
  <2>1. /\ cpu.registers[5] \in Word
        /\ cpu.registers[5] + (-1) \in 0 .. WORDS - 1
    BY <1>0, InRow, Sizes, Unfolded
  <2> QED BY <2>1 DEF Word
<1>2. /\ sets(5, a + (-1)) /\ cpu'.CCR = condition_code_bits(a + (-1))
      /\ keeps_picture /\ goes_to(21)
  <2>1. holds(isa_PC, ADD_IMMEDIATE(5, 5, -1))
    BY Instructions1 DEF BOX_HEIGHT_COUNTER
  <2>2. -1 \in Int /\ fits(-1, 15) BY NumbersFit, Sizes
  <2>3. Executes /\ 5 \in 0 .. 31 /\ isa_PC + 1 = 21 BY Unfolded
  <2> QED BY <1>1, <2>1, <2>2, <2>3, AddStep, Zenon
<1>3. /\ cpu'.registers[5] = a + (-1)
      /\ \A r \in 0 .. 31 : r # 5 => cpu'.registers[r] = cpu.registers[r]
  BY <1>2, Unfolded DEF sets
<1>4. ControlInv' /\ isa_PC' = 21
  BY <1>2, <1>3, InRow, Unfolded, FewInstructions, ControlKept
<1>5. current_row' = current_row + 1 /\ row_start' = row_start + SCREEN_WIDTH
  <2>1. current_row' = current_row + 1
    BY <1>0, <1>1, <1>3, Sizes DEF current_row, BOX_HEIGHT_COUNTER
  <2>2. row_start' = START + (current_row + 1) * SCREEN_WIDTH
    BY <2>1 DEF row_start, START
  <2> QED BY <2>1, <2>2, InRow
<1>6. current_column' = 0 /\ advance' = 0
  BY <1>4 DEF current_column, advance
<1>7. LoadedInv'
  BY <1>0, <1>1, <1>3, <1>4, InRow
  DEF LoadedInv, PIXEL_VALUE, BOX_WIDTH_COUNTER
<1>8. LoopInv'
  BY <1>0, <1>1, <1>2, <1>3, <1>4, <1>5, <1>6, InRow, Sizes
  DEF LoopInv, PIXEL_POSITION, BOX_WIDTH_COUNTER, BOX_HEIGHT_COUNTER
<1>9. PictureInv'
  <2>1. drawn_so_far' = drawn_so_far
    BY <1>0, <1>4, <1>5, <1>6, InRow, RowDrawn DEF drawn_so_far
  <2> QED BY <1>2, <1>4, <2>1, Unfolded, PictureKept
<1>10. steps_on
  BY <1>0, <1>1, <1>3, <1>4, RowsInRow
  DEF steps_on, instructions_left, HCF_ADDRESS, BOX_HEIGHT_COUNTER
<1> QED BY <1>4, <1>7, <1>8, <1>9, <1>10, RowKept

(* The branch at the end of a column: one pixel more, or the next row. *)
LEMMA Step16 ==
  ASSUME Stepping, isa_PC = 16
  PROVE  ProgramInv' /\ steps_on
<1>0. /\ cpu.registers[4] \in 0 .. BOX_WIDTH - 1
      /\ cpu.registers[4] \in 0 .. GRAPHICS_REGION_SIZE
      /\ cpu.CCR = condition_code_bits(cpu.registers[4])
      /\ current_column = BOX_WIDTH - cpu.registers[4]
      /\ advance = current_column
  BY Unfolded, Sizes
  DEF LoopInv, current_column, advance, BOX_WIDTH_COUNTER
<1>1. /\ goes_to(IF "POSITIVE" \in cpu.CCR THEN 13 ELSE 17)
      /\ keeps_registers /\ keeps_CCR /\ keeps_picture
  <2>1. holds(isa_PC, BRP(-4)) BY Instructions1
  <2>2. -4 \in Int /\ fits(-4, 23) /\ isa_PC + 1 + (-4) = 13 /\ 13 \in Word
        /\ isa_PC + 1 = 17
    BY NumbersFit, Addresses DEF Word
  <2> QED BY <2>1, <2>2, Unfolded, BranchStep
<1>2. cpu'.registers = cpu.registers BY <1>1 DEF keeps_registers
<1>3. current_row' = current_row /\ row_start' = row_start
  BY <1>2, SameRow
<1>4. CASE cpu.registers[4] > 0
  <2>1. goes_to(13) BY <1>0, <1>1, <1>4, PositiveCode
  <2>2. ControlInv' /\ isa_PC' = 13
    BY <2>1, <1>2, InRow, Unfolded, FewInstructions, ControlKept
  <2>3. current_column' = current_column /\ advance' = advance
    BY <1>0, <1>2, <2>2 DEF current_column, advance, BOX_WIDTH_COUNTER
  <2>4. LoadedInv' BY <1>2, <2>2, InRow DEF LoadedInv, PIXEL_VALUE
  <2>5. current_column >= first_drawn_column(current_row)
    BY <1>0, InRow, Sizes DEF first_drawn_column
  <2>6. (current_column >= first_drawn_column(current_row))'
    BY <1>3, <2>3, <2>5
  <2>7. LoopInv'
    BY <1>0, <1>2, <1>3, <1>4, <2>2, <2>3, <2>6, InRow, Sizes
    DEF LoopInv, PIXEL_POSITION, BOX_WIDTH_COUNTER, BOX_HEIGHT_COUNTER
  <2>8. drawn_so_far' = drawn_so_far
    BY <1>3, <2>2, <2>3 DEF drawn_so_far
  <2>9. PictureInv' BY <1>1, <2>2, <2>8, Unfolded, PictureKept
  <2>10. steps_on
    BY <1>0, <1>2, <2>2, RowsInRow, Sizes
    DEF steps_on, instructions_left, HCF_ADDRESS, BOX_WIDTH_COUNTER,
        BOX_HEIGHT_COUNTER
  <2> QED BY <2>2, <2>4, <2>7, <2>9, <2>10, RowKept
<1>5. CASE cpu.registers[4] = 0
  <2>1. goes_to(17) BY <1>0, <1>1, <1>5, PositiveCode
  <2>2. ControlInv' /\ isa_PC' = 17
    BY <2>1, <1>2, InRow, Unfolded, FewInstructions, ControlKept
  <2>3. current_column' = current_column /\ advance' = advance
    BY <1>0, <1>2, <2>2 DEF current_column, advance, BOX_WIDTH_COUNTER
  <2>4. LoadedInv' BY <1>2, <2>2, InRow DEF LoadedInv, PIXEL_VALUE
  <2>5. LoopInv'
    BY <1>0, <1>2, <1>3, <1>5, <2>2, <2>3, InRow, Sizes
    DEF LoopInv, PIXEL_POSITION, BOX_WIDTH_COUNTER, BOX_HEIGHT_COUNTER
  <2>6. drawn_so_far' = drawn_so_far
    BY <1>3, <2>2, <2>3 DEF drawn_so_far
  <2>7. PictureInv' BY <1>1, <2>2, <2>6, Unfolded, PictureKept
  <2>8. steps_on
    BY <1>2, <1>5, <2>2, RowsInRow
    DEF steps_on, instructions_left, HCF_ADDRESS, BOX_WIDTH_COUNTER,
        BOX_HEIGHT_COUNTER
  <2> QED BY <2>2, <2>4, <2>5, <2>7, <2>8, RowKept
<1> QED BY <1>0, <1>4, <1>5, Sizes

(* The branch at the end of a row leads past the store: the next row's first
   pixel is left out. *)
LEMMA Step21 ==
  ASSUME Stepping, isa_PC = 21
  PROVE  ProgramInv' /\ steps_on
<1>0. /\ cpu.registers[1] = row_start + advance
      /\ cpu.registers[2] = WHITE /\ cpu.registers[30] = 2
      /\ cpu.registers[4] = BOX_WIDTH
      /\ cpu.registers[5] \in 0 .. BOX_HEIGHT - 1
      /\ cpu.registers[5] \in 0 .. GRAPHICS_REGION_SIZE
      /\ cpu.CCR = condition_code_bits(cpu.registers[5])
  <2>1. /\ cpu.registers[2] = WHITE /\ cpu.registers[30] = 2
        /\ cpu.registers[4] = BOX_WIDTH
    BY Unfolded
    DEF LoadedInv, ControlInv, LINK_REGISTER, PIXEL_VALUE, BOX_WIDTH_COUNTER
  <2>2. /\ cpu.registers[1] = row_start + advance
        /\ cpu.registers[5] \in 0 .. BOX_HEIGHT - 1
        /\ cpu.CCR = condition_code_bits(cpu.registers[5])
    BY Unfolded DEF LoopInv, PIXEL_POSITION, BOX_HEIGHT_COUNTER
  <2> QED BY <2>1, <2>2, Sizes
<1>1. advance = 0 /\ current_column = 0
      /\ current_row = BOX_HEIGHT - cpu.registers[5]
  BY DEF advance, current_column, current_row, BOX_HEIGHT_COUNTER
<1>2. /\ goes_to(IF "POSITIVE" \in cpu.CCR THEN 14 ELSE 22)
      /\ keeps_registers /\ keeps_CCR /\ keeps_picture
  <2>1. holds(isa_PC, BRP(-8)) BY Instructions1
  <2>2. -8 \in Int /\ fits(-8, 23) /\ isa_PC + 1 + (-8) = 14 /\ 14 \in Word
        /\ isa_PC + 1 = 22
    BY NumbersFit, Addresses DEF Word
  <2> QED BY <2>1, <2>2, Unfolded, BranchStep
<1>3. cpu'.registers = cpu.registers BY <1>2 DEF keeps_registers
<1>4. current_row' = current_row /\ row_start' = row_start
  BY <1>3, SameRow
<1>5. drawn_so_far = drawn_before(current_row, 0)
  BY <1>1 DEF drawn_so_far
<1>6. CASE cpu.registers[5] > 0
  <2>1. goes_to(14) BY <1>0, <1>2, <1>6, PositiveCode
  <2>2. ControlInv' /\ isa_PC' = 14
    BY <2>1, <1>0, <1>3, Unfolded, FewInstructions, ControlKept
  <2>3. current_column' = 1 /\ advance' = 0
    BY <1>0, <1>3, <2>2, Sizes DEF current_column, advance, BOX_WIDTH_COUNTER
  <2>4. LoadedInv' BY <1>0, <1>3, <2>2 DEF LoadedInv, PIXEL_VALUE
  <2>5. LoopInv'
    BY <1>0, <1>1, <1>3, <1>4, <1>6, <2>2, <2>3, Sizes
    DEF LoopInv, PIXEL_POSITION, BOX_WIDTH_COUNTER, BOX_HEIGHT_COUNTER
  <2>6. drawn_so_far' = drawn_so_far
    <3>1. current_row \in 1 .. BOX_HEIGHT BY <1>0, <1>1, Sizes
    <3>2. drawn_before(current_row, 0) = drawn_before(current_row, 1)
      BY <3>1, ColumnSkipped
    <3> QED BY <1>4, <1>5, <2>2, <2>3, <3>2 DEF drawn_so_far
  <2>7. PictureInv' BY <1>2, <2>2, <2>6, Unfolded, PictureKept
  <2>8. steps_on
    <3>1. cpu.registers[5] \in 1 .. BOX_HEIGHT BY <1>0, <1>6, Sizes
    <3>2. /\ rows(cpu.registers[5]) =
               rows(cpu.registers[5] - 1) + (4 * BOX_WIDTH + 5)
          /\ rows(cpu.registers[5] - 1) \in Nat
      BY <3>1, RowBegun
    <3> QED
      BY <1>0, <1>3, <2>2, <3>2, Sizes
      DEF steps_on, instructions_left, HCF_ADDRESS, BOX_WIDTH_COUNTER,
        BOX_HEIGHT_COUNTER
  <2> QED BY <2>2, <2>4, <2>5, <2>7, <2>8, RowKept
<1>7. CASE cpu.registers[5] = 0
  <2>1. goes_to(22) BY <1>0, <1>2, <1>7, PositiveCode
  <2>2. ControlInv' /\ isa_PC' = 22
    BY <2>1, <1>0, <1>3, Unfolded, FewInstructions, ControlKept
  <2>3. LoadedInv' /\ LoopInv' BY <2>2 DEF LoadedInv, LoopInv
  <2>4. current_row' = BOX_HEIGHT /\ current_column' = 0
    BY <1>1, <1>4, <1>7, <2>2, Sizes DEF current_column
  <2>5. drawn_so_far' = drawn_so_far
    BY <1>4, <1>5, <2>2, <2>4 DEF drawn_so_far
  <2>6. PictureInv' BY <1>2, <2>2, <2>4, <2>5, Unfolded, PictureKept
  <2>7. steps_on
    <3>1. rows(0) = 0 BY Sizes DEF rows
    <3> QED
      BY <1>7, <2>2, <3>1
      DEF steps_on, instructions_left, HCF_ADDRESS, BOX_HEIGHT_COUNTER
  <2> QED BY <2>2, <2>3, <2>6, <2>7, RowKept
<1> QED BY <1>0, <1>6, <1>7, Sizes

LEMMA Step22 ==
  ASSUME Stepping, isa_PC = 22
  PROVE  ProgramInv' /\ steps_on
<1>0. cpu.registers[30] = 2 BY Unfolded DEF ControlInv, LINK_REGISTER
<1>1. goes_to(2) /\ keeps_registers /\ keeps_picture
  <2>1. holds(isa_PC, RETURN) BY Instructions1
  <2> QED BY <1>0, <2>1, Unfolded, ReturnStep DEF LINK_REGISTER
<1>2. cpu'.registers[5] = cpu.registers[5] BY <1>1 DEF keeps_registers
<1>3. ControlInv' /\ isa_PC' = 2
  BY <1>1, Unfolded, FewInstructions, ControlKept
<1>4. LoadedInv' /\ LoopInv' BY <1>3 DEF LoadedInv, LoopInv
<1>5. PictureInv'
  <2>1. current_row' = current_row /\ current_row = BOX_HEIGHT
    BY <1>2, Unfolded DEF PictureInv, current_row, BOX_HEIGHT_COUNTER
  <2>2. drawn_so_far' = drawn_so_far
    BY <1>3, <2>1 DEF drawn_so_far, current_column
  <2> QED BY <1>1, <1>3, <2>1, <2>2, Unfolded, PictureKept
<1>6. steps_on
  BY <1>3 DEF steps_on, instructions_left, HCF_ADDRESS
<1> QED BY <1>3, <1>4, <1>5, <1>6 DEF ProgramInv

LEMMA InstructionKeepsProgram ==
  ASSUME Stepping
  PROVE  ProgramInv' /\ steps_on
<1>1. isa_PC \in (0 .. 3) \cup (9 .. 22) BY Unfolded, Addresses
<1>2. \/ isa_PC = 0 \/ isa_PC = 1 \/ isa_PC = 2 \/ isa_PC = 3
      \/ isa_PC = 9 \/ isa_PC = 10 \/ isa_PC = 11 \/ isa_PC = 12
      \/ isa_PC = 13 \/ isa_PC = 14 \/ isa_PC = 15 \/ isa_PC = 16
      \/ isa_PC = 17 \/ isa_PC = 18 \/ isa_PC = 19 \/ isa_PC = 20
      \/ isa_PC = 21 \/ isa_PC = 22
  BY <1>1
<1> QED
  BY <1>2, Step0, Step1, Step2, Step3, Step9, Step10, Step11, Step12, Step13,
     Step14, Step15, Step16, Step17, Step18, Step19, Step20, Step21, Step22

-----------------------------------------------------------------------------
(* The program runs undisturbed: the requests of devices end it between two
   instructions, and no read of it leaves the memory. *)

(* The loads' operands are the program's data. *)
LEMMA LoadsData ==
  ASSUME ControlInv, isa_PC \in {0, 9, 10, 11, 12}
  PROVE  /\ Decode[isa_PC].opcode = "LOAD"
         /\ I!operand_address(Decode[isa_PC]) \in DataAddress
<1>1. CASE isa_PC = 0
  <2>1. 4 \in DataAddress /\ 3 \in Int /\ fits(3, 21)
    BY NumbersFit DEF DataAddress
  <2>2. holds(isa_PC, LOAD(0, 3)) BY <1>1, Instructions0 DEF R0
  <2> QED BY <1>1, <2>1, <2>2, LoadAddress
<1>2. CASE isa_PC = 9
  <2>1. 7 \in DataAddress /\ -3 \in Int /\ fits(-3, 21)
        /\ 7 = isa_PC + 1 + (-3)
    BY <1>2, NumbersFit DEF DataAddress
  <2>2. holds(isa_PC, LOAD(1, -3)) BY <1>2, Instructions0 DEF PIXEL_POSITION
  <2> QED BY <2>1, <2>2, LoadAddress
<1>3. CASE isa_PC = 10
  <2>1. 8 \in DataAddress /\ -3 \in Int /\ fits(-3, 21)
        /\ 8 = isa_PC + 1 + (-3)
    BY <1>3, NumbersFit DEF DataAddress
  <2>2. holds(isa_PC, LOAD(2, -3)) BY <1>3, Instructions0 DEF PIXEL_VALUE
  <2> QED BY <2>1, <2>2, LoadAddress
<1>4. CASE isa_PC = 11
  <2>1. 5 \in DataAddress /\ -7 \in Int /\ fits(-7, 21)
        /\ 5 = isa_PC + 1 + (-7)
    BY <1>4, NumbersFit DEF DataAddress
  <2>2. holds(isa_PC, LOAD(4, -7)) BY <1>4, Instructions0 DEF BOX_WIDTH_COUNTER
  <2> QED BY <2>1, <2>2, LoadAddress
<1>5. CASE isa_PC = 12
  <2>1. 6 \in DataAddress /\ -7 \in Int /\ fits(-7, 21)
        /\ 6 = isa_PC + 1 + (-7)
    BY <1>5, NumbersFit DEF DataAddress
  <2>2. holds(isa_PC, LOAD(5, -7)) BY <1>5, Instructions0 DEF BOX_HEIGHT_COUNTER
  <2> QED BY <2>1, <2>2, LoadAddress
<1> QED BY <1>1, <1>2, <1>3, <1>4, <1>5

(* No other instruction of the program reads, and only one stores. *)
LEMMA OtherOpcodes ==
  ASSUME ControlInv, isa_PC \notin {0, 9, 10, 11, 12}
  PROVE  /\ Decode[isa_PC].opcode \in {"CALL", "OR", "JUMP", "STORER", "ADD",
                                       "BRANCH", "JUMPR"}
         /\ Decode[isa_PC].opcode = "STORER" => isa_PC = 13
<1>1. isa_PC = 1 => Decode[isa_PC].opcode = "CALL"
  <2>1. 7 \in Int /\ fits(7, 26) BY NumbersFit
  <2> QED BY AtAddress, <2>1, Instructions0, DecodedCall
<1>2. isa_PC = 2 => Decode[isa_PC].opcode = "OR"
  BY AtAddress, Instructions0, DecodedNop DEF R0
<1>3. isa_PC = 3 => Decode[isa_PC].opcode = "JUMP"
  <2>1. -1 \in Int /\ fits(-1, 26) BY NumbersFit
  <2> QED BY AtAddress, <2>1, Instructions0, DecodedJump
<1>4. isa_PC = 13 => Decode[isa_PC].opcode = "STORER"
  <2>1. ASSUME NEW reg \in 0 .. 31, NEW base \in 0 .. 31,
               holds(isa_PC, STORER(reg, base, GRAPHICS_REGION_START))
        PROVE  Decode[isa_PC].opcode = "STORER"
    <3>1. GRAPHICS_REGION_START \in Int /\ fits(GRAPHICS_REGION_START, 16)
      BY NumbersFit, Addresses
    <3>2. isa_PC \in Word BY AtAddress
    <3> QED BY <2>1, <3>1, <3>2, DecodedStore, Zenon
  <2>2. holds(13, STORER(2, 1, GRAPHICS_REGION_START))
    BY Instructions1 DEF PIXEL_VALUE, PIXEL_POSITION
  <2> QED BY <2>1, <2>2
<1>5. isa_PC \in {14, 15, 17, 18, 19, 20} => Decode[isa_PC].opcode = "ADD"
  <2>1. /\ 1 \in Int /\ -1 \in Int /\ BOX_WIDTH \in Int /\ -BOX_WIDTH \in Int
        /\ SCREEN_WIDTH \in Int
        /\ fits(1, 15) /\ fits(-1, 15) /\ fits(BOX_WIDTH, 15)
        /\ fits(-BOX_WIDTH, 15) /\ fits(SCREEN_WIDTH, 15)
    BY NumbersFit, Sizes
  <2>2. \A dest \in 0 .. 31, n \in Int :
          fits(n, 15) /\ holds(isa_PC, ADD_IMMEDIATE(dest, dest, n)) =>
            Decode[isa_PC].opcode = "ADD"
    BY AtAddress, DecodedAdd, Zenon
  <2>3. /\ holds(14, ADD_IMMEDIATE(1, 1, 1))
        /\ holds(15, ADD_IMMEDIATE(4, 4, -1))
        /\ holds(17, ADD_IMMEDIATE(4, 4, BOX_WIDTH))
        /\ holds(18, ADD_IMMEDIATE(1, 1, SCREEN_WIDTH))
        /\ holds(19, ADD_IMMEDIATE(1, 1, -BOX_WIDTH))
        /\ holds(20, ADD_IMMEDIATE(5, 5, -1))
    BY Instructions1
    DEF PIXEL_POSITION, BOX_WIDTH_COUNTER, BOX_HEIGHT_COUNTER
  <2>4. CASE isa_PC = 14 BY <2>1, <2>2, <2>3, <2>4
  <2>5. CASE isa_PC = 15 BY <2>1, <2>2, <2>3, <2>5
  <2>6. CASE isa_PC = 17 BY <2>1, <2>2, <2>3, <2>6
  <2>7. CASE isa_PC = 18 BY <2>1, <2>2, <2>3, <2>7
  <2>8. CASE isa_PC = 19 BY <2>1, <2>2, <2>3, <2>8
  <2>9. CASE isa_PC = 20 BY <2>1, <2>2, <2>3, <2>9
  <2> QED BY <2>4, <2>5, <2>6, <2>7, <2>8, <2>9
<1>6. isa_PC \in {16, 21} => Decode[isa_PC].opcode = "BRANCH"
  <2>1. -4 \in Int /\ -8 \in Int /\ fits(-4, 23) /\ fits(-8, 23)
    BY NumbersFit
  <2> QED BY AtAddress, <2>1, Instructions1, DecodedBranch
<1>7. isa_PC = 22 => Decode[isa_PC].opcode = "JUMPR"
  BY AtAddress, Instructions1, DecodedReturn
<1>8. isa_PC \in (0 .. 3) \cup (9 .. 22) BY AtAddress, Addresses
<1> QED BY <1>1, <1>2, <1>3, <1>4, <1>5, <1>6, <1>7, <1>8

LEMMA NoReadCrashes ==
  ASSUME ProgramInv
  PROVE  ~I!read_crashes
<1> SUFFICES ASSUME I!read_crashes PROVE FALSE
  OBVIOUS
<1>1. ControlInv /\ system_memory \in DriverPrograms
  BY DEF ProgramInv, ControlInv
<1>2. isa_PC \in InstructionAddress /\ isa_PC \in Location
      /\ DeviceAt(isa_PC) = "MEMORY_SELECTED"
  BY <1>1, AtAddress, Addresses
<1>3. ~I!past_the_array(isa_PC) BY <1>2, SameMap DEF I!past_the_array
<1>4. \A word : I!Reads(isa_PC, word) => word = isa_PC
  BY <1>1, <1>2, Loaded, ReadsMeaning
<1>5. /\ Decode[isa_PC].opcode \in {"LOAD", "LOADR"}
      /\ I!past_the_array(I!operand_address(Decode[isa_PC]))
  BY <1>3, <1>4 DEF I!read_crashes
<1>6. isa_PC \in {0, 9, 10, 11, 12} BY <1>1, <1>5, OtherOpcodes
<1>7. I!operand_address(Decode[isa_PC]) \in Location
  BY <1>1, <1>6, LoadsData, Addresses
<1> QED BY <1>5, <1>7, SameMap DEF I!past_the_array

LEMMA StepProgram ==
  ASSUME TypeOK, ProgramInv, [I!Next]_(I!vars)
  PROVE  ProgramInv'
<1>1. Machine
  BY DriverFits
  DEF TypeOK, CpuTypeOK, CpuState, Machine, DriverFits
<1>2. CASE I!instruction
  <2>1. Stepping BY <1>1, <1>2 DEF Stepping, Executes, ProgramInv
  <2> QED BY <2>1, InstructionKeepsProgram
<1>3. ASSUME UNCHANGED <<cpu.registers, isa_PC, cpu.CCR, system_memory,
                         frame_buffer>>,
             isa_process' \in {"running", "exited"}
      PROVE  ProgramInv'
  <2>1. ControlInv' BY <1>3 DEF ProgramInv, ControlInv
  <2>2. LoadedInv' BY <1>3 DEF ProgramInv, LoadedInv
  <2>3. /\ current_row' = current_row /\ current_column' = current_column
        /\ row_start' = row_start /\ advance' = advance
    BY <1>3 DEF current_row, current_column, row_start, advance
  <2>4. LoopInv' BY <1>3, <2>3 DEF ProgramInv, LoopInv
  <2>5. drawn_so_far' = drawn_so_far BY <1>3, <2>3 DEF drawn_so_far
  <2>6. PictureInv'
    BY <1>3, <2>3, <2>5, PictureKept DEF ProgramInv, PictureInv, keeps_picture
  <2> QED BY <2>1, <2>2, <2>4, <2>6 DEF ProgramInv
<1>4. isa_process \in {"running", "exited"} BY DEF ProgramInv, ControlInv
<1>5. CASE I!device_requests BY <1>3, <1>4, <1>5 DEF I!device_requests
<1>6. CASE I!takes_interrupt BY <1>3, <1>6 DEF I!takes_interrupt
<1>7. CASE I!read_crashes BY <1>7, NoReadCrashes
<1>8. CASE UNCHANGED I!vars BY <1>3, <1>4, <1>8 DEF I!vars
<1> QED BY <1>2, <1>5, <1>6, <1>7, <1>8 DEF I!Next

LEMMA InitialProgram == Init /\ I!Init => ProgramInv
<1> SUFFICES ASSUME Init, I!Init PROVE ProgramInv
  OBVIOUS
<1>1. /\ isa_PC = 0 /\ frame_buffer = [p \in Pixel |-> 0]
      /\ isa_process = "running" /\ system_memory \in DriverPrograms
  BY SameMap, DriverFits DEF I!Init, Init, DriverFits
<1>2. ControlInv BY <1>1, FewInstructions DEF ControlInv
<1>3. LoadedInv /\ LoopInv BY <1>1 DEF LoadedInv, LoopInv
<1>4. PictureInv
  <2>1. drawn_so_far = {} BY <1>1 DEF drawn_so_far
  <2> QED BY <1>1, <2>1 DEF PictureInv, picture
<1> QED BY <1>2, <1>3, <1>4 DEF ProgramInv

(* The driver's program counts its way through the box, for every screen and
   every box that fits it: what its registers and the frame buffer hold at each
   of its instructions (main.c:31, main.c:89). *)
THEOREM ProgramCorrect == Spec => []ProgramInv
<1>1. Spec => []TypeOK
  <2>1. IInv => TypeOK BY DEF IInv
  <2> QED BY <2>1, InductiveInvariant, PTL
<1>2. Init /\ I!Init => ProgramInv BY InitialProgram
<1>3. TypeOK /\ ProgramInv /\ [I!Next]_(I!vars) => ProgramInv'
  BY StepProgram
<1>4. Spec => Init BY DEF Spec
<1>5. Spec => I!Init /\ [][I!Next]_(I!vars)
  BY ImplementsIsa DEF RefinesIsa
<1> QED BY <1>1, <1>2, <1>3, <1>4, <1>5, PTL

(* In DECODE the word in flight is the one MAR addresses. *)
LEMMA DecodeAddress ==
  ASSUME IInv, pipeline_stage = "DECODE"
  PROVE  isa_PC = cpu.MAR
<1>1. cpu.MAR \in Word BY DEF IInv, TypeOK, CpuTypeOK, CpuState
<1>2. cpu.PC = Add(cpu.MAR, 1) BY DEF IInv, PipelineInv
<1>3. isa_PC = Subtract(cpu.PC, 1)
  BY DEF isa_PC, in_flight, store_answered, store_in_progress
<1> QED BY <1>1, <1>2, <1>3, Incremented

(* No offset of the program leads the CPU to its data or past its end
   (main.c:31). *)
THEOREM RunsInstructions == Spec => []OnlyInstructionsRun
<1>1. IInv /\ ProgramInv => OnlyInstructionsRun
  BY DecodeAddress DEF ProgramInv, ControlInv, OnlyInstructionsRun
<1> QED BY <1>1, InductiveInvariant, ProgramCorrect, PTL

LEMMA WhiteShows == WHITE # 0
BY SmallWords, WordAssumption DEF WHITE, Word, WordAssumption

LEMMA PictureDrawn ==
  ASSUME PictureInv
  PROVE  drawn = drawn_so_far \cap Pixel
BY WhiteShows DEF PictureInv, picture, drawn

LEMMA DrawnInBox ==
  ASSUME NEW row, NEW column
  PROVE  drawn_before(row, column) \subseteq Box
<1> SUFFICES ASSUME NEW p \in drawn_before(row, column) PROVE p \in Box
  OBVIOUS
<1>1. PICK i \in 0 .. BOX_HEIGHT - 1 :
        \E j \in first_drawn_column(i) .. BOX_WIDTH - 1 :
          p = STARTING_POSITION_IN_FRAME_BUFFER + i * SCREEN_WIDTH + j
  BY DEF drawn_before
<1>2. PICK j \in 0 .. BOX_WIDTH - 1 :
        p = STARTING_POSITION_IN_FRAME_BUFFER + i * SCREEN_WIDTH + j
  BY <1>1, Sizes DEF first_drawn_column
<1> QED BY <1>2 DEF Box

(* The stores stay in the box, and store white (main.c:89). *)
THEOREM StaysInsideBox == Spec => []DrawsInsideBox
<1>1. ProgramInv => DrawsInsideBox
  <2> SUFFICES ASSUME ProgramInv PROVE DrawsInsideBox
    OBVIOUS
  <2>1. PictureInv BY DEF ProgramInv
  <2>2. drawn \subseteq Box
    BY <2>1, PictureDrawn, DrawnInBox DEF drawn_so_far
  <2>3. \A p \in Pixel : frame_buffer[p] # 0 <=> frame_buffer[p] = WHITE
    BY <2>1, WhiteShows DEF PictureInv, picture
  <2> QED BY <2>2, <2>3 DEF DrawsInsideBox, drawn
<1> QED BY <1>1, ProgramCorrect, PTL

(* The halted program has drawn exactly the first row and, of the others, all
   but the first column (main.c:97). *)
THEOREM HaltsWithPicture == Spec => []PictureAtHalt
<1>1. IInv /\ ProgramInv => PictureAtHalt
  <2> SUFFICES ASSUME IInv, ProgramInv, halted
               PROVE  drawn = drawn_before(BOX_HEIGHT, 0)
    BY DEF PictureAtHalt
  <2>1. isa_PC = 3 BY DecodeAddress DEF halted, HCF_ADDRESS
  <2>2. PictureInv BY DEF ProgramInv
  <2>3. current_row = BOX_HEIGHT /\ current_column = 0
    BY <2>1, <2>2 DEF PictureInv, current_column
  <2>4. drawn_so_far = drawn_before(BOX_HEIGHT, 0)
    BY <2>1, <2>3 DEF drawn_so_far
  <2>5. drawn_before(BOX_HEIGHT, 0) \subseteq Pixel BY DEF drawn_before
  <2> QED BY <2>2, <2>4, <2>5, PictureDrawn
<1> QED BY <1>1, InductiveInvariant, ProgramCorrect, PTL
-----------------------------------------------------------------------------
(* The program is at HCF before the timer overflows. *)

(* Short of HCF there is an instruction left. *)
LEMMA InstructionsLeft ==
  ProgramInv => /\ instructions_left \in Nat
                /\ isa_PC # HCF_ADDRESS => instructions_left >= 1
<1> SUFFICES ASSUME ProgramInv
             PROVE  /\ instructions_left \in Nat
                    /\ isa_PC # HCF_ADDRESS => instructions_left >= 1
  OBVIOUS
<1>1. isa_PC \in (0 .. 3) \cup (9 .. 22)
  BY AtAddress, Addresses DEF ProgramInv
<1>2. CASE isa_PC \in (0 .. 3) \cup (9 .. 12) \cup {22}
  BY <1>2, AllRows DEF instructions_left, HCF_ADDRESS
<1>3. CASE isa_PC \in 13 .. 20
  <2>1. /\ cpu.registers[4] \in Nat
        /\ rows(cpu.registers[5] - 1) \in Nat
    BY <1>3, PlaceInRow, RowBegun, Sizes
  <2> QED
    BY <1>3, <2>1
    DEF instructions_left, HCF_ADDRESS, BOX_WIDTH_COUNTER, BOX_HEIGHT_COUNTER
<1>4. CASE isa_PC = 21
  <2>1. cpu.registers[5] \in 0 .. BOX_HEIGHT - 1
    BY <1>4 DEF ProgramInv, LoopInv, BOX_HEIGHT_COUNTER
  <2>2. PICK n \in 1 .. BOX_HEIGHT : n - 1 = cpu.registers[5]
    <3>1. cpu.registers[5] + 1 \in 1 .. BOX_HEIGHT
          /\ (cpu.registers[5] + 1) - 1 = cpu.registers[5]
      BY <2>1, Sizes
    <3> QED BY <3>1
  <2>3. rows(n - 1) \in Nat BY RowBegun
  <2> QED
    BY <1>4, <2>2, <2>3 DEF instructions_left, HCF_ADDRESS, BOX_HEIGHT_COUNTER
<1> QED BY <1>1, <1>2, <1>3, <1>4

(* One that is begun is not counted. *)
LEMMA InstructionsAfter ==
  ProgramInv => /\ begun => instructions_after = instructions_left - 1
                /\ ~begun => instructions_after = instructions_left
BY InstructionsLeft DEF instructions_after

LEMMA InstructionsNext ==
  ASSUME ProgramInv'
  PROVE  /\ instructions_left' \in Nat
         /\ begun' => instructions_after' = instructions_left' - 1
         /\ ~begun' => instructions_after' = instructions_left'
<1>1. (ProgramInv => /\ instructions_left \in Nat
                     /\ isa_PC # HCF_ADDRESS => instructions_left >= 1)'
  BY InstructionsLeft, PTL
<1>2. (ProgramInv => /\ begun => instructions_after = instructions_left - 1
                     /\ ~begun => instructions_after = instructions_left)'
  BY InstructionsAfter, PTL
<1> QED BY <1>1, <1>2

(* An instruction less is a longest instruction's cycles less. *)
LEMMA CycleCount ==
  ASSUME NEW m \in Int, NEW n \in Int
  PROVE  /\ cycles(m) \in Int /\ cycles(n) \in Int
         /\ m <= n => cycles(m) <= cycles(n)
         /\ m <= n - 1 => cycles(m) <= cycles(n) - (MAX_LATENCY + 1)
         /\ 0 <= n => 0 <= cycles(n)
<1> DEFINE most == MAX_LATENCY + 1
<1>1. most \in Nat BY MemoryAssumption DEF MemoryAssumption, MAX_LATENCY
<1>2. cycles(m) = m * most /\ cycles(n) = n * most BY DEF cycles
<1> HIDE DEF most
<1>3. /\ m * most \in Int /\ n * most \in Int
      /\ n * most = m * most + (n - m) * most
      /\ (n - m) * most = (n - m - 1) * most + most
  BY <1>1
<1>4. ASSUME NEW k \in Nat PROVE k * most \in Nat BY <1>1
<1>5. m <= n => (n - m) * most \in Nat BY <1>4
<1>6. m <= n - 1 => (n - m - 1) * most \in Nat BY <1>4
<1>7. 0 <= n => n * most \in Nat BY <1>4
<1>8. m <= n - 1 => m * most <= n * most - most BY <1>1, <1>3, <1>6
<1>9. m <= n => m * most <= n * most BY <1>1, <1>3, <1>5
<1> QED BY <1>2, <1>3, <1>7, <1>8, <1>9 DEF most

(* No step leads back from HCF, and to begin an instruction is to have one
   less to come. *)
LEMMA StepAhead ==
  ASSUME IInv, InFlightInv, ProgramInv, ProgramInv', [Next]_vars
  PROVE  /\ isa_PC = HCF_ADDRESS => isa_PC' = HCF_ADDRESS
         /\ isa_PC' # HCF_ADDRESS =>
              /\ instructions_after' <= instructions_after
              /\ ~begun /\ begun' =>
                   instructions_after' <= instructions_after - 1
<1>1. instructions_left \in Nat /\ instructions_left' \in Nat
  BY InstructionsLeft, InstructionsNext
<1>0. /\ begun => instructions_after = instructions_left - 1
      /\ ~begun => instructions_after = instructions_left
      /\ begun' => instructions_after' = instructions_left' - 1
      /\ ~begun' => instructions_after' = instructions_left'
  BY InstructionsAfter, InstructionsNext
<1>2. [I!Next]_(I!vars) BY StepIsa
<1>3. CASE I!instruction
  <2>1. Machine
    BY DriverFits
    DEF IInv, TypeOK, CpuTypeOK, CpuState, Machine, DriverFits
  <2>2. steps_on
    BY <1>3, <2>1, InstructionKeepsProgram DEF Stepping, Executes, ProgramInv
  <2>3. CASE isa_PC = HCF_ADDRESS BY <2>2, <2>3 DEF steps_on
  <2>4. CASE isa_PC # HCF_ADDRESS
    <3>1. instructions_left' <= instructions_left - 1
      BY <2>2, <2>4 DEF steps_on
    <3> QED BY <1>0, <1>1, <2>4, <3>1
  <2> QED BY <2>3, <2>4
<1>4. CASE ~I!instruction
  <2>1. cpu'.registers = cpu.registers /\ isa_PC' = isa_PC
    BY <1>2, <1>4, NoReadCrashes
    DEF I!Next, I!vars, I!device_requests, I!takes_interrupt
  <2>2. instructions_left' = instructions_left
    BY <2>1 DEF instructions_left
  <2>3. begun => begun'
    <3>1. in_flight => in_flight' BY <1>4, InFlightUntilEffect
    <3>2. pipeline_stage = "FETCH1" => begun'
      <4>1. pipeline_stage = "FETCH1" =>
              pipeline_stage' \in {"FETCH1", "FETCH2"}
        BY DEF Next, computer_single_step, clock_cpu, cpu_cycle, interrupt,
               null_controller, fetch1, fetch2, decode, memory1, memory2,
               execute, clock_bus, clock_memory, clock_graphics, clock_timer,
               stopped, vars
      <4> QED
        BY <4>1 DEF begun, in_flight, store_answered, store_in_progress
    <3> QED BY <3>1, <3>2 DEF begun
  <2> QED BY <1>0, <1>1, <2>1, <2>2, <2>3
<1> QED BY <1>3, <1>4

(* The program's only store is to the frame buffer. *)
LEMMA StoreInPicture ==
  ASSUME ProgramInv, isa_PC = 13
  PROVE  DeviceAt(I!operand_address(Decode[isa_PC])) = "GRAPHICS_SELECTED"
<1>1. /\ advance = current_column
      /\ current_column \in 0 .. BOX_WIDTH - 1
  <2>1. current_column = BOX_WIDTH - cpu.registers[4]
    BY DEF current_column, BOX_WIDTH_COUNTER
  <2>2. cpu.registers[4] > 0 BY DEF ProgramInv, LoopInv, BOX_WIDTH_COUNTER
  <2> QED BY <2>1, <2>2, PlaceInRow, Sizes DEF advance
<1>2. PICK p \in Pixel : cpu.registers[1] = p
  <2>1. row_start + current_column \in 0 .. GRAPHICS_REGION_SIZE - 1
    BY <1>1, PlaceInRow, Sizes
  <2> QED BY <1>1, <2>1, PlaceInRow DEF Pixel
<1>3. holds(isa_PC, STORER(2, 1, GRAPHICS_REGION_START))
  BY Instructions1 DEF PIXEL_VALUE, PIXEL_POSITION
<1>4. I!operand_address(Decode[isa_PC]) = GRAPHICS_REGION_START + p
  <2>1. ControlInv /\ 1 \in 0 .. 31 /\ 2 \in 0 .. 31 BY DEF ProgramInv
  <2> QED BY <1>2, <1>3, <2>1, StoreAddress, Zenon
<1> QED BY <1>4, Addresses

(* The latched instruction is the program's at its address. *)
LEMMA LatchedInstruction ==
  ASSUME IInv, InFlightInv, ProgramInv, running,
         pipeline_stage \in {"MEMORY2", "EXECUTE"}, ~store_answered
  PROVE  /\ cpu.decoded = Decode[isa_PC]
         /\ pipeline_stage = "MEMORY2" =>
              cpu.MAR = I!operand_address(cpu.decoded)
<1>1. /\ I!Reads(isa_PC, cpu.IR) /\ Decode[cpu.IR] = cpu.decoded
      /\ I!next_PC = cpu.PC
  BY AboutToAct
<1>2. /\ isa_PC \in InstructionAddress /\ isa_PC \in 0 .. 22
      /\ isa_PC \in Location /\ system_memory \in DriverPrograms
  BY AtAddress, Addresses DEF ProgramInv, ControlInv
<1>3. cpu.IR = isa_PC BY <1>1, <1>2, Addresses, Loaded, ReadsMeaning
<1>4. ASSUME pipeline_stage = "MEMORY2"
      PROVE  cpu.MAR = I!operand_address(cpu.decoded)
  <2>1. /\ cpu.MAR = effective_address(cpu.decoded)
        /\ cpu.decoded.opcode \in {"LOAD", "LOADR", "STORE", "STORER"}
    BY <1>4 DEF InFlightInv, IInv, PipelineInv
  <2> QED
    BY <1>1, <2>1, SameMap
    DEF I!operand_address, I!pc_relative_address, I!base_plus_offset,
        effective_address, is_pc_relative_instruction
<1> QED BY <1>1, <1>3, <1>4

(* No access of the program goes to the keyboard, which never answers. *)
LEMMA NotOnKeyboard ==
  ASSUME IInv, InFlightInv, ProgramInv, running
  PROVE  ~on_keyboard
<1> SUFFICES ASSUME waiting PROVE DeviceAt(cpu.MAR) # "KEYBOARD_SELECTED"
  BY DEF on_keyboard
<1>0. ControlInv BY DEF ProgramInv
<1>1. CASE pipeline_stage = "FETCH2"
  <2>1. cpu.PC = Add(cpu.MAR, 1) /\ cpu.MAR \in Word
    BY <1>1 DEF IInv, PipelineInv, TypeOK, CpuTypeOK, CpuState
  <2>2. isa_PC = Subtract(cpu.PC, 1)
    BY <1>1 DEF isa_PC, in_flight, store_answered, store_in_progress
  <2>3. isa_PC = cpu.MAR BY <2>1, <2>2, Incremented
  <2>4. DeviceAt(isa_PC) = "MEMORY_SELECTED" BY <1>0, AtAddress, Addresses
  <2> QED BY <2>3, <2>4
<1>2. CASE pipeline_stage = "MEMORY2"
  <2>1. CASE store_answered
    BY <2>1 DEF store_answered, IInv, AnswerInv
  <2>2. CASE ~store_answered
    <3>1. /\ cpu.decoded = Decode[isa_PC]
          /\ cpu.MAR = I!operand_address(Decode[isa_PC])
          /\ cpu.decoded.opcode \in {"LOAD", "LOADR", "STORE", "STORER"}
      BY <1>2, <2>2, LatchedInstruction DEF IInv, PipelineInv
    <3>2. CASE isa_PC \in {0, 9, 10, 11, 12}
      <4>1. I!operand_address(Decode[isa_PC]) \in DataAddress
        BY <1>0, <3>2, LoadsData
      <4>2. \A l \in DataAddress : DeviceAt(l) = "MEMORY_SELECTED"
        BY Addresses DEF DataAddress
      <4> QED BY <3>1, <4>1, <4>2
    <3>3. CASE isa_PC \notin {0, 9, 10, 11, 12}
      <4>1. isa_PC = 13 BY <1>0, <3>1, <3>3, OtherOpcodes
      <4> QED BY <3>1, <4>1, StoreInPicture
    <3> QED BY <3>2, <3>3
  <2> QED BY <2>1, <2>2
<1> QED BY <1>1, <1>2 DEF waiting

(* While no device has asked for an interrupt nobody else does, and the CPU
   goes on to the next instruction. *)
LEMMA NoRequest ==
  ASSUME IInv, InFlightInv, ProgramInv, clock_cpu, interrupt_requests = << >>
  PROVE  /\ UNCHANGED <<interrupt_requests, process>>
         /\ pipeline_stage = "INTERRUPT" => pipeline_stage' = "FETCH1"
<1>0. running /\ ControlInv BY DEF clock_cpu, clocks, ProgramInv
<1>1. cpu.connected
  BY <1>0 DEF ControlInv, isa_process
<1>2. CASE interrupt
  <2>1. pipeline_stage' = "FETCH1" /\ UNCHANGED machine
    BY <1>2 DEF interrupt, interrupt_requested
  <2> QED BY <2>1 DEF machine
<1>3. CASE null_controller BY <1>1, <1>3 DEF null_controller
<1>4. CASE fetch1 \/ fetch2 \/ decode \/ memory1 \/ memory2
  BY <1>4 DEF fetch1, fetch2, decode, memory1, memory2, machine
<1>5. CASE execute
  <2>1. /\ operation /\ pipeline_stage = "EXECUTE" /\ UNCHANGED process
        /\ ~store_answered
    BY <1>5 DEF execute, store_answered, store_in_progress
  <2>2. cpu.decoded.opcode \notin {"TRAP", "RETURNI"}
    BY <1>0, <2>1, LatchedInstruction, LoadsData, OtherOpcodes
  <2>3. UNCHANGED interrupt_requests
    BY <2>1, <2>2
    DEF operation, cpu_and, cpu_or, cpu_not, cpu_xor, cpu_add, cpu_sub,
        ALU_result, cpu_load_pc_relative, cpu_load_base_plus_offset,
        cpu_load_effective_address, load_result, cpu_jump_pc_relative,
        cpu_jump_base_plus_offset, cpu_branch, cpu_call, cpu_callr,
        transfer, cpu_nop, cpu_swi, cpu_rfi, opcode_is
  <2> QED BY <2>1, <2>3
<1> QED BY <1>2, <1>3, <1>4, <1>5 DEF clock_cpu, cpu_cycle

(* Nothing ends the process but an interrupt that is taken. *)
LEMMA OnlyInterruptEnds ==
  ASSUME ProgramInv, ProgramInv', [Next]_vars, running, ~running'
  PROVE  /\ clock_cpu /\ pipeline_stage = "INTERRUPT"
         /\ pipeline_stage' = "INTERRUPT"
<1>1. process' = "exited"
  <2>1. isa_process' = process' BY DEF isa_process
  <2>2. isa_process' \in {"running", "exited"} BY DEF ProgramInv, ControlInv
  <2> QED BY <2>1, <2>2 DEF running
<1>2. clock_cpu
  BY <1>1
  DEF Next, computer_single_step, clock_bus, clock_memory, memory_cycle,
      memory_ignores, memory_waits, memory_writes, memory_reads,
      clock_graphics, clock_timer, stopped, vars, running
<1>3. interrupt /\ enter_interrupt_mode
  BY <1>1, <1>2
  DEF clock_cpu, cpu_cycle, interrupt, null_controller, fetch1, fetch2,
      decode, memory1, memory2, execute, machine, running
<1> QED BY <1>2, <1>3 DEF interrupt, enter_interrupt_mode

(* The cycles that the program still takes, as the deadline counts them. *)
LEMMA ProgramCycles ==
  ProgramInv => /\ instructions_after \in Int
                /\ isa_PC # HCF_ADDRESS => 0 <= cycles(instructions_after)
<1> SUFFICES ASSUME ProgramInv
             PROVE  /\ instructions_after \in Int
                    /\ isa_PC # HCF_ADDRESS => 0 <= cycles(instructions_after)
  OBVIOUS
<1>1. /\ instructions_after \in Int
      /\ isa_PC # HCF_ADDRESS => 0 <= instructions_after
  BY InstructionsLeft, InstructionsAfter
<1> QED BY <1>1, CycleCount

LEMMA ProgramCyclesNext ==
  ASSUME ProgramInv'
  PROVE  instructions_after' \in Int
<1>1. (ProgramInv => /\ instructions_after \in Int
                     /\ isa_PC # HCF_ADDRESS =>
                          0 <= cycles(instructions_after))'
  BY ProgramCycles, PTL
<1> QED BY <1>1

(* Short of HCF the timer's next tick does not overflow. *)
LEMMA NoOverflowYet ==
  ASSUME TimedInv, ProgramInv, DeadlineInv, clock_timer,
         ~overflowed, isa_PC # HCF_ADDRESS
  PROVE  /\ ~timer_overflows
         /\ timer'.timer_value <= timer.timer_value + 1
         /\ UNCHANGED interrupt_requests /\ ~overflowed'
<1>1. /\ timer.timer_value + cycles_left + cycles(instructions_after)
           < TIMER_VALUES - 1
  BY DEF DeadlineInv, clock_timer, clocks, device_to_come
<1>2. /\ timer.timer_value \in Nat /\ TIMER_VALUES \in Nat
      /\ cycles_left \in Nat /\ cycles(instructions_after) \in Nat
  <2>1. cycles(instructions_after) \in Nat
    <3>1. /\ instructions_after \in Int
          /\ 0 <= cycles(instructions_after)
      BY ProgramCycles
    <3>2. cycles(instructions_after) \in Int BY <3>1, CycleCount
    <3> QED BY <3>1, <3>2
  <2>2. cycles_left \in Nat BY CyclesBounded DEF TimedInv, IInv
  <2> QED
    BY <2>1, <2>2, TimerAssumption
    DEF TimedInv, IInv, TypeOK, TimerState, Count, TimerAssumption
<1>3. timer.timer_value < TIMER_VALUES - 1 BY <1>1, <1>2
<1>4. /\ tick(timer).timer_value = timer.timer_value + 1
      /\ tick(timer).control_bits = timer.control_bits
  BY <1>2, <1>3, PlainTick DEF TimedInv, IInv
<1>5. ~timer_overflows BY <1>2, <1>4 DEF timer_overflows
<1>6. timer' \in {timer, tick(timer)} /\ UNCHANGED interrupt_requests
  BY <1>5 DEF clock_timer, timer_cycle
<1> QED BY <1>2, <1>4, <1>5, <1>6 DEF overflowed

(* The flag is never taken back, and only the timer sets it. *)
LEMMA FlagStays ==
  ASSUME TimedInv, [Next]_vars
  PROVE  /\ overflowed => overflowed'
         /\ ~clock_timer => (overflowed' <=> overflowed)
<1>1. CASE clock_timer
  <2>1. tick(timer).control_bits = timer.control_bits
    BY PlainTick DEF TimedInv, IInv
  <2>2. timer \in TimerState /\ tick(timer) = count_up(timer)
    BY DEF TimedInv, IInv, TypeOK, tick, prescaling_enabled,
           MIN_PRESCALE_VALUE
  <2>3. timer'.control_bits \in
          {timer.control_bits,
           timer.control_bits \cup {"TIMER_INTERRUPT_FLAG"}}
    BY <1>1, <2>1, <2>2
    DEF clock_timer, timer_cycle, update_timer_overflow_status, count_up,
        TimerState
  <2> QED BY <1>1, <2>3 DEF overflowed
<1>2. CASE ~clock_timer
  BY <1>2
  DEF Next, computer_single_step, clock_cpu, clock_bus, clock_memory,
      clock_graphics, stopped, vars, overflowed
<1> QED BY <1>1, <1>2

(* The program gets on as fast as the timer does. *)
LEMMA StepAheadOfTimer ==
  ASSUME TimedInv, InFlightInv, ProgramInv, ProgramInv', DeadlineInv,
         [Next]_vars, ~overflowed', isa_PC' # HCF_ADDRESS
  PROVE  timer'.timer_value + cycles_left' + cycles(instructions_after')
           < IF phase' \in {"cpu", "returned"} \/ device_to_come'
             THEN TIMER_VALUES ELSE TIMER_VALUES - 1
<1>0. /\ IInv /\ ~overflowed /\ isa_PC # HCF_ADDRESS
      /\ interrupt_requests = << >> /\ running
  BY FlagStays, StepAhead DEF DeadlineInv, TimedInv
<1>1. timer.timer_value + cycles_left + cycles(instructions_after)
        < IF phase \in {"cpu", "returned"} \/ device_to_come
          THEN TIMER_VALUES ELSE TIMER_VALUES - 1
  BY <1>0 DEF DeadlineInv
<1>2. PICK before \in Int, after \in Int, most \in Int :
        /\ before = cycles(instructions_after)
        /\ after = cycles(instructions_after')
        /\ most = MAX_LATENCY
        /\ after <= before
        /\ ~begun /\ begun' => after <= before - (most + 1)
  <2>1. /\ instructions_after \in Int /\ instructions_after' \in Int
        /\ instructions_after' <= instructions_after
        /\ ~begun /\ begun' => instructions_after' <= instructions_after - 1
    BY <1>0, ProgramCycles, ProgramCyclesNext, StepAhead
  <2>2. MAX_LATENCY \in Int
    BY MemoryAssumption DEF MemoryAssumption, MAX_LATENCY
  <2> QED BY <2>1, <2>2, CycleCount
<1>3. /\ timer.timer_value \in Nat /\ TIMER_VALUES \in Nat
      /\ cycles_left \in Nat /\ cycles_left' \in Nat
  BY <1>0, CyclesBounded, CyclesNext, TimerAssumption
  DEF IInv, TypeOK, TimerState, Count, TimerAssumption
<1>4. CASE clock_cpu
  <2>0. phase = "cpu" /\ phase' = "bus" /\ UNCHANGED timer
    BY <1>4 DEF clock_cpu, clocks
  <2>1. CASE pipeline_stage = "INTERRUPT"
    <3>1. pipeline_stage' = "FETCH1" BY <1>0, <1>4, <2>1, NoRequest
    <3>2. ~begun /\ begun' BY <2>1, <3>1 DEF begun, in_flight
    <3>3. cycles_left = 0 /\ cycles_left' = most
      BY <1>2, <2>1, <3>1
      DEF cycles_left, stage_cycles, unanswered, waiting, MAX_LATENCY
    <3> QED BY <1>1, <1>2, <1>3, <2>0, <3>2, <3>3
  <2>2. CASE pipeline_stage # "INTERRUPT"
    <3>1. \/ cycles_left' <= cycles_left - 1
          \/ cycles_left' = cycles_left /\ device_to_come'
      BY <1>0, <1>4, <2>2, CpuProgress
    <3> QED BY <1>1, <1>2, <1>3, <2>0, <3>1
  <2> QED BY <2>1, <2>2
<1>5. CASE clock_bus \/ clock_memory \/ clock_graphics
  <2>1. ~on_keyboard BY <1>0, NotOnKeyboard
  <2>2. \/ cycles_left' <= cycles_left - 1 /\ device_to_come
        \/ cycles_left' = cycles_left /\ (device_to_come' <=> device_to_come)
    BY <1>0, <1>5, <2>1, DeviceProgress
  <2>3. /\ phase \in {"bus", "memory", "graphics"}
        /\ phase' \in {"memory", "graphics", "timer"} /\ UNCHANGED timer
    BY <1>5 DEF clock_bus, clock_memory, clock_graphics, clocks
  <2> QED BY <1>1, <1>2, <1>3, <2>2, <2>3
<1>6. CASE clock_timer
  <2>1. /\ cycles_left' = cycles_left /\ ~device_to_come
        /\ phase = "timer" /\ phase' \in {"cpu", "returned"}
    BY <1>6
    DEF clock_timer, clocks, cycles_left, stage_cycles, unanswered, waiting,
        device_to_come
  <2>2. timer'.timer_value <= timer.timer_value + 1
    BY <1>0, <1>6, NoOverflowYet
  <2>3. timer'.timer_value \in Nat
    BY StepInv DEF TimedInv, IInv, TypeOK, TimerState, Count
  <2> QED BY <1>1, <1>2, <1>3, <2>1, <2>2, <2>3
<1>7. CASE computer_single_step
  <2>1. /\ cycles_left' = cycles_left /\ UNCHANGED timer
        /\ phase = "returned" /\ phase' = "cpu"
    BY <1>7
    DEF computer_single_step, clocks, cycles_left, stage_cycles, unanswered,
        waiting
  <2> QED BY <1>1, <1>2, <1>3, <2>1
<1>8. CASE UNCHANGED vars
  <2>1. /\ cycles_left' = cycles_left /\ UNCHANGED <<timer, phase>>
        /\ device_to_come' <=> device_to_come
    BY <1>8
    DEF vars, cycles_left, stage_cycles, unanswered, waiting, device_to_come
  <2> QED BY <1>1, <1>2, <1>3, <2>1
<1> QED BY <1>4, <1>5, <1>6, <1>7, <1>8 DEF Next, stopped

(* Every step keeps the program ahead of the timer. *)
LEMMA StepDeadline ==
  ASSUME TimedInv, InFlightInv, ProgramInv, ProgramInv', DeadlineInv,
         [Next]_vars
  PROVE  DeadlineInv'
<1>0. IInv BY DEF TimedInv
<1>1. overflowed' => isa_PC' = HCF_ADDRESS
  <2>1. CASE isa_PC = HCF_ADDRESS BY <1>0, <2>1, StepAhead
  <2>2. CASE isa_PC # HCF_ADDRESS
    <3>1. ~overflowed BY <2>2 DEF DeadlineInv
    <3>2. ~overflowed' BY <2>2, <3>1, NoOverflowYet, FlagStays
    <3> QED BY <3>2
  <2> QED BY <2>1, <2>2
<1>2. ~overflowed' => interrupt_requests' = << >>
  <2> SUFFICES ASSUME ~overflowed' PROVE interrupt_requests' = << >>
    OBVIOUS
  <2>1. ~overflowed /\ interrupt_requests = << >>
    BY FlagStays DEF DeadlineInv
  <2>2. CASE clock_cpu BY <1>0, <2>1, <2>2, NoRequest
  <2>3. CASE clock_timer
    <3>1. CASE timer_overflows
      <4>1. \/ UNCHANGED interrupt_requests
            \/ timer' = update_timer_overflow_status(tick(timer))
        BY <2>3, <3>1 DEF clock_timer, timer_cycle
      <4>2. /\ timer \in TimerState /\ tick(timer) = count_up(timer)
        BY DEF TimedInv, IInv, TypeOK, tick, prescaling_enabled,
               MIN_PRESCALE_VALUE
      <4>3. timer' = update_timer_overflow_status(tick(timer)) => overflowed'
        BY <4>2
        DEF update_timer_overflow_status, count_up, TimerState, overflowed
      <4> QED BY <2>1, <4>1, <4>3
    <3>2. CASE ~timer_overflows
      BY <2>1, <2>3, <3>2 DEF clock_timer, timer_cycle
    <3> QED BY <3>1, <3>2
  <2>4. CASE ~clock_cpu /\ ~clock_timer
    BY <2>1, <2>4
    DEF Next, computer_single_step, clock_bus, clock_memory, clock_graphics,
        stopped, vars
  <2> QED BY <2>2, <2>3, <2>4
<1>3. ~running' => overflowed' /\ pipeline_stage' = "INTERRUPT"
  <2> SUFFICES ASSUME ~running'
               PROVE  overflowed' /\ pipeline_stage' = "INTERRUPT"
    OBVIOUS
  <2>1. CASE ~running
    <3>1. UNCHANGED vars
      BY <2>1
      DEF Next, computer_single_step, clock_cpu, clock_bus, clock_memory,
          clock_graphics, clock_timer, clocks, stopped
    <3> QED BY <2>1, <3>1 DEF vars, overflowed, DeadlineInv
  <2>2. CASE running
    <3>1. /\ clock_cpu /\ pipeline_stage = "INTERRUPT"
          /\ pipeline_stage' = "INTERRUPT"
      BY <2>2, OnlyInterruptEnds
    <3>2. interrupt_requests # << >> BY <1>0, <3>1, NoRequest
    <3>3. overflowed BY <3>2 DEF DeadlineInv
    <3> QED BY <3>1, <3>3, FlagStays
  <2> QED BY <2>1, <2>2
<1> QED BY <1>1, <1>2, <1>3, StepAheadOfTimer DEF DeadlineInv

(* The timer starts early enough. *)
LEMMA InitialDeadline == Init /\ I!Init => DeadlineInv
<1> SUFFICES ASSUME Init, I!Init PROVE DeadlineInv
  OBVIOUS
<1>1. /\ isa_PC = 0 /\ pipeline_stage = "INTERRUPT"
      /\ interrupt_requests = << >> /\ running /\ phase = "returned"
  BY DEF Init, CpuInit, I!Init, running
<1>2. PICK start \in TIMER_STARTS : timer = make_timer(IRQ_1, start)
  BY DEF Init
<1>3. timer.timer_value = start /\ ~overflowed
  BY <1>2 DEF make_timer, overflowed
<1>4. cycles_left = 0 /\ ~begun
  BY <1>1 DEF cycles_left, stage_cycles, unanswered, waiting, begun, in_flight
<1>5. instructions_after = INSTRUCTIONS /\ INSTRUCTIONS \in Int
  <2>1. instructions_left = INSTRUCTIONS /\ INSTRUCTIONS \in Int
    BY <1>1, AllRows DEF instructions_left, INSTRUCTIONS
  <2>2. instructions_after = instructions_left - 0
    BY <1>4 DEF instructions_after
  <2> QED BY <2>1, <2>2
<1>6. start + cycles(INSTRUCTIONS) < TIMER_VALUES
  BY DriverInTime DEF DriverInTime
<1>7. start \in Int /\ cycles(INSTRUCTIONS) \in Int
  BY <1>5, CycleCount, TimerAssumption DEF TimerAssumption
<1>8. timer.timer_value + cycles_left + cycles(instructions_after)
        < TIMER_VALUES
  BY <1>3, <1>4, <1>5, <1>6, <1>7
<1> QED BY <1>1, <1>3, <1>8 DEF DeadlineInv

(* Until the timer overflows it has more cycles left than the program needs to
   HCF, and nothing but its overflow ends the process (timer.c:74, cpu.c:202,
   main.c:89). *)
THEOREM BeforeDeadline == Spec => []DeadlineInv
<1>1. Init /\ I!Init => DeadlineInv BY InitialDeadline
<1>2. TimedInv /\ InFlightInv /\ ProgramInv /\ ProgramInv' /\ DeadlineInv
        /\ [Next]_vars => DeadlineInv'
  BY StepDeadline
<1>3. Spec => Init /\ I!Init /\ [][Next]_vars
  BY ImplementsIsa DEF Spec, RefinesIsa
<1> QED
  BY <1>1, <1>2, <1>3, TimedInvariant, WordInFlight, ProgramCorrect, PTL

(* The overflow that ends the process finds the whole picture drawn and the
   CPU at HCF: no loop runs on, no access hangs, nothing else stops the
   computer before (main.c:89, timer.c:74). *)
THEOREM FinishesBox == Spec => []BoxFinished
<1>1. ProgramInv /\ DeadlineInv => BoxFinished
  <2> SUFFICES ASSUME ProgramInv, DeadlineInv, ~running
               PROVE  /\ drawn = drawn_before(BOX_HEIGHT, 0)
                      /\ cpu.PC = HCF_ADDRESS
    BY DEF BoxFinished
  <2>1. isa_PC = HCF_ADDRESS /\ pipeline_stage = "INTERRUPT"
    BY DEF DeadlineInv
  <2>2. cpu.PC = HCF_ADDRESS BY <2>1 DEF isa_PC, in_flight
  <2>3. PictureInv BY DEF ProgramInv
  <2>4. current_row = BOX_HEIGHT /\ current_column = 0
    BY <2>1, <2>3 DEF PictureInv, current_column, HCF_ADDRESS
  <2>5. drawn_so_far = drawn_before(BOX_HEIGHT, 0)
    BY <2>1, <2>4 DEF drawn_so_far, HCF_ADDRESS
  <2>6. drawn_before(BOX_HEIGHT, 0) \subseteq Pixel BY DEF drawn_before
  <2> QED BY <2>2, <2>3, <2>5, <2>6, PictureDrawn
<1> QED BY <1>1, ProgramCorrect, BeforeDeadline, PTL
=============================================================================
