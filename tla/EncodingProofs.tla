--------------------------- MODULE EncodingProofs ---------------------------
(***************************************************************************)
(* Whatever is written with the macros, of whatever registers and numbers, *)
(* is decoded again.                                                       *)
(***************************************************************************)
EXTENDS Encoding, TLAPS

\* A field is read back from its place when the word holds its bits there and
\* nothing else reaches into that place.
LEMMA FieldRead ==
  ASSUME NEW first \in 0 .. 31, NEW n \in 0 .. 31, first + n <= 31, NEW word,
         NEW field \in SUBSET (0 .. n),
         \A i \in 0 .. n : i + first \in word <=> i \in field
  PROVE  GET_BITS_IN_RANGE(word, first, first + n) = field
<1> DEFINE read == GET_BITS_IN_RANGE(word, first, first + n)
<1>1. read \subseteq 0 .. n BY DEF GET_BITS_IN_RANGE, right, Bit
<1>2. \A i \in 0 .. n : i \in read <=> i + first \in word
  BY DEF GET_BITS_IN_RANGE, right, Bit
<1> HIDE DEF read
<1>3. \A i : i \in read <=> i \in field BY <1>1, <1>2
<1> QED BY <1>3 DEF read

\* Sign extension gives back a number that fits its field.
LEMMA SignExtended ==
  ASSUME NEW n \in 1 .. 31, NEW number \in uint32, fits(number, n)
  PROVE  sign_extend(GET_BOTTOM_BITS(number, n), n) = number
<1> DEFINE field == GET_BOTTOM_BITS(number, n)
<1>1. number \subseteq 0 .. 31 BY DEF uint32, Bit
<1>2. CASE \A i \in n - 1 .. 31 : i \in number
  <2>1. n - 1 \in field BY <1>2 DEF GET_BOTTOM_BITS
  <2>2. 0 + (n - 1) = n - 1 /\ 0 \in Bit BY DEF Bit
  <2>3. 0 \in right(field, n - 1) BY <2>1, <2>2 DEF right
  <2>4. \A i : i \in field \cup n .. 31 <=> i \in number
    <3>1. \A i : i \in number => i \in field \cup n .. 31
      BY <1>1 DEF GET_BOTTOM_BITS
    <3>2. \A i \in n .. 31 : i \in number BY <1>2
    <3>3. field \subseteq number BY DEF GET_BOTTOM_BITS
    <3> HIDE DEF field
    <3> QED BY <3>1, <3>2, <3>3
  <2> HIDE DEF field
  <2> DEFINE extended == field \cup n .. 31
  <2>5. sign_extend(field, n) = extended BY <2>3 DEF sign_extend
  <2> HIDE DEF extended
  <2>6. extended = number BY <2>4 DEF extended
  <2> QED BY <2>5, <2>6 DEF field
<1>3. CASE \A i \in n - 1 .. 31 : i \notin number
  <2>1. number \subseteq field
    <3>1. \A i \in number : i \in 0 .. n - 1 BY <1>1, <1>3
    <3> QED BY <3>1 DEF GET_BOTTOM_BITS
  <2>2. ASSUME NEW i \in right(number, n - 1) PROVE FALSE
    <3>1. i \in Bit /\ i + (n - 1) \in number BY <2>2 DEF right
    <3>2. i + (n - 1) \in n - 1 .. 31 BY <1>1, <3>1 DEF Bit
    <3> QED BY <1>3, <3>1, <3>2
  <2>3. right(number, n - 1) = {} BY <2>2
  <2>5. field \subseteq number BY DEF GET_BOTTOM_BITS
  <2> HIDE DEF field
  <2>4. field = number BY <2>1, <2>5
  <2> QED BY <2>3, <2>4 DEF sign_extend, field
<1> QED BY <1>2, <1>3 DEF fits

\* Every opcode fits its six bits.
LEMMA OpcodeBits ==
  ASSUME NEW name \in DOMAIN OPCODE
  PROVE  OPCODE[name] \in SUBSET (0 .. 5)
BY DEF OPCODE

\* The five fields of the register format do not overlap.
LEMMA RegisterOpDecoded ==
  ASSUME NEW op \in SUBSET (0 .. 5),
         NEW dest \in SUBSET (0 .. 4),
         NEW sr1 \in SUBSET (0 .. 4),
         NEW sr2 \in SUBSET (0 .. 4)
  PROVE  LET d == decoded(REGISTER_OP(op, dest, sr1, sr2))
         IN  /\ d.opcode = op
             /\ d.destination_reg1 = dest
             /\ d.source_reg1 = sr1
             /\ d.source_reg2 = sr2
             /\ d.immediate_mode = {}
<1> DEFINE word == REGISTER_OP(op, dest, sr1, sr2)
<1>1. GET_BITS_IN_RANGE(word, 26, 31) = op
  <2>1. \A i \in 0 .. 5 : i + 26 \in word <=> i \in op
    BY DEF REGISTER_OP, left, Bit
  <2>2. op \in SUBSET (0 .. 5) OBVIOUS
  <2> HIDE DEF word
  <2>3. GET_BITS_IN_RANGE(word, 26, 26 + 5) = op
    BY <2>1, <2>2, FieldRead
  <2> QED BY <2>3
<1>2. GET_BITS_IN_RANGE(word, 21, 25) = dest
  <2>1. \A i \in 0 .. 4 : i + 21 \in word <=> i \in dest
    BY DEF REGISTER_OP, left, Bit
  <2>2. dest \in SUBSET (0 .. 4) OBVIOUS
  <2> HIDE DEF word
  <2>3. GET_BITS_IN_RANGE(word, 21, 21 + 4) = dest
    BY <2>1, <2>2, FieldRead
  <2> QED BY <2>3
<1>3. GET_BITS_IN_RANGE(word, 16, 20) = sr1
  <2>1. \A i \in 0 .. 4 : i + 16 \in word <=> i \in sr1
    BY DEF REGISTER_OP, left, Bit
  <2>2. sr1 \in SUBSET (0 .. 4) OBVIOUS
  <2> HIDE DEF word
  <2>3. GET_BITS_IN_RANGE(word, 16, 16 + 4) = sr1
    BY <2>1, <2>2, FieldRead
  <2> QED BY <2>3
<1>4. GET_BITS_IN_RANGE(word, 11, 15) = sr2
  <2>1. \A i \in 0 .. 4 : i + 11 \in word <=> i \in sr2
    BY DEF REGISTER_OP, left, Bit
  <2>2. sr2 \in SUBSET (0 .. 4) OBVIOUS
  <2> HIDE DEF word
  <2>3. GET_BITS_IN_RANGE(word, 11, 11 + 4) = sr2
    BY <2>1, <2>2, FieldRead
  <2> QED BY <2>3
<1>5. CHECK_BIT_SET(word, 0) = {}
  <2>1. 0 \notin word BY DEF REGISTER_OP, left, Bit
  <2> HIDE DEF word
  <2> QED BY <2>1 DEF CHECK_BIT_SET
<1> QED BY <1>1, <1>2, <1>3, <1>4, <1>5 DEF decoded, width

\* The immediate format.
LEMMA ImmediateOpDecoded ==
  ASSUME NEW op \in SUBSET (0 .. 5),
         NEW dest \in SUBSET (0 .. 4),
         NEW sr \in SUBSET (0 .. 4),
         NEW imm15 \in uint32
  PROVE  LET d == decoded(IMMEDIATE_OP(op, dest, sr, imm15))
         IN  /\ d.opcode = op
             /\ d.destination_reg1 = dest
             /\ d.source_reg1 = sr
             /\ d.immediate_mode = {0}
<1> DEFINE word == IMMEDIATE_OP(op, dest, sr, imm15)
<1>1. GET_BITS_IN_RANGE(word, 26, 31) = op
  <2>1. \A i \in 0 .. 5 : i + 26 \in word <=> i \in op
    BY DEF IMMEDIATE_OP, left, GET_BOTTOM_BITS, Bit
  <2>2. op \in SUBSET (0 .. 5) OBVIOUS
  <2> HIDE DEF word
  <2>3. GET_BITS_IN_RANGE(word, 26, 26 + 5) = op
    BY <2>1, <2>2, FieldRead
  <2> QED BY <2>3
<1>2. GET_BITS_IN_RANGE(word, 21, 25) = dest
  <2>1. \A i \in 0 .. 4 : i + 21 \in word <=> i \in dest
    BY DEF IMMEDIATE_OP, left, GET_BOTTOM_BITS, Bit
  <2>2. dest \in SUBSET (0 .. 4) OBVIOUS
  <2> HIDE DEF word
  <2>3. GET_BITS_IN_RANGE(word, 21, 21 + 4) = dest
    BY <2>1, <2>2, FieldRead
  <2> QED BY <2>3
<1>3. GET_BITS_IN_RANGE(word, 16, 20) = sr
  <2>1. \A i \in 0 .. 4 : i + 16 \in word <=> i \in sr
    BY DEF IMMEDIATE_OP, left, GET_BOTTOM_BITS, Bit
  <2>2. sr \in SUBSET (0 .. 4) OBVIOUS
  <2> HIDE DEF word
  <2>3. GET_BITS_IN_RANGE(word, 16, 16 + 4) = sr
    BY <2>1, <2>2, FieldRead
  <2> QED BY <2>3
<1>4. CHECK_BIT_SET(word, 0) = {0}
  <2>1. 0 \in word BY DEF IMMEDIATE_OP, left, Bit
  <2> HIDE DEF word
  <2> QED BY <2>1 DEF CHECK_BIT_SET
<1> QED BY <1>1, <1>2, <1>3, <1>4 DEF decoded

\* The immediate format's number, above the mode bit.
LEMMA ImmediateNumberDecoded ==
  ASSUME NEW op \in SUBSET (0 .. 5), NEW dest \in SUBSET (0 .. 4),
         NEW sr \in SUBSET (0 .. 4), NEW imm15 \in uint32
  PROVE  decoded(IMMEDIATE_OP(op, dest, sr, imm15)).ALU_immediate_bits =
           sign_extend(GET_BOTTOM_BITS(imm15, 15), 15)
<1> DEFINE word == IMMEDIATE_OP(op, dest, sr, imm15)
<1>1. GET_BITS_IN_RANGE(word, 1, 15) = GET_BOTTOM_BITS(imm15, 15)
  <2> DEFINE field == GET_BOTTOM_BITS(imm15, 15)
  <2>1. \A i \in 0 .. 14 : i + 1 \in word <=> i \in field
    BY DEF IMMEDIATE_OP, left, GET_BOTTOM_BITS, Bit
  <2>2. field \in SUBSET (0 .. 14) BY DEF GET_BOTTOM_BITS
  <2> HIDE DEF word, field
  <2>3. GET_BITS_IN_RANGE(word, 1, 1 + 14) = field
    BY <2>1, <2>2, FieldRead
  <2> QED BY <2>3 DEF field
<1> QED BY <1>1 DEF decoded, width

\* The PC relative format.
LEMMA PcRelativeDecoded ==
  ASSUME NEW op \in SUBSET (0 .. 5),
         NEW reg \in SUBSET (0 .. 4),
         NEW imm21 \in uint32
  PROVE  LET d == decoded(PC_RELATIVE(op, reg, imm21))
         IN  /\ d.opcode = op
             /\ d.destination_reg1 = reg
             /\ d.load_pc_relative_offset_bits =
                  sign_extend(GET_BOTTOM_BITS(imm21, 21), 21)
<1> DEFINE word == PC_RELATIVE(op, reg, imm21)
<1>1. GET_BITS_IN_RANGE(word, 26, 31) = op
  <2>1. \A i \in 0 .. 5 : i + 26 \in word <=> i \in op
    BY DEF PC_RELATIVE, left, GET_BOTTOM_BITS, Bit
  <2>2. op \in SUBSET (0 .. 5) OBVIOUS
  <2> HIDE DEF word
  <2>3. GET_BITS_IN_RANGE(word, 26, 26 + 5) = op
    BY <2>1, <2>2, FieldRead
  <2> QED BY <2>3
<1>2. GET_BITS_IN_RANGE(word, 21, 25) = reg
  <2>1. \A i \in 0 .. 4 : i + 21 \in word <=> i \in reg
    BY DEF PC_RELATIVE, left, GET_BOTTOM_BITS, Bit
  <2>2. reg \in SUBSET (0 .. 4) OBVIOUS
  <2> HIDE DEF word
  <2>3. GET_BITS_IN_RANGE(word, 21, 21 + 4) = reg
    BY <2>1, <2>2, FieldRead
  <2> QED BY <2>3
<1>3. GET_BITS_IN_RANGE(word, 0, 20) = GET_BOTTOM_BITS(imm21, 21)
  <2> DEFINE field == GET_BOTTOM_BITS(imm21, 21)
  <2>1. \A i \in 0 .. 20 : i + 0 \in word <=> i \in field
    BY DEF PC_RELATIVE, left, GET_BOTTOM_BITS, Bit
  <2>2. field \in SUBSET (0 .. 20) BY DEF GET_BOTTOM_BITS
  <2> HIDE DEF word, field
  <2>3. GET_BITS_IN_RANGE(word, 0, 0 + 20) = field
    BY <2>1, <2>2, FieldRead
  <2> QED BY <2>3 DEF field
<1> QED BY <1>1, <1>2, <1>3 DEF decoded, width

\* The base plus offset format.
LEMMA BasePlusOffsetDecoded ==
  ASSUME NEW op \in SUBSET (0 .. 5),
         NEW reg \in SUBSET (0 .. 4),
         NEW base \in SUBSET (0 .. 4),
         NEW imm16 \in uint32
  PROVE  LET d == decoded(BASE_PLUS_OFFSET(op, reg, base, imm16))
         IN  /\ d.opcode = op
             /\ d.destination_reg1 = reg
             /\ d.source_reg1 = base
             /\ d.base_register_offset_bits =
                  sign_extend(GET_BOTTOM_BITS(imm16, 16), 16)
<1> DEFINE word == BASE_PLUS_OFFSET(op, reg, base, imm16)
<1>1. GET_BITS_IN_RANGE(word, 26, 31) = op
  <2>1. \A i \in 0 .. 5 : i + 26 \in word <=> i \in op
    BY DEF BASE_PLUS_OFFSET, left, GET_BOTTOM_BITS, Bit
  <2>2. op \in SUBSET (0 .. 5) OBVIOUS
  <2> HIDE DEF word
  <2>3. GET_BITS_IN_RANGE(word, 26, 26 + 5) = op
    BY <2>1, <2>2, FieldRead
  <2> QED BY <2>3
<1>2. GET_BITS_IN_RANGE(word, 21, 25) = reg
  <2>1. \A i \in 0 .. 4 : i + 21 \in word <=> i \in reg
    BY DEF BASE_PLUS_OFFSET, left, GET_BOTTOM_BITS, Bit
  <2>2. reg \in SUBSET (0 .. 4) OBVIOUS
  <2> HIDE DEF word
  <2>3. GET_BITS_IN_RANGE(word, 21, 21 + 4) = reg
    BY <2>1, <2>2, FieldRead
  <2> QED BY <2>3
<1>3. GET_BITS_IN_RANGE(word, 16, 20) = base
  <2>1. \A i \in 0 .. 4 : i + 16 \in word <=> i \in base
    BY DEF BASE_PLUS_OFFSET, left, GET_BOTTOM_BITS, Bit
  <2>2. base \in SUBSET (0 .. 4) OBVIOUS
  <2> HIDE DEF word
  <2>3. GET_BITS_IN_RANGE(word, 16, 16 + 4) = base
    BY <2>1, <2>2, FieldRead
  <2> QED BY <2>3
<1>4. GET_BITS_IN_RANGE(word, 0, 15) = GET_BOTTOM_BITS(imm16, 16)
  <2> DEFINE field == GET_BOTTOM_BITS(imm16, 16)
  <2>1. \A i \in 0 .. 15 : i + 0 \in word <=> i \in field
    BY DEF BASE_PLUS_OFFSET, left, GET_BOTTOM_BITS, Bit
  <2>2. field \in SUBSET (0 .. 15) BY DEF GET_BOTTOM_BITS
  <2> HIDE DEF word, field
  <2>3. GET_BITS_IN_RANGE(word, 0, 0 + 15) = field
    BY <2>1, <2>2, FieldRead
  <2> QED BY <2>3 DEF field
<1> QED BY <1>1, <1>2, <1>3, <1>4 DEF decoded, width

\* The jump format.
LEMMA JumpDecoded ==
  ASSUME NEW op \in SUBSET (0 .. 5),
         NEW offset \in uint32
  PROVE  LET d == decoded(JUMP_PC_RELATIVE(op, offset))
         IN  /\ d.opcode = op
             /\ d.jump_pc_relative_offset_bits =
                  sign_extend(GET_BOTTOM_BITS(offset, 26), 26)
<1> DEFINE word == JUMP_PC_RELATIVE(op, offset)
<1>1. GET_BITS_IN_RANGE(word, 26, 31) = op
  <2>1. \A i \in 0 .. 5 : i + 26 \in word <=> i \in op
    BY DEF JUMP_PC_RELATIVE, left, GET_BOTTOM_BITS, Bit
  <2>2. op \in SUBSET (0 .. 5) OBVIOUS
  <2> HIDE DEF word
  <2>3. GET_BITS_IN_RANGE(word, 26, 26 + 5) = op
    BY <2>1, <2>2, FieldRead
  <2> QED BY <2>3
<1>2. GET_BITS_IN_RANGE(word, 0, 25) = GET_BOTTOM_BITS(offset, 26)
  <2> DEFINE field == GET_BOTTOM_BITS(offset, 26)
  <2>1. \A i \in 0 .. 25 : i + 0 \in word <=> i \in field
    BY DEF JUMP_PC_RELATIVE, left, GET_BOTTOM_BITS, Bit
  <2>2. field \in SUBSET (0 .. 25) BY DEF GET_BOTTOM_BITS
  <2> HIDE DEF word, field
  <2>3. GET_BITS_IN_RANGE(word, 0, 0 + 25) = field
    BY <2>1, <2>2, FieldRead
  <2> QED BY <2>3 DEF field
<1> QED BY <1>1, <1>2 DEF decoded, width

\* The branch format.
LEMMA BranchDecoded ==
  ASSUME NEW op \in SUBSET (0 .. 5),
         NEW codes \in SUBSET (0 .. 2),
         NEW offset \in uint32
  PROVE  LET d == decoded(BRANCH_PC_RELATIVE(op, codes, offset))
         IN  /\ d.opcode = op
             /\ d.instruction_condition_codes = codes
             /\ d.branch_pc_relative_offset_bits =
                  sign_extend(GET_BOTTOM_BITS(offset, 23), 23)
<1> DEFINE word == BRANCH_PC_RELATIVE(op, codes, offset)
<1>1. GET_BITS_IN_RANGE(word, 26, 31) = op
  <2>1. \A i \in 0 .. 5 : i + 26 \in word <=> i \in op
    BY DEF BRANCH_PC_RELATIVE, left, GET_BOTTOM_BITS, Bit
  <2>2. op \in SUBSET (0 .. 5) OBVIOUS
  <2> HIDE DEF word
  <2>3. GET_BITS_IN_RANGE(word, 26, 26 + 5) = op
    BY <2>1, <2>2, FieldRead
  <2> QED BY <2>3
<1>2. GET_BITS_IN_RANGE(word, 23, 25) = codes
  <2>1. \A i \in 0 .. 2 : i + 23 \in word <=> i \in codes
    BY DEF BRANCH_PC_RELATIVE, left, GET_BOTTOM_BITS, Bit
  <2>2. codes \in SUBSET (0 .. 2) OBVIOUS
  <2> HIDE DEF word
  <2>3. GET_BITS_IN_RANGE(word, 23, 23 + 2) = codes
    BY <2>1, <2>2, FieldRead
  <2> QED BY <2>3
<1>3. GET_BITS_IN_RANGE(word, 0, 22) = GET_BOTTOM_BITS(offset, 23)
  <2> DEFINE field == GET_BOTTOM_BITS(offset, 23)
  <2>1. \A i \in 0 .. 22 : i + 0 \in word <=> i \in field
    BY DEF BRANCH_PC_RELATIVE, left, GET_BOTTOM_BITS, Bit
  <2>2. field \in SUBSET (0 .. 22) BY DEF GET_BOTTOM_BITS
  <2> HIDE DEF word, field
  <2>3. GET_BITS_IN_RANGE(word, 0, 0 + 22) = field
    BY <2>1, <2>2, FieldRead
  <2> QED BY <2>3 DEF field
<1> QED BY <1>1, <1>2, <1>3 DEF decoded, width

-----------------------------------------------------------------------------
(* The integer that a field stands for.  A byte is taken apart into its bits,
   so that what is added up are eight numbers and not a set. *)

\* b0 to b7 are the bits of a word's byte.
Spells(word, s, b0, b1, b2, b3, b4, b5, b6, b7) ==
  /\ byte(word, s) = b0 + 2 * b1 + 4 * b2 + 8 * b3
                       + 16 * b4 + 32 * b5 + 64 * b6 + 128 * b7
  /\ b0 = 1 <=> s \in word
  /\ b1 = 1 <=> s + 1 \in word
  /\ b2 = 1 <=> s + 2 \in word
  /\ b3 = 1 <=> s + 3 \in word
  /\ b4 = 1 <=> s + 4 \in word
  /\ b5 = 1 <=> s + 5 \in word
  /\ b6 = 1 <=> s + 6 \in word
  /\ b7 = 1 <=> s + 7 \in word

LEMMA ByteBits ==
  ASSUME NEW word, NEW s \in {0, 8, 16, 24}
  PROVE  \E b0, b1, b2, b3, b4, b5, b6, b7 \in 0 .. 1 :
           Spells(word, s, b0, b1, b2, b3, b4, b5, b6, b7)
<1> DEFINE b(i) == IF s + i \in word THEN 1 ELSE 0
<1>1. \A i \in 0 .. 7 : b(i) \in 0 .. 1 /\ (b(i) = 1 <=> s + i \in word)
  OBVIOUS
<1>2. byte(word, s) = b(0) + 2 * b(1) + 4 * b(2) + 8 * b(3)
                        + 16 * b(4) + 32 * b(5) + 64 * b(6) + 128 * b(7)
  BY DEF byte
<1>3. b(0) = 1 <=> s \in word OBVIOUS
<1> HIDE DEF b
<1>4. Spells(word, s, b(0), b(1), b(2), b(3), b(4), b(5), b(6), b(7))
  BY <1>1, <1>2, <1>3 DEF Spells
<1> QED BY <1>1, <1>4

\* A byte with a field's sign at its bit j, and what sign extension makes of it.
Cut(w, d, s, j, low, sign, up) ==
  /\ sign = 1 <=> s + j \in w
  /\ byte(w, s) = low + 2 ^ j * sign + 2 ^ (j + 1) * up
  /\ byte(d, s) = low + (256 - 2 ^ j) * sign

LEMMA CutByte ==
  ASSUME NEW w, NEW d, NEW s \in {0, 8, 16, 24}, NEW j \in {1, 4, 6, 7},
         \A i \in 0 .. j : s + i \in d <=> s + i \in w,
         \A i \in j .. 7 : s + i \in d <=> s + j \in w
  PROVE  \E low \in 0 .. 2 ^ j - 1, sign \in 0 .. 1, up \in Nat :
           Cut(w, d, s, j, low, sign, up)
<1>1. PICK b0, b1, b2, b3, b4, b5, b6, b7 \in 0 .. 1 :
        Spells(w, s, b0, b1, b2, b3, b4, b5, b6, b7)
  BY ByteBits
<1>2. PICK c0, c1, c2, c3, c4, c5, c6, c7 \in 0 .. 1 :
        Spells(d, s, c0, c1, c2, c3, c4, c5, c6, c7)
  BY ByteBits
<1>3. CASE j = 1
  <2> DEFINE low == b0
             up == b2 + 2 * b3 + 4 * b4 + 8 * b5 + 16 * b6 + 32 * b7
  <2>1. /\ c0 = b0 /\ c1 = b1 /\ c2 = b1 /\ c3 = b1
        /\ c4 = b1 /\ c5 = b1 /\ c6 = b1 /\ c7 = b1
    BY <1>1, <1>2, <1>3 DEF Spells
  <2>2. low \in 0 .. 2 ^ j - 1 /\ up \in Nat BY <1>3
  <2>3. Cut(w, d, s, j, low, b1, up)
    BY <1>1, <1>2, <1>3, <2>1 DEF Spells, Cut
  <2> HIDE DEF low, up
  <2> QED BY <2>2, <2>3
<1>4. CASE j = 4
  <2> DEFINE low == b0 + 2 * b1 + 4 * b2 + 8 * b3
             up == b5 + 2 * b6 + 4 * b7
  <2>1. /\ c0 = b0 /\ c1 = b1 /\ c2 = b2 /\ c3 = b3
        /\ c4 = b4 /\ c5 = b4 /\ c6 = b4 /\ c7 = b4
    BY <1>1, <1>2, <1>4 DEF Spells
  <2>2. low \in 0 .. 2 ^ j - 1 /\ up \in Nat BY <1>4
  <2>3. Cut(w, d, s, j, low, b4, up)
    BY <1>1, <1>2, <1>4, <2>1 DEF Spells, Cut
  <2> HIDE DEF low, up
  <2> QED BY <2>2, <2>3
<1>5. CASE j = 6
  <2> DEFINE low == b0 + 2 * b1 + 4 * b2 + 8 * b3 + 16 * b4 + 32 * b5
             up == b7
  <2>1. /\ c0 = b0 /\ c1 = b1 /\ c2 = b2 /\ c3 = b3
        /\ c4 = b4 /\ c5 = b5 /\ c6 = b6 /\ c7 = b6
    BY <1>1, <1>2, <1>5 DEF Spells
  <2>2. low \in 0 .. 2 ^ j - 1 /\ up \in Nat BY <1>5
  <2>3. Cut(w, d, s, j, low, b6, up)
    BY <1>1, <1>2, <1>5, <2>1 DEF Spells, Cut
  <2> HIDE DEF low, up
  <2> QED BY <2>2, <2>3
<1>6. CASE j = 7
  <2> DEFINE low == b0 + 2 * b1 + 4 * b2 + 8 * b3 + 16 * b4 + 32 * b5 + 64 * b6
             up == 0
  <2>1. /\ c0 = b0 /\ c1 = b1 /\ c2 = b2 /\ c3 = b3
        /\ c4 = b4 /\ c5 = b5 /\ c6 = b6 /\ c7 = b7
    BY <1>1, <1>2, <1>6 DEF Spells
  <2>2. low \in 0 .. 2 ^ j - 1 /\ up \in Nat BY <1>6
  <2>3. Cut(w, d, s, j, low, b7, up)
    BY <1>1, <1>2, <1>6, <2>1 DEF Spells, Cut
  <2> HIDE DEF low, up
  <2> QED BY <2>2, <2>3
<1> QED BY <1>3, <1>4, <1>5, <1>6

LEMMA ByteRange ==
  ASSUME NEW w, NEW s \in {0, 8, 16, 24}
  PROVE  byte(w, s) \in 0 .. 255
<1>1. PICK b0, b1, b2, b3, b4, b5, b6, b7 \in 0 .. 1 :
        Spells(w, s, b0, b1, b2, b3, b4, b5, b6, b7)
  BY ByteBits
<1> QED BY <1>1 DEF Spells

\* A byte is the sum of its bits and of nothing else.
LEMMA EqualBytes ==
  ASSUME NEW w, NEW d, NEW s \in {0, 8, 16, 24},
         \A i \in 0 .. 7 : s + i \in d <=> s + i \in w
  PROVE  byte(d, s) = byte(w, s)
<1>1. PICK b0, b1, b2, b3, b4, b5, b6, b7 \in 0 .. 1 :
        Spells(w, s, b0, b1, b2, b3, b4, b5, b6, b7)
  BY ByteBits
<1>2. PICK c0, c1, c2, c3, c4, c5, c6, c7 \in 0 .. 1 :
        Spells(d, s, c0, c1, c2, c3, c4, c5, c6, c7)
  BY ByteBits
<1>3. /\ c0 = b0 /\ c1 = b1 /\ c2 = b2 /\ c3 = b3
      /\ c4 = b4 /\ c5 = b5 /\ c6 = b6 /\ c7 = b7
  BY <1>1, <1>2 DEF Spells
<1> QED BY <1>1, <1>2, <1>3 DEF Spells

\* A byte above the sign.
LEMMA UniformByte ==
  ASSUME NEW d, NEW s \in {0, 8, 16, 24}, NEW sign \in 0 .. 1,
         \A i \in 0 .. 7 : s + i \in d <=> sign = 1
  PROVE  byte(d, s) = 255 * sign
<1>1. PICK c0, c1, c2, c3, c4, c5, c6, c7 \in 0 .. 1 :
        Spells(d, s, c0, c1, c2, c3, c4, c5, c6, c7)
  BY ByteBits
<1>2. /\ c0 = sign /\ c1 = sign /\ c2 = sign /\ c3 = sign
      /\ c4 = sign /\ c5 = sign /\ c6 = sign /\ c7 = sign
  BY <1>1 DEF Spells
<1> QED BY <1>1, <1>2 DEF Spells

\* The bits of w below n, and the highest of them repeated.
Extends(d, w, n) ==
  /\ \A i \in 0 .. n - 1 : i \in d <=> i \in w
  /\ \A i \in n - 1 .. 31 : i \in d <=> n - 1 \in w

LEMMA ExtendedBits ==
  ASSUME NEW n \in 1 .. 31, NEW w \in uint32
  PROVE  Extends(sign_extend(GET_BOTTOM_BITS(w, n), n), w, n)
<1> DEFINE field == GET_BOTTOM_BITS(w, n)
<1>1. \A i : i \in field <=> i \in w /\ i \in 0 .. n - 1
  BY DEF GET_BOTTOM_BITS
<1> HIDE DEF field
<1>2. right(field, n - 1) # {} <=> n - 1 \in w
  <2>1. ASSUME NEW i \in right(field, n - 1) PROVE n - 1 \in w
    <3>1. i \in 0 .. 31 /\ i + (n - 1) \in field BY <2>1 DEF right, Bit
    <3>2. i + (n - 1) \in 0 .. n - 1 /\ i + (n - 1) \in w BY <1>1, <3>1
    <3>3. i + (n - 1) = n - 1 BY <3>1, <3>2
    <3> QED BY <3>2, <3>3
  <2>2. ASSUME n - 1 \in w PROVE 0 \in right(field, n - 1)
    <3>1. n - 1 \in field BY <1>1, <2>2
    <3>2. 0 + (n - 1) = n - 1 /\ 0 \in Bit BY DEF Bit
    <3> QED BY <3>1, <3>2 DEF right
  <2> QED BY <2>1, <2>2
<1>3. CASE n - 1 \in w
  <2>1. sign_extend(field, n) = field \cup n .. 31
    BY <1>2, <1>3 DEF sign_extend
  <2> QED BY <1>1, <1>3, <2>1 DEF field, Extends
<1>4. CASE n - 1 \notin w
  <2>1. sign_extend(field, n) = field BY <1>2, <1>4 DEF sign_extend
  <2> QED BY <1>1, <1>4, <2>1 DEF field, Extends
<1> QED BY <1>3, <1>4

LEMMA Multiples ==
  ASSUME NEW m \in Nat \ {0}, NEW k \in Int
  PROVE  (m * k) % m = 0
OBVIOUS

\* Of a word whose bit n - 1 is repeated above it, the integer is that of the
\* bits up to it in two's complement.
LEMMA ExtendedNumber ==
  ASSUME NEW w, NEW d, NEW n \in {15, 16, 21, 23, 26},
         Extends(d, w, n)
  PROVE  /\ - 2 ^ (n - 1) <= int32(d) /\ int32(d) < 2 ^ (n - 1)
         /\ (int32(d) - int32(w)) % 2 ^ n = 0
<1> DEFINE top(v) == IF 31 \in v THEN 2 ^ 8 ELSE 0
<1>1. top(w) \in {0, 256} OBVIOUS
<1>2. \A v : int32(v) = byte(v, 0) + 256 * byte(v, 8) + 65536 * byte(v, 16)
                          + 16777216 * (byte(v, 24) - top(v))
  BY DEF int32
<1>3. /\ byte(w, 0) \in 0 .. 255 /\ byte(w, 8) \in 0 .. 255
      /\ byte(w, 16) \in 0 .. 255 /\ byte(w, 24) \in 0 .. 255
  BY ByteRange
<1>4. PICK w0 \in 0 .. 255 : byte(w, 0) = w0 BY <1>3
<1>5. PICK w1 \in 0 .. 255 : byte(w, 8) = w1 BY <1>3
<1>6. PICK w2 \in 0 .. 255 : byte(w, 16) = w2 BY <1>3
<1>7. PICK w3 \in 0 .. 255 : byte(w, 24) = w3 BY <1>3
<1>8. PICK t \in {0, 256} : top(w) = t BY <1>1
<1>9. int32(w) = w0 + 256 * w1 + 65536 * w2 + 16777216 * (w3 - t)
  BY <1>2, <1>4, <1>5, <1>6, <1>7, <1>8
<1>10. CASE n = 15
  <2>1. PICK low \in 0 .. 2 ^ 6 - 1, sign \in 0 .. 1, up \in Nat :
           Cut(w, d, 8, 6, low, sign, up)
    <3>1. \A i \in 0 .. 6 : 8 + i \in d <=> 8 + i \in w
      BY <1>10 DEF Extends
    <3>2. \A i \in 6 .. 7 : 8 + i \in d <=> 8 + 6 \in w
      BY <1>10 DEF Extends
    <3> QED BY <3>1, <3>2, CutByte
  <2>2. /\ low \in 0 .. 63
        /\ sign = 1 <=> 14 \in w
        /\ w1 = low + 64 * sign + 128 * up
        /\ byte(d, 8) = low + 192 * sign
    BY <2>1, <1>4, <1>5, <1>6, <1>7 DEF Cut
  <2>3. byte(d, 0) = w0
    <3>1. \A i \in 0 .. 7 : 0 + i \in d <=> 0 + i \in w
      BY <1>10 DEF Extends
    <3> QED BY <1>4, <1>5, <1>6, <1>7, <3>1, EqualBytes
  <2>4. byte(d, 16) = 255 * sign
    <3>1. \A i \in 0 .. 7 : 16 + i \in d <=> sign = 1
      BY <1>10, <2>2 DEF Extends
    <3> QED BY <3>1, UniformByte
  <2>5. byte(d, 24) = 255 * sign
    <3>1. \A i \in 0 .. 7 : 24 + i \in d <=> sign = 1
      BY <1>10, <2>2 DEF Extends
    <3> QED BY <3>1, UniformByte
  <2>6. top(d) = 256 * sign BY <1>10, <2>2 DEF Extends
  <2> HIDE DEF top
  <2>7. int32(d) =
          w0 + 256 * (low + 192 * sign) + 65536 * (255 * sign)
          + 16777216 * ((255 * sign) - 256 * sign)
    BY <1>2, <2>2, <2>3, <2>4, <2>5, <2>6
  <2>8. int32(d) = w0 + 256 * low - 16384 * sign
    BY <2>2, <2>7
  <2> DEFINE above == sign + up + 2 * w2 + 512 * w3 - 512 * t
  <2>9. above \in Int /\ int32(d) - int32(w) = 32768 * (- above)
    BY <1>9, <2>2, <2>8
  <2>10. 2 ^ n = 32768 /\ 2 ^ (n - 1) = 16384 BY <1>10
  <2>11. - 16384 <= int32(d) /\ int32(d) < 16384
    BY <2>2, <2>8
  <2> HIDE DEF above
  <2>12. (int32(d) - int32(w)) % 32768 = 0
    BY <2>9, Multiples
  <2> QED BY <2>10, <2>11, <2>12
<1>11. CASE n = 16
  <2>1. PICK low \in 0 .. 2 ^ 7 - 1, sign \in 0 .. 1, up \in Nat :
           Cut(w, d, 8, 7, low, sign, up)
    <3>1. \A i \in 0 .. 7 : 8 + i \in d <=> 8 + i \in w
      BY <1>11 DEF Extends
    <3>2. \A i \in 7 .. 7 : 8 + i \in d <=> 8 + 7 \in w
      BY <1>11 DEF Extends
    <3> QED BY <3>1, <3>2, CutByte
  <2>2. /\ low \in 0 .. 127
        /\ sign = 1 <=> 15 \in w
        /\ w1 = low + 128 * sign + 256 * up
        /\ byte(d, 8) = low + 128 * sign
    BY <2>1, <1>4, <1>5, <1>6, <1>7 DEF Cut
  <2>3. byte(d, 0) = w0
    <3>1. \A i \in 0 .. 7 : 0 + i \in d <=> 0 + i \in w
      BY <1>11 DEF Extends
    <3> QED BY <1>4, <1>5, <1>6, <1>7, <3>1, EqualBytes
  <2>4. byte(d, 16) = 255 * sign
    <3>1. \A i \in 0 .. 7 : 16 + i \in d <=> sign = 1
      BY <1>11, <2>2 DEF Extends
    <3> QED BY <3>1, UniformByte
  <2>5. byte(d, 24) = 255 * sign
    <3>1. \A i \in 0 .. 7 : 24 + i \in d <=> sign = 1
      BY <1>11, <2>2 DEF Extends
    <3> QED BY <3>1, UniformByte
  <2>6. top(d) = 256 * sign BY <1>11, <2>2 DEF Extends
  <2> HIDE DEF top
  <2>7. int32(d) =
          w0 + 256 * (low + 128 * sign) + 65536 * (255 * sign)
          + 16777216 * ((255 * sign) - 256 * sign)
    BY <1>2, <2>2, <2>3, <2>4, <2>5, <2>6
  <2>8. int32(d) = w0 + 256 * low - 32768 * sign
    BY <2>2, <2>7
  <2> DEFINE above == sign + up + w2 + 256 * w3 - 256 * t
  <2>9. above \in Int /\ int32(d) - int32(w) = 65536 * (- above)
    BY <1>9, <2>2, <2>8
  <2>10. 2 ^ n = 65536 /\ 2 ^ (n - 1) = 32768 BY <1>11
  <2>11. - 32768 <= int32(d) /\ int32(d) < 32768
    BY <2>2, <2>8
  <2> HIDE DEF above
  <2>12. (int32(d) - int32(w)) % 65536 = 0
    BY <2>9, Multiples
  <2> QED BY <2>10, <2>11, <2>12
<1>12. CASE n = 21
  <2>1. PICK low \in 0 .. 2 ^ 4 - 1, sign \in 0 .. 1, up \in Nat :
           Cut(w, d, 16, 4, low, sign, up)
    <3>1. \A i \in 0 .. 4 : 16 + i \in d <=> 16 + i \in w
      BY <1>12 DEF Extends
    <3>2. \A i \in 4 .. 7 : 16 + i \in d <=> 16 + 4 \in w
      BY <1>12 DEF Extends
    <3> QED BY <3>1, <3>2, CutByte
  <2>2. /\ low \in 0 .. 15
        /\ sign = 1 <=> 20 \in w
        /\ w2 = low + 16 * sign + 32 * up
        /\ byte(d, 16) = low + 240 * sign
    BY <2>1, <1>4, <1>5, <1>6, <1>7 DEF Cut
  <2>3. byte(d, 0) = w0
    <3>1. \A i \in 0 .. 7 : 0 + i \in d <=> 0 + i \in w
      BY <1>12 DEF Extends
    <3> QED BY <1>4, <1>5, <1>6, <1>7, <3>1, EqualBytes
  <2>4. byte(d, 8) = w1
    <3>1. \A i \in 0 .. 7 : 8 + i \in d <=> 8 + i \in w
      BY <1>12 DEF Extends
    <3> QED BY <1>4, <1>5, <1>6, <1>7, <3>1, EqualBytes
  <2>5. byte(d, 24) = 255 * sign
    <3>1. \A i \in 0 .. 7 : 24 + i \in d <=> sign = 1
      BY <1>12, <2>2 DEF Extends
    <3> QED BY <3>1, UniformByte
  <2>6. top(d) = 256 * sign BY <1>12, <2>2 DEF Extends
  <2> HIDE DEF top
  <2>7. int32(d) =
          w0 + 256 * w1 + 65536 * (low + 240 * sign)
          + 16777216 * ((255 * sign) - 256 * sign)
    BY <1>2, <2>2, <2>3, <2>4, <2>5, <2>6
  <2>8. int32(d) = w0 + 256 * w1 + 65536 * low - 1048576 * sign
    BY <2>2, <2>7
  <2> DEFINE above == sign + up + 8 * w3 - 8 * t
  <2>9. above \in Int /\ int32(d) - int32(w) = 2097152 * (- above)
    BY <1>9, <2>2, <2>8
  <2>10. 2 ^ n = 2097152 /\ 2 ^ (n - 1) = 1048576 BY <1>12
  <2>11. - 1048576 <= int32(d) /\ int32(d) < 1048576
    BY <2>2, <2>8
  <2> HIDE DEF above
  <2>12. (int32(d) - int32(w)) % 2097152 = 0
    BY <2>9, Multiples
  <2> QED BY <2>10, <2>11, <2>12
<1>13. CASE n = 23
  <2>1. PICK low \in 0 .. 2 ^ 6 - 1, sign \in 0 .. 1, up \in Nat :
           Cut(w, d, 16, 6, low, sign, up)
    <3>1. \A i \in 0 .. 6 : 16 + i \in d <=> 16 + i \in w
      BY <1>13 DEF Extends
    <3>2. \A i \in 6 .. 7 : 16 + i \in d <=> 16 + 6 \in w
      BY <1>13 DEF Extends
    <3> QED BY <3>1, <3>2, CutByte
  <2>2. /\ low \in 0 .. 63
        /\ sign = 1 <=> 22 \in w
        /\ w2 = low + 64 * sign + 128 * up
        /\ byte(d, 16) = low + 192 * sign
    BY <2>1, <1>4, <1>5, <1>6, <1>7 DEF Cut
  <2>3. byte(d, 0) = w0
    <3>1. \A i \in 0 .. 7 : 0 + i \in d <=> 0 + i \in w
      BY <1>13 DEF Extends
    <3> QED BY <1>4, <1>5, <1>6, <1>7, <3>1, EqualBytes
  <2>4. byte(d, 8) = w1
    <3>1. \A i \in 0 .. 7 : 8 + i \in d <=> 8 + i \in w
      BY <1>13 DEF Extends
    <3> QED BY <1>4, <1>5, <1>6, <1>7, <3>1, EqualBytes
  <2>5. byte(d, 24) = 255 * sign
    <3>1. \A i \in 0 .. 7 : 24 + i \in d <=> sign = 1
      BY <1>13, <2>2 DEF Extends
    <3> QED BY <3>1, UniformByte
  <2>6. top(d) = 256 * sign BY <1>13, <2>2 DEF Extends
  <2> HIDE DEF top
  <2>7. int32(d) =
          w0 + 256 * w1 + 65536 * (low + 192 * sign)
          + 16777216 * ((255 * sign) - 256 * sign)
    BY <1>2, <2>2, <2>3, <2>4, <2>5, <2>6
  <2>8. int32(d) = w0 + 256 * w1 + 65536 * low - 4194304 * sign
    BY <2>2, <2>7
  <2> DEFINE above == sign + up + 2 * w3 - 2 * t
  <2>9. above \in Int /\ int32(d) - int32(w) = 8388608 * (- above)
    BY <1>9, <2>2, <2>8
  <2>10. 2 ^ n = 8388608 /\ 2 ^ (n - 1) = 4194304 BY <1>13
  <2>11. - 4194304 <= int32(d) /\ int32(d) < 4194304
    BY <2>2, <2>8
  <2> HIDE DEF above
  <2>12. (int32(d) - int32(w)) % 8388608 = 0
    BY <2>9, Multiples
  <2> QED BY <2>10, <2>11, <2>12
<1>14. CASE n = 26
  <2>1. PICK low \in 0 .. 2 ^ 1 - 1, sign \in 0 .. 1, up \in Nat :
           Cut(w, d, 24, 1, low, sign, up)
    <3>1. \A i \in 0 .. 1 : 24 + i \in d <=> 24 + i \in w
      BY <1>14 DEF Extends
    <3>2. \A i \in 1 .. 7 : 24 + i \in d <=> 24 + 1 \in w
      BY <1>14 DEF Extends
    <3> QED BY <3>1, <3>2, CutByte
  <2>2. /\ low \in 0 .. 1
        /\ sign = 1 <=> 25 \in w
        /\ w3 = low + 2 * sign + 4 * up
        /\ byte(d, 24) = low + 254 * sign
    BY <2>1, <1>4, <1>5, <1>6, <1>7 DEF Cut
  <2>3. byte(d, 0) = w0
    <3>1. \A i \in 0 .. 7 : 0 + i \in d <=> 0 + i \in w
      BY <1>14 DEF Extends
    <3> QED BY <1>4, <1>5, <1>6, <1>7, <3>1, EqualBytes
  <2>4. byte(d, 8) = w1
    <3>1. \A i \in 0 .. 7 : 8 + i \in d <=> 8 + i \in w
      BY <1>14 DEF Extends
    <3> QED BY <1>4, <1>5, <1>6, <1>7, <3>1, EqualBytes
  <2>5. byte(d, 16) = w2
    <3>1. \A i \in 0 .. 7 : 16 + i \in d <=> 16 + i \in w
      BY <1>14 DEF Extends
    <3> QED BY <1>4, <1>5, <1>6, <1>7, <3>1, EqualBytes
  <2>6. top(d) = 256 * sign BY <1>14, <2>2 DEF Extends
  <2> HIDE DEF top
  <2>7. int32(d) =
          w0 + 256 * w1 + 65536 * w2
          + 16777216 * ((low + 254 * sign) - 256 * sign)
    BY <1>2, <2>2, <2>3, <2>4, <2>5, <2>6
  <2>8. int32(d) = w0 + 256 * w1 + 65536 * w2 + 16777216 * low - 33554432 * sign
    BY <2>2, <2>7
  <2> DEFINE above == sign + up - t \div 4
  <2>9. above \in Int /\ int32(d) - int32(w) = 67108864 * (- above)
    BY <1>9, <2>2, <2>8
  <2>10. 2 ^ n = 67108864 /\ 2 ^ (n - 1) = 33554432 BY <1>14
  <2>11. - 33554432 <= int32(d) /\ int32(d) < 33554432
    BY <2>2, <2>8
  <2> HIDE DEF above
  <2>12. (int32(d) - int32(w)) % 67108864 = 0
    BY <2>9, Multiples
  <2> QED BY <2>10, <2>11, <2>12
<1> QED BY <1>10, <1>11, <1>12, <1>13, <1>14

\* b0 to b7 are the lowest bits of a number.
Digits(q, b0, b1, b2, b3, b4, b5, b6, b7) ==
  /\ b0 = 1 <=> q % 2 = 1
  /\ b1 = 1 <=> (q \div 2) % 2 = 1
  /\ b2 = 1 <=> (q \div 4) % 2 = 1
  /\ b3 = 1 <=> (q \div 8) % 2 = 1
  /\ b4 = 1 <=> (q \div 16) % 2 = 1
  /\ b5 = 1 <=> (q \div 32) % 2 = 1
  /\ b6 = 1 <=> (q \div 64) % 2 = 1
  /\ b7 = 1 <=> (q \div 128) % 2 = 1

LEMMA EightBits ==
  ASSUME NEW q \in Int,
         NEW b0 \in 0 .. 1, NEW b1 \in 0 .. 1, NEW b2 \in 0 .. 1,
         NEW b3 \in 0 .. 1, NEW b4 \in 0 .. 1, NEW b5 \in 0 .. 1,
         NEW b6 \in 0 .. 1, NEW b7 \in 0 .. 1,
         Digits(q, b0, b1, b2, b3, b4, b5, b6, b7)
  PROVE  b0 + 2 * b1 + 4 * b2 + 8 * b3 + 16 * b4 + 32 * b5 + 64 * b6 + 128 * b7
           + 256 * (q \div 256) = q
<1> DEFINE h(k) == q \div k
<1>1. /\ h(2) \in Int /\ h(4) \in Int /\ h(8) \in Int /\ h(16) \in Int
      /\ h(32) \in Int /\ h(64) \in Int /\ h(128) \in Int /\ h(256) \in Int
  OBVIOUS
<1>2. q = 2 * h(2) + b0 BY DEF Digits
<1>3. h(2) = 2 * h(4) + b1 BY DEF Digits
<1>4. h(4) = 2 * h(8) + b2 BY DEF Digits
<1>5. h(8) = 2 * h(16) + b3 BY DEF Digits
<1>6. h(16) = 2 * h(32) + b4 BY DEF Digits
<1>7. h(32) = 2 * h(64) + b5 BY DEF Digits
<1>8. h(64) = 2 * h(128) + b6 BY DEF Digits
<1>9. h(128) = 2 * h(256) + b7 BY DEF Digits
<1> HIDE DEF h
<1>10. PICK h1 \in Int : h(2) = h1 BY <1>1
<1>11. PICK h2 \in Int : h(4) = h2 BY <1>1
<1>12. PICK h3 \in Int : h(8) = h3 BY <1>1
<1>13. PICK h4 \in Int : h(16) = h4 BY <1>1
<1>14. PICK h5 \in Int : h(32) = h5 BY <1>1
<1>15. PICK h6 \in Int : h(64) = h6 BY <1>1
<1>16. PICK h7 \in Int : h(128) = h7 BY <1>1
<1>17. PICK h8 \in Int : h(256) = h8 BY <1>1
<1>18. /\ q = 2 * h1 + b0 /\ h1 = 2 * h2 + b1 /\ h2 = 2 * h3 + b2
       /\ h3 = 2 * h4 + b3
  BY <1>2, <1>3, <1>4, <1>5, <1>10, <1>11, <1>12, <1>13
<1>19. /\ h4 = 2 * h5 + b4 /\ h5 = 2 * h6 + b5 /\ h6 = 2 * h7 + b6
       /\ h7 = 2 * h8 + b7
  BY <1>6, <1>7, <1>8, <1>9, <1>13, <1>14, <1>15, <1>16, <1>17
<1>20. b0 + 2 * b1 + 4 * b2 + 8 * b3 + 16 * b4 + 32 * b5 + 64 * b6 + 128 * b7
         + 256 * h8 = q
  BY <1>18, <1>19
<1> QED BY <1>17, <1>20 DEF h

\* A byte of a number's two's complement.
LEMMA ByteOfNumber ==
  ASSUME NEW n \in - 2 ^ 31 .. 2 ^ 31 - 1
  PROVE  /\ byte(bits(n), 0) = n - 256 * (n \div 256)
         /\ byte(bits(n), 8) = n \div 256 - 256 * (n \div 2 ^ 16)
         /\ byte(bits(n), 16) = n \div 2 ^ 16 - 256 * (n \div 2 ^ 24)
         /\ byte(bits(n), 24) =
              n \div 2 ^ 24 + IF n < 0 THEN 256 ELSE 0
<1>0. /\ n \in Int /\ n \div 256 \in Int /\ n \div 2 ^ 16 \in Int
      /\ n \div 2 ^ 24 \in -128 .. 127
      /\ (n \div 2 ^ 24) \div 256 = IF n < 0 THEN -1 ELSE 0
      /\ (n \div 256) \div 256 = n \div 2 ^ 16
      /\ (n \div 2 ^ 16) \div 256 = n \div 2 ^ 24
      /\ ((n \div 2 ^ 24) \div 128) % 2 = 1 <=> n < 0
  OBVIOUS
<1>1. ASSUME NEW k \in 0 .. 30
      PROVE  k \in bits(n) <=> (n \div 2 ^ k) % 2 = 1
  BY DEF bits
<1>2. 31 \in bits(n) <=> n < 0 BY DEF bits
<1>3. byte(bits(n), 0) + 256 * ((n) \div 256) = n
  <2>1. PICK b0, b1, b2, b3, b4, b5, b6, b7 \in 0 .. 1 :
          Spells(bits(n), 0, b0, b1, b2, b3, b4, b5, b6, b7)
    BY ByteBits
  <2>2. PICK q \in Int : q = n BY <1>0
  <2>3. b0 = 1 <=> q % 2 = 1
    <3>1. (n \div 2 ^ 0) = q BY <2>2
    <3>2. 0 \in bits(n) <=> (n \div 2 ^ 0) % 2 = 1 BY <1>1
    <3> QED BY <2>1, <3>1, <3>2 DEF Spells
  <2>4. b1 = 1 <=> (q \div 2) % 2 = 1
    <3>1. (n \div 2 ^ 1) = (q \div 2) BY <2>2
    <3>2. 1 \in bits(n) <=> (n \div 2 ^ 1) % 2 = 1 BY <1>1
    <3> QED BY <2>1, <3>1, <3>2 DEF Spells
  <2>5. b2 = 1 <=> (q \div 4) % 2 = 1
    <3>1. (n \div 2 ^ 2) = (q \div 4) BY <2>2
    <3>2. 2 \in bits(n) <=> (n \div 2 ^ 2) % 2 = 1 BY <1>1
    <3> QED BY <2>1, <3>1, <3>2 DEF Spells
  <2>6. b3 = 1 <=> (q \div 8) % 2 = 1
    <3>1. (n \div 2 ^ 3) = (q \div 8) BY <2>2
    <3>2. 3 \in bits(n) <=> (n \div 2 ^ 3) % 2 = 1 BY <1>1
    <3> QED BY <2>1, <3>1, <3>2 DEF Spells
  <2>7. b4 = 1 <=> (q \div 16) % 2 = 1
    <3>1. (n \div 2 ^ 4) = (q \div 16) BY <2>2
    <3>2. 4 \in bits(n) <=> (n \div 2 ^ 4) % 2 = 1 BY <1>1
    <3> QED BY <2>1, <3>1, <3>2 DEF Spells
  <2>8. b5 = 1 <=> (q \div 32) % 2 = 1
    <3>1. (n \div 2 ^ 5) = (q \div 32) BY <2>2
    <3>2. 5 \in bits(n) <=> (n \div 2 ^ 5) % 2 = 1 BY <1>1
    <3> QED BY <2>1, <3>1, <3>2 DEF Spells
  <2>9. b6 = 1 <=> (q \div 64) % 2 = 1
    <3>1. (n \div 2 ^ 6) = (q \div 64) BY <2>2
    <3>2. 6 \in bits(n) <=> (n \div 2 ^ 6) % 2 = 1 BY <1>1
    <3> QED BY <2>1, <3>1, <3>2 DEF Spells
  <2>10. b7 = 1 <=> (q \div 128) % 2 = 1
    <3>1. (n \div 2 ^ 7) = (q \div 128) BY <2>2
    <3>2. 7 \in bits(n) <=> (n \div 2 ^ 7) % 2 = 1 BY <1>1
    <3> QED BY <2>1, <3>1, <3>2 DEF Spells
  <2>11. byte(bits(n), 0) = b0 + 2 * b1 + 4 * b2 + 8 * b3 + 16 * b4
                                + 32 * b5 + 64 * b6 + 128 * b7
    BY <2>1 DEF Spells
  <2>12. Digits(q, b0, b1, b2, b3, b4, b5, b6, b7)
    BY <2>3, <2>4, <2>5, <2>6, <2>7, <2>8, <2>9, <2>10 DEF Digits
  <2>13. b0 + 2 * b1 + 4 * b2 + 8 * b3 + 16 * b4 + 32 * b5 + 64 * b6 + 128 * b7
           + 256 * (q \div 256) = q
    BY <2>12, EightBits
  <2> QED BY <2>2, <2>11, <2>13
<1>4. byte(bits(n), 8) + 256 * ((n \div 256) \div 256) = n \div 256
  <2>1. PICK b0, b1, b2, b3, b4, b5, b6, b7 \in 0 .. 1 :
          Spells(bits(n), 8, b0, b1, b2, b3, b4, b5, b6, b7)
    BY ByteBits
  <2>2. PICK q \in Int : q = n \div 256 BY <1>0
  <2>3. b0 = 1 <=> q % 2 = 1
    <3>1. (n \div 2 ^ 8) = q BY <2>2
    <3>2. 8 \in bits(n) <=> (n \div 2 ^ 8) % 2 = 1 BY <1>1
    <3> QED BY <2>1, <3>1, <3>2 DEF Spells
  <2>4. b1 = 1 <=> (q \div 2) % 2 = 1
    <3>1. (n \div 2 ^ 9) = (q \div 2) BY <2>2
    <3>2. 9 \in bits(n) <=> (n \div 2 ^ 9) % 2 = 1 BY <1>1
    <3> QED BY <2>1, <3>1, <3>2 DEF Spells
  <2>5. b2 = 1 <=> (q \div 4) % 2 = 1
    <3>1. (n \div 2 ^ 10) = (q \div 4) BY <2>2
    <3>2. 10 \in bits(n) <=> (n \div 2 ^ 10) % 2 = 1 BY <1>1
    <3> QED BY <2>1, <3>1, <3>2 DEF Spells
  <2>6. b3 = 1 <=> (q \div 8) % 2 = 1
    <3>1. (n \div 2 ^ 11) = (q \div 8) BY <2>2
    <3>2. 11 \in bits(n) <=> (n \div 2 ^ 11) % 2 = 1 BY <1>1
    <3> QED BY <2>1, <3>1, <3>2 DEF Spells
  <2>7. b4 = 1 <=> (q \div 16) % 2 = 1
    <3>1. (n \div 2 ^ 12) = (q \div 16) BY <2>2
    <3>2. 12 \in bits(n) <=> (n \div 2 ^ 12) % 2 = 1 BY <1>1
    <3> QED BY <2>1, <3>1, <3>2 DEF Spells
  <2>8. b5 = 1 <=> (q \div 32) % 2 = 1
    <3>1. (n \div 2 ^ 13) = (q \div 32) BY <2>2
    <3>2. 13 \in bits(n) <=> (n \div 2 ^ 13) % 2 = 1 BY <1>1
    <3> QED BY <2>1, <3>1, <3>2 DEF Spells
  <2>9. b6 = 1 <=> (q \div 64) % 2 = 1
    <3>1. (n \div 2 ^ 14) = (q \div 64) BY <2>2
    <3>2. 14 \in bits(n) <=> (n \div 2 ^ 14) % 2 = 1 BY <1>1
    <3> QED BY <2>1, <3>1, <3>2 DEF Spells
  <2>10. b7 = 1 <=> (q \div 128) % 2 = 1
    <3>1. (n \div 2 ^ 15) = (q \div 128) BY <2>2
    <3>2. 15 \in bits(n) <=> (n \div 2 ^ 15) % 2 = 1 BY <1>1
    <3> QED BY <2>1, <3>1, <3>2 DEF Spells
  <2>11. byte(bits(n), 8) = b0 + 2 * b1 + 4 * b2 + 8 * b3 + 16 * b4
                                + 32 * b5 + 64 * b6 + 128 * b7
    BY <2>1 DEF Spells
  <2>12. Digits(q, b0, b1, b2, b3, b4, b5, b6, b7)
    BY <2>3, <2>4, <2>5, <2>6, <2>7, <2>8, <2>9, <2>10 DEF Digits
  <2>13. b0 + 2 * b1 + 4 * b2 + 8 * b3 + 16 * b4 + 32 * b5 + 64 * b6 + 128 * b7
           + 256 * (q \div 256) = q
    BY <2>12, EightBits
  <2> QED BY <2>2, <2>11, <2>13
<1>5. byte(bits(n), 16) + 256 * ((n \div 2 ^ 16) \div 256) = n \div 2 ^ 16
  <2>1. PICK b0, b1, b2, b3, b4, b5, b6, b7 \in 0 .. 1 :
          Spells(bits(n), 16, b0, b1, b2, b3, b4, b5, b6, b7)
    BY ByteBits
  <2>2. PICK q \in Int : q = n \div 2 ^ 16 BY <1>0
  <2>3. b0 = 1 <=> q % 2 = 1
    <3>1. (n \div 2 ^ 16) = q BY <2>2
    <3>2. 16 \in bits(n) <=> (n \div 2 ^ 16) % 2 = 1 BY <1>1
    <3> QED BY <2>1, <3>1, <3>2 DEF Spells
  <2>4. b1 = 1 <=> (q \div 2) % 2 = 1
    <3>1. (n \div 2 ^ 17) = (q \div 2) BY <2>2
    <3>2. 17 \in bits(n) <=> (n \div 2 ^ 17) % 2 = 1 BY <1>1
    <3> QED BY <2>1, <3>1, <3>2 DEF Spells
  <2>5. b2 = 1 <=> (q \div 4) % 2 = 1
    <3>1. (n \div 2 ^ 18) = (q \div 4) BY <2>2
    <3>2. 18 \in bits(n) <=> (n \div 2 ^ 18) % 2 = 1 BY <1>1
    <3> QED BY <2>1, <3>1, <3>2 DEF Spells
  <2>6. b3 = 1 <=> (q \div 8) % 2 = 1
    <3>1. (n \div 2 ^ 19) = (q \div 8) BY <2>2
    <3>2. 19 \in bits(n) <=> (n \div 2 ^ 19) % 2 = 1 BY <1>1
    <3> QED BY <2>1, <3>1, <3>2 DEF Spells
  <2>7. b4 = 1 <=> (q \div 16) % 2 = 1
    <3>1. (n \div 2 ^ 20) = (q \div 16) BY <2>2
    <3>2. 20 \in bits(n) <=> (n \div 2 ^ 20) % 2 = 1 BY <1>1
    <3> QED BY <2>1, <3>1, <3>2 DEF Spells
  <2>8. b5 = 1 <=> (q \div 32) % 2 = 1
    <3>1. (n \div 2 ^ 21) = (q \div 32) BY <2>2
    <3>2. 21 \in bits(n) <=> (n \div 2 ^ 21) % 2 = 1 BY <1>1
    <3> QED BY <2>1, <3>1, <3>2 DEF Spells
  <2>9. b6 = 1 <=> (q \div 64) % 2 = 1
    <3>1. (n \div 2 ^ 22) = (q \div 64) BY <2>2
    <3>2. 22 \in bits(n) <=> (n \div 2 ^ 22) % 2 = 1 BY <1>1
    <3> QED BY <2>1, <3>1, <3>2 DEF Spells
  <2>10. b7 = 1 <=> (q \div 128) % 2 = 1
    <3>1. (n \div 2 ^ 23) = (q \div 128) BY <2>2
    <3>2. 23 \in bits(n) <=> (n \div 2 ^ 23) % 2 = 1 BY <1>1
    <3> QED BY <2>1, <3>1, <3>2 DEF Spells
  <2>11. byte(bits(n), 16) = b0 + 2 * b1 + 4 * b2 + 8 * b3 + 16 * b4
                                + 32 * b5 + 64 * b6 + 128 * b7
    BY <2>1 DEF Spells
  <2>12. Digits(q, b0, b1, b2, b3, b4, b5, b6, b7)
    BY <2>3, <2>4, <2>5, <2>6, <2>7, <2>8, <2>9, <2>10 DEF Digits
  <2>13. b0 + 2 * b1 + 4 * b2 + 8 * b3 + 16 * b4 + 32 * b5 + 64 * b6 + 128 * b7
           + 256 * (q \div 256) = q
    BY <2>12, EightBits
  <2> QED BY <2>2, <2>11, <2>13
<1>6. byte(bits(n), 24) + 256 * ((n \div 2 ^ 24) \div 256) = n \div 2 ^ 24
  <2>1. PICK b0, b1, b2, b3, b4, b5, b6, b7 \in 0 .. 1 :
          Spells(bits(n), 24, b0, b1, b2, b3, b4, b5, b6, b7)
    BY ByteBits
  <2>2. PICK q \in Int : q = n \div 2 ^ 24 BY <1>0
  <2>3. b0 = 1 <=> q % 2 = 1
    <3>1. (n \div 2 ^ 24) = q BY <2>2
    <3>2. 24 \in bits(n) <=> (n \div 2 ^ 24) % 2 = 1 BY <1>1
    <3> QED BY <2>1, <3>1, <3>2 DEF Spells
  <2>4. b1 = 1 <=> (q \div 2) % 2 = 1
    <3>1. (n \div 2 ^ 25) = (q \div 2) BY <2>2
    <3>2. 25 \in bits(n) <=> (n \div 2 ^ 25) % 2 = 1 BY <1>1
    <3> QED BY <2>1, <3>1, <3>2 DEF Spells
  <2>5. b2 = 1 <=> (q \div 4) % 2 = 1
    <3>1. (n \div 2 ^ 26) = (q \div 4) BY <2>2
    <3>2. 26 \in bits(n) <=> (n \div 2 ^ 26) % 2 = 1 BY <1>1
    <3> QED BY <2>1, <3>1, <3>2 DEF Spells
  <2>6. b3 = 1 <=> (q \div 8) % 2 = 1
    <3>1. (n \div 2 ^ 27) = (q \div 8) BY <2>2
    <3>2. 27 \in bits(n) <=> (n \div 2 ^ 27) % 2 = 1 BY <1>1
    <3> QED BY <2>1, <3>1, <3>2 DEF Spells
  <2>7. b4 = 1 <=> (q \div 16) % 2 = 1
    <3>1. (n \div 2 ^ 28) = (q \div 16) BY <2>2
    <3>2. 28 \in bits(n) <=> (n \div 2 ^ 28) % 2 = 1 BY <1>1
    <3> QED BY <2>1, <3>1, <3>2 DEF Spells
  <2>8. b5 = 1 <=> (q \div 32) % 2 = 1
    <3>1. (n \div 2 ^ 29) = (q \div 32) BY <2>2
    <3>2. 29 \in bits(n) <=> (n \div 2 ^ 29) % 2 = 1 BY <1>1
    <3> QED BY <2>1, <3>1, <3>2 DEF Spells
  <2>9. b6 = 1 <=> (q \div 64) % 2 = 1
    <3>1. (n \div 2 ^ 30) = (q \div 64) BY <2>2
    <3>2. 30 \in bits(n) <=> (n \div 2 ^ 30) % 2 = 1 BY <1>1
    <3> QED BY <2>1, <3>1, <3>2 DEF Spells
  <2>10. b7 = 1 <=> (q \div 128) % 2 = 1 BY <1>0, <1>2, <2>1, <2>2 DEF Spells
  <2>11. byte(bits(n), 24) = b0 + 2 * b1 + 4 * b2 + 8 * b3 + 16 * b4
                                + 32 * b5 + 64 * b6 + 128 * b7
    BY <2>1 DEF Spells
  <2>12. Digits(q, b0, b1, b2, b3, b4, b5, b6, b7)
    BY <2>3, <2>4, <2>5, <2>6, <2>7, <2>8, <2>9, <2>10 DEF Digits
  <2>13. b0 + 2 * b1 + 4 * b2 + 8 * b3 + 16 * b4 + 32 * b5 + 64 * b6 + 128 * b7
           + 256 * (q \div 256) = q
    BY <2>12, EightBits
  <2> QED BY <2>2, <2>11, <2>13
<1> QED
  <2>1. PICK n1 \in Int : n \div 256 = n1 BY <1>0
  <2>2. PICK n2 \in Int : n \div 2 ^ 16 = n2 BY <1>0
  <2>3. PICK n3 \in Int : n \div 2 ^ 24 = n3 BY <1>0
  <2>4. PICK minus \in -1 .. 0 : minus = IF n < 0 THEN -1 ELSE 0 OBVIOUS
  <2>5. n1 \div 256 = n2 /\ n2 \div 256 = n3 /\ n3 \div 256 = minus
    BY <1>0, <2>1, <2>2, <2>3, <2>4
  <2>6. PICK w0 \in Int : byte(bits(n), 0) = w0 BY ByteRange
  <2>7. PICK w1 \in Int : byte(bits(n), 8) = w1 BY ByteRange
  <2>8. PICK w2 \in Int : byte(bits(n), 16) = w2 BY ByteRange
  <2>9. PICK w3 \in Int : byte(bits(n), 24) = w3 BY ByteRange
  <2>10. w0 + 256 * n1 = n BY <1>3, <2>1, <2>6
  <2>11. w1 + 256 * n2 = n1 BY <1>4, <2>1, <2>5, <2>7
  <2>12. w2 + 256 * n3 = n2 BY <1>5, <2>2, <2>5, <2>8
  <2>13. w3 + 256 * minus = n3 BY <1>6, <2>3, <2>5, <2>9
  <2>14. /\ w0 = n - 256 * n1 /\ w1 = n1 - 256 * n2 /\ w2 = n2 - 256 * n3
         /\ w3 = n3 + IF n < 0 THEN 256 ELSE 0
    BY <2>4, <2>10, <2>11, <2>12, <2>13
  <2> QED BY <2>1, <2>2, <2>3, <2>6, <2>7, <2>8, <2>9, <2>14

\* int32 undoes bits.
LEMMA IntRoundTrip ==
  ASSUME NEW n \in - 2 ^ 31 .. 2 ^ 31 - 1
  PROVE  int32(bits(n)) = n /\ bits(n) \in uint32
<1>1. 31 \in bits(n) <=> n < 0 BY DEF bits
<1>2. PICK n1 \in Int : n \div 256 = n1 OBVIOUS
<1>3. PICK n2 \in Int : n \div 2 ^ 16 = n2 OBVIOUS
<1>4. PICK n3 \in Int : n \div 2 ^ 24 = n3 OBVIOUS
<1>5. PICK t \in {0, 256} : t = IF n < 0 THEN 256 ELSE 0 OBVIOUS
<1>6. int32(bits(n)) = (n - 256 * n1) + 256 * (n1 - 256 * n2)
                         + 2 ^ 16 * (n2 - 256 * n3) + 2 ^ 24 * ((n3 + t) - t)
  <2> DEFINE top == IF 31 \in bits(n) THEN 2 ^ 8 ELSE 0
  <2>1. top = t BY <1>1, <1>5
  <2>2. int32(bits(n)) = byte(bits(n), 0) + 256 * byte(bits(n), 8)
          + 2 ^ 16 * byte(bits(n), 16) + 2 ^ 24 * (byte(bits(n), 24) - top)
    BY DEF int32
  <2> HIDE DEF top
  <2>3. /\ byte(bits(n), 0) = n - 256 * n1
        /\ byte(bits(n), 8) = n1 - 256 * n2
        /\ byte(bits(n), 16) = n2 - 256 * n3
        /\ byte(bits(n), 24) = n3 + t
    <3>1. /\ byte(bits(n), 0) = n - 256 * (n \div 256)
          /\ byte(bits(n), 8) = n \div 256 - 256 * (n \div 2 ^ 16)
          /\ byte(bits(n), 16) = n \div 2 ^ 16 - 256 * (n \div 2 ^ 24)
          /\ byte(bits(n), 24) =
               n \div 2 ^ 24 + IF n < 0 THEN 256 ELSE 0
      BY ByteOfNumber
    <3> QED BY <1>2, <1>3, <1>4, <1>5, <3>1
  <2> QED BY <2>1, <2>2, <2>3
<1>7. int32(bits(n)) = n BY <1>6
<1>8. bits(n) \in uint32 BY DEF bits, uint32, Bit
<1> QED BY <1>7, <1>8
-----------------------------------------------------------------------------
(* A line of a program. *)

\* A number decoded by sign extension is the number written, if it fits.
LEMMA SignedFieldRecovered ==
  ASSUME NEW field \in DOMAIN width, NEW number \in uint32, NEW d,
         d = sign_extend(GET_BOTTOM_BITS(number, width[field]), width[field])
  PROVE  d = number \/ ~fits(number, width[field])
<1>1. width[field] \in 1 .. 31 BY DEF width
<1> QED BY <1>1, SignExtended

\* The integer of the n bits of a field, of the field's range and equal to the
\* written one modulo the field's size.
Agrees(field, number, n) ==
  /\ - 2 ^ (n - 1) <= int32(field) /\ int32(field) < 2 ^ (n - 1)
  /\ (int32(field) - int32(number)) % 2 ^ n = 0

LEMMA NumberAgrees ==
  ASSUME NEW field \in DOMAIN width, NEW number \in uint32, NEW d,
         d = sign_extend(GET_BOTTOM_BITS(number, width[field]), width[field])
  PROVE  Agrees(d, number, width[field])
<1> DEFINE n == width[field]
<1>1. n \in 1 .. 31 /\ n \in {15, 16, 21, 23, 26} BY DEF width
<1>2. d = sign_extend(GET_BOTTOM_BITS(number, n), n) OBVIOUS
<1> HIDE DEF n
<1>3. Extends(d, number, n) BY <1>1, <1>2, ExtendedBits
<1>4. Agrees(d, number, n) BY <1>1, <1>3, ExtendedNumber DEF Agrees
<1> QED BY <1>4 DEF n

LEMMA IntType ==
  ASSUME NEW v
  PROVE  int32(v) \in Int
<1>1. PICK w0 \in 0 .. 255 : byte(v, 0) = w0 BY ByteRange
<1>2. PICK w1 \in 0 .. 255 : byte(v, 8) = w1 BY ByteRange
<1>3. PICK w2 \in 0 .. 255 : byte(v, 16) = w2 BY ByteRange
<1>4. PICK w3 \in 0 .. 255 : byte(v, 24) = w3 BY ByteRange
<1>5. PICK t \in {0, 2 ^ 8} : t = IF 31 \in v THEN 2 ^ 8 ELSE 0 OBVIOUS
<1>6. int32(v) = w0 + 2 ^ 8 * w1 + 2 ^ 16 * w2 + 2 ^ 24 * (w3 - t)
  BY <1>1, <1>2, <1>3, <1>4, <1>5 DEF int32
<1> QED BY <1>6

\* A number of a field's range is decoded as itself.
LEMMA NumberRecovered ==
  ASSUME NEW field \in DOMAIN width,
         NEW n \in - 2 ^ (width[field] - 1) .. 2 ^ (width[field] - 1) - 1
  PROVE  int32(sign_extend(GET_BOTTOM_BITS(bits(n), width[field]),
                           width[field])) = n
<1> DEFINE w == width[field]
           d == sign_extend(GET_BOTTOM_BITS(bits(n), w), w)
<1>1. w \in {15, 16, 21, 23, 26} BY DEF width
<1>2. n \in - 2 ^ (w - 1) .. 2 ^ (w - 1) - 1 OBVIOUS
<1> HIDE DEF w
<1>3. n \in - 2 ^ 31 .. 2 ^ 31 - 1
  <2>1. CASE w = 15 BY <1>2, <2>1
  <2>2. CASE w = 16 BY <1>2, <2>2
  <2>3. CASE w = 21 BY <1>2, <2>3
  <2>4. CASE w = 23 BY <1>2, <2>4
  <2>5. CASE w = 26 BY <1>2, <2>5
  <2> QED BY <1>1, <2>1, <2>2, <2>3, <2>4, <2>5
<1>4. int32(bits(n)) = n /\ bits(n) \in uint32 BY <1>3, IntRoundTrip
<1>5. Agrees(d, bits(n), w)
  BY <1>4, NumberAgrees DEF w
<1> HIDE DEF d
<1>6. PICK k \in Int : int32(d) = k BY IntType
<1>7. /\ - 2 ^ (w - 1) <= k /\ k < 2 ^ (w - 1)
      /\ (k - n) % 2 ^ w = 0
  BY <1>4, <1>5, <1>6 DEF Agrees
<1>8. k = n
  <2>1. CASE w = 15 BY <1>2, <1>7, <2>1
  <2>2. CASE w = 16 BY <1>2, <1>7, <2>2
  <2>3. CASE w = 21 BY <1>2, <1>7, <2>3
  <2>4. CASE w = 23 BY <1>2, <1>7, <2>4
  <2>5. CASE w = 26 BY <1>2, <1>7, <2>5
  <2> QED BY <1>1, <2>1, <2>2, <2>3, <2>4, <2>5
<1> QED BY <1>6, <1>8 DEF d, w

\* The number of a register takes five bits.
LEMMA RegisterBits ==
  ASSUME NEW r \in 0 .. 31
  PROVE  bits(r) \in SUBSET (0 .. 4) /\ int32(bits(r)) = r
<1>0. r \in - 2 ^ 31 .. 2 ^ 31 - 1 OBVIOUS
<1>1. bits(r) \in uint32 /\ int32(bits(r)) = r BY <1>0, IntRoundTrip
<1>2. /\ r \div 256 = 0 /\ r \div 2 ^ 16 = 0 /\ r \div 2 ^ 24 = 0
  OBVIOUS
<1>3. /\ byte(bits(r), 0) = r /\ byte(bits(r), 8) = 0
      /\ byte(bits(r), 16) = 0 /\ byte(bits(r), 24) = 0
  <2>1. /\ byte(bits(r), 0) = r - 256 * (r \div 256)
        /\ byte(bits(r), 8) = r \div 256 - 256 * (r \div 2 ^ 16)
        /\ byte(bits(r), 16) = r \div 2 ^ 16 - 256 * (r \div 2 ^ 24)
        /\ byte(bits(r), 24) = r \div 2 ^ 24 + IF r < 0 THEN 256 ELSE 0
    BY <1>0, ByteOfNumber
  <2> QED BY <1>2, <2>1
<1>4. 5 \notin bits(r) /\ 6 \notin bits(r) /\ 7 \notin bits(r)
  <2>1. PICK b0, b1, b2, b3, b4, b5, b6, b7 \in 0 .. 1 :
          Spells(bits(r), 0, b0, b1, b2, b3, b4, b5, b6, b7)
    BY ByteBits
  <2>2. b0 + 2 * b1 + 4 * b2 + 8 * b3 + 16 * b4 + 32 * b5 + 64 * b6 + 128 * b7
          = r
    BY <1>3, <2>1 DEF Spells
  <2>3. b5 # 1 /\ b6 # 1 /\ b7 # 1 BY <2>2
  <2> QED BY <2>1, <2>3 DEF Spells
<1>5. ASSUME NEW s \in {8, 16, 24}, NEW i \in 0 .. 7
      PROVE  s + i \notin bits(r)
  <2>1. PICK b0, b1, b2, b3, b4, b5, b6, b7 \in 0 .. 1 :
          Spells(bits(r), s, b0, b1, b2, b3, b4, b5, b6, b7)
    BY ByteBits
  <2>2. b0 + 2 * b1 + 4 * b2 + 8 * b3 + 16 * b4 + 32 * b5 + 64 * b6 + 128 * b7
          = 0
    BY <1>3, <2>1 DEF Spells
  <2>3. /\ b0 # 1 /\ b1 # 1 /\ b2 # 1 /\ b3 # 1
        /\ b4 # 1 /\ b5 # 1 /\ b6 # 1 /\ b7 # 1
    BY <2>2
  <2> QED BY <2>1, <2>3 DEF Spells
<1>6. ASSUME NEW k \in bits(r) PROVE k \in 0 .. 4
  <2>1. k \in 0 .. 31 BY <1>1, <1>6 DEF uint32, Bit
  <2>2. CASE k \in 8 .. 15
    <3>1. k - 8 \in 0 .. 7 /\ 8 + (k - 8) = k BY <2>2
    <3> QED BY <1>5, <1>6, <3>1
  <2>3. CASE k \in 16 .. 23
    <3>1. k - 16 \in 0 .. 7 /\ 16 + (k - 16) = k BY <2>3
    <3> QED BY <1>5, <1>6, <3>1
  <2>4. CASE k \in 24 .. 31
    <3>1. k - 24 \in 0 .. 7 /\ 24 + (k - 24) = k BY <2>4
    <3> QED BY <1>5, <1>6, <3>1
  <2> QED BY <1>4, <1>6, <2>1, <2>2, <2>3, <2>4
<1> QED BY <1>1, <1>6

\* A line with one number.
LEMMA OneNumber ==
  ASSUME NEW field \in DOMAIN width, NEW number, NEW d,
         DOMAIN written' \cap DOMAIN width = {field},
         written'[field] = number, decoded(IR') = d,
         Agrees(d[field], number, width[field])
  PROVE  NumbersRecovered'
<1>1. width[field] \in {15, 16, 21, 23, 26} BY DEF width
<1>2. ASSUME NEW n \in {15, 16, 21, 23, 26}
      PROVE  2 * 2 ^ (n - 1) = 2 ^ n
  <2>1. CASE n = 15 BY <2>1
  <2>2. CASE n = 16 BY <2>2
  <2>3. CASE n = 21 BY <2>3
  <2>4. CASE n = 23 BY <2>4
  <2>5. CASE n = 26 BY <2>5
  <2> QED BY <2>1, <2>2, <2>3, <2>4, <2>5
<1>3. 2 * 2 ^ (width[field] - 1) = 2 ^ width[field] BY <1>1, <1>2
<1> QED BY <1>3 DEF Agrees, NumbersRecovered

LEMMA NoNumber ==
  ASSUME DOMAIN written' \cap DOMAIN width = {}
  PROVE  NumbersRecovered'
BY DEF NumbersRecovered

\* One line written and read back, whichever macro it is written with.
LEMMA LineRecovered ==
  ASSUME EncodingAssumption, Next
  PROVE  FieldsRecovered' /\ NumbersRecovered'
<1>1. CASE write_register_op
  <2>1. PICK name \in register_mnemonic, dest, sr1, sr2 \in NAMES :
          /\ written' = [opcode |-> OPCODE[name], destination_reg1 |-> dest,
                      source_reg1 |-> sr1, source_reg2 |-> sr2,
                      immediate_mode |-> {}]
          /\ IR' = REGISTER_OP(OPCODE[name], dest, sr1, sr2)
    BY <1>1 DEF write_register_op
  <2>2. OPCODE[name] \in SUBSET (0 .. 5)
    <3>1. name \in DOMAIN OPCODE BY DEF OPCODE, register_mnemonic
    <3> QED BY <3>1, OpcodeBits
  <2>3. /\ dest \in SUBSET (0 .. 4)
        /\ sr1 \in SUBSET (0 .. 4)
        /\ sr2 \in SUBSET (0 .. 4)
    BY EncodingAssumption DEF EncodingAssumption
  <2> DEFINE d == decoded(REGISTER_OP(OPCODE[name], dest, sr1, sr2))
  <2>4. /\ d.opcode = OPCODE[name]
        /\ d.destination_reg1 = dest
        /\ d.source_reg1 = sr1
        /\ d.source_reg2 = sr2
        /\ d.immediate_mode = {}
    BY <2>2, <2>3, RegisterOpDecoded
  <2> HIDE DEF d
  <2>7. DOMAIN written' =
          {"opcode", "destination_reg1", "source_reg1", "source_reg2",
           "immediate_mode"}
    BY <2>1
  <2>8. /\ written'.opcode = OPCODE[name]
        /\ written'.destination_reg1 = dest
        /\ written'.source_reg1 = sr1
        /\ written'.source_reg2 = sr2
        /\ written'.immediate_mode = {}
    BY <2>1
  <2>9. decoded(IR') = d BY <2>1 DEF d
  <2>10. DOMAIN written' \cap DOMAIN width = {} BY <2>7 DEF width
  <2> QED BY <2>4, <2>7, <2>8, <2>9, <2>10, NoNumber DEF FieldsRecovered
<1>2. CASE write_immediate_op
  <2>1. PICK name \in immediate_mnemonic, dest, sr \in NAMES,
             imm15 \in OFFSETS :
          /\ written' = [opcode |-> OPCODE[name], destination_reg1 |-> dest,
                      source_reg1 |-> sr, immediate_mode |-> {0},
                      ALU_immediate_bits |-> imm15]
          /\ IR' = IMMEDIATE_OP(OPCODE[name], dest, sr, imm15)
    BY <1>2 DEF write_immediate_op
  <2>2. OPCODE[name] \in SUBSET (0 .. 5)
    <3>1. name \in DOMAIN OPCODE
      BY DEF OPCODE, immediate_mnemonic, register_mnemonic
    <3> QED BY <3>1, OpcodeBits
  <2>3. /\ dest \in SUBSET (0 .. 4)
        /\ sr \in SUBSET (0 .. 4)
        /\ imm15 \in uint32
    BY EncodingAssumption DEF EncodingAssumption
  <2> DEFINE d == decoded(IMMEDIATE_OP(OPCODE[name], dest, sr, imm15))
  <2>4. /\ d.opcode = OPCODE[name]
        /\ d.destination_reg1 = dest
        /\ d.source_reg1 = sr
        /\ d.immediate_mode = {0}
        /\ d.ALU_immediate_bits = sign_extend(GET_BOTTOM_BITS(imm15, 15), 15)
    <3>1. /\ d.opcode = OPCODE[name] /\ d.destination_reg1 = dest
          /\ d.source_reg1 = sr /\ d.immediate_mode = {0}
      BY <2>2, <2>3, ImmediateOpDecoded, SMTT(30)
    <3>2. d.ALU_immediate_bits = sign_extend(GET_BOTTOM_BITS(imm15, 15), 15)
      BY <2>2, <2>3, ImmediateNumberDecoded
    <3> QED BY <3>1, <3>2
  <2> HIDE DEF d
  <2>5. "ALU_immediate_bits" \in DOMAIN width /\ width.ALU_immediate_bits = 15
    BY DEF width
  <2>6. d.ALU_immediate_bits = imm15 \/ ~fits(imm15, width.ALU_immediate_bits)
    BY <2>3, <2>4, <2>5, SignedFieldRecovered
  <2>7. DOMAIN written' =
          {"opcode", "destination_reg1", "source_reg1", "immediate_mode",
           "ALU_immediate_bits"}
    BY <2>1
  <2>8. /\ written'.opcode = OPCODE[name]
        /\ written'.destination_reg1 = dest
        /\ written'.source_reg1 = sr
        /\ written'.immediate_mode = {0}
        /\ written'.ALU_immediate_bits = imm15
    BY <2>1
  <2>9. decoded(IR') = d BY <2>1 DEF d
  <2>10. FieldsRecovered'
    BY <2>4, <2>5, <2>6, <2>7, <2>8, <2>9 DEF FieldsRecovered
  <2>11. Agrees(d.ALU_immediate_bits, imm15, width.ALU_immediate_bits)
    BY <2>3, <2>4, <2>5, NumberAgrees
  <2>12. DOMAIN written' \cap DOMAIN width = {"ALU_immediate_bits"}
    BY <2>7 DEF width
  <2>13. NumbersRecovered'
    BY <2>5, <2>8, <2>9, <2>11, <2>12, OneNumber
  <2> QED BY <2>10, <2>13
<1>3. CASE write_pc_relative
  <2>1. PICK name \in {"LOAD", "LOADA", "STORE"}, reg \in NAMES,
             imm21 \in OFFSETS :
          /\ written' = [opcode |-> OPCODE[name], destination_reg1 |-> reg,
                      load_pc_relative_offset_bits |-> imm21]
          /\ IR' = PC_RELATIVE(OPCODE[name], reg, imm21)
    BY <1>3 DEF write_pc_relative
  <2>2. OPCODE[name] \in SUBSET (0 .. 5)
    <3>1. name \in DOMAIN OPCODE BY DEF OPCODE
    <3> QED BY <3>1, OpcodeBits
  <2>3. /\ reg \in SUBSET (0 .. 4)
        /\ imm21 \in uint32
    BY EncodingAssumption DEF EncodingAssumption
  <2> DEFINE d == decoded(PC_RELATIVE(OPCODE[name], reg, imm21))
  <2>4. /\ d.opcode = OPCODE[name]
        /\ d.destination_reg1 = reg
        /\ d.load_pc_relative_offset_bits =
             sign_extend(GET_BOTTOM_BITS(imm21, 21), 21)
    BY <2>2, <2>3, PcRelativeDecoded
  <2> HIDE DEF d
  <2>5. /\ "load_pc_relative_offset_bits" \in DOMAIN width
        /\ width.load_pc_relative_offset_bits = 21
    BY DEF width
  <2>6. \/ d.load_pc_relative_offset_bits = imm21
        \/ ~fits(imm21, width.load_pc_relative_offset_bits)
    BY <2>3, <2>4, <2>5, SignedFieldRecovered
  <2>7. DOMAIN written' =
          {"opcode", "destination_reg1", "load_pc_relative_offset_bits"}
    BY <2>1
  <2>8. /\ written'.opcode = OPCODE[name]
        /\ written'.destination_reg1 = reg
        /\ written'.load_pc_relative_offset_bits = imm21
    BY <2>1
  <2>9. decoded(IR') = d BY <2>1 DEF d
  <2>10. FieldsRecovered'
    BY <2>4, <2>5, <2>6, <2>7, <2>8, <2>9 DEF FieldsRecovered
  <2>11. Agrees(d.load_pc_relative_offset_bits, imm21,
                width.load_pc_relative_offset_bits)
    BY <2>3, <2>4, <2>5, NumberAgrees
  <2>12. DOMAIN written' \cap DOMAIN width = {"load_pc_relative_offset_bits"}
    BY <2>7 DEF width
  <2>13. NumbersRecovered'
    BY <2>5, <2>8, <2>9, <2>11, <2>12, OneNumber
  <2> QED BY <2>10, <2>13
<1>4. CASE write_base_plus_offset
  <2>1. PICK name \in {"LOADR", "STORER", "JUMPR", "CALLR"},
             reg, base \in NAMES, imm16 \in OFFSETS :
          /\ written' = [opcode |-> OPCODE[name], destination_reg1 |-> reg,
                      source_reg1 |-> base,
                      base_register_offset_bits |-> imm16]
          /\ IR' = BASE_PLUS_OFFSET(OPCODE[name], reg, base, imm16)
    BY <1>4 DEF write_base_plus_offset
  <2>2. OPCODE[name] \in SUBSET (0 .. 5)
    <3>1. name \in DOMAIN OPCODE BY DEF OPCODE
    <3> QED BY <3>1, OpcodeBits
  <2>3. /\ reg \in SUBSET (0 .. 4)
        /\ base \in SUBSET (0 .. 4)
        /\ imm16 \in uint32
    BY EncodingAssumption DEF EncodingAssumption
  <2> DEFINE d == decoded(BASE_PLUS_OFFSET(OPCODE[name], reg, base, imm16))
  <2>4. /\ d.opcode = OPCODE[name]
        /\ d.destination_reg1 = reg
        /\ d.source_reg1 = base
        /\ d.base_register_offset_bits =
             sign_extend(GET_BOTTOM_BITS(imm16, 16), 16)
    BY <2>2, <2>3, BasePlusOffsetDecoded
  <2> HIDE DEF d
  <2>5. /\ "base_register_offset_bits" \in DOMAIN width
        /\ width.base_register_offset_bits = 16
    BY DEF width
  <2>6. \/ d.base_register_offset_bits = imm16
        \/ ~fits(imm16, width.base_register_offset_bits)
    BY <2>3, <2>4, <2>5, SignedFieldRecovered
  <2>7. DOMAIN written' =
          {"opcode", "destination_reg1", "source_reg1",
           "base_register_offset_bits"}
    BY <2>1
  <2>8. /\ written'.opcode = OPCODE[name]
        /\ written'.destination_reg1 = reg
        /\ written'.source_reg1 = base
        /\ written'.base_register_offset_bits = imm16
    BY <2>1
  <2>9. decoded(IR') = d BY <2>1 DEF d
  <2>10. FieldsRecovered'
    BY <2>4, <2>5, <2>6, <2>7, <2>8, <2>9 DEF FieldsRecovered
  <2>11. Agrees(d.base_register_offset_bits, imm16,
                width.base_register_offset_bits)
    BY <2>3, <2>4, <2>5, NumberAgrees
  <2>12. DOMAIN written' \cap DOMAIN width = {"base_register_offset_bits"}
    BY <2>7 DEF width
  <2>13. NumbersRecovered'
    BY <2>5, <2>8, <2>9, <2>11, <2>12, OneNumber
  <2> QED BY <2>10, <2>13
<1>5. CASE write_jump
  <2>1. PICK name \in {"JUMP", "CALL"}, offset \in OFFSETS :
          /\ written' = [opcode |-> OPCODE[name],
                      jump_pc_relative_offset_bits |-> offset]
          /\ IR' = JUMP_PC_RELATIVE(OPCODE[name], offset)
    BY <1>5 DEF write_jump
  <2>2. OPCODE[name] \in SUBSET (0 .. 5)
    <3>1. name \in DOMAIN OPCODE BY DEF OPCODE
    <3> QED BY <3>1, OpcodeBits
  <2>3. /\ offset \in uint32
    BY EncodingAssumption DEF EncodingAssumption
  <2> DEFINE d == decoded(JUMP_PC_RELATIVE(OPCODE[name], offset))
  <2>4. /\ d.opcode = OPCODE[name]
        /\ d.jump_pc_relative_offset_bits =
             sign_extend(GET_BOTTOM_BITS(offset, 26), 26)
    BY <2>2, <2>3, JumpDecoded
  <2> HIDE DEF d
  <2>5. /\ "jump_pc_relative_offset_bits" \in DOMAIN width
        /\ width.jump_pc_relative_offset_bits = 26
    BY DEF width
  <2>6. \/ d.jump_pc_relative_offset_bits = offset
        \/ ~fits(offset, width.jump_pc_relative_offset_bits)
    BY <2>3, <2>4, <2>5, SignedFieldRecovered
  <2>7. DOMAIN written' =
          {"opcode", "jump_pc_relative_offset_bits"}
    BY <2>1
  <2>8. /\ written'.opcode = OPCODE[name]
        /\ written'.jump_pc_relative_offset_bits = offset
    BY <2>1
  <2>9. decoded(IR') = d BY <2>1 DEF d
  <2>10. FieldsRecovered'
    BY <2>4, <2>5, <2>6, <2>7, <2>8, <2>9 DEF FieldsRecovered
  <2>11. Agrees(d.jump_pc_relative_offset_bits, offset,
                width.jump_pc_relative_offset_bits)
    BY <2>3, <2>4, <2>5, NumberAgrees
  <2>12. DOMAIN written' \cap DOMAIN width = {"jump_pc_relative_offset_bits"}
    BY <2>7 DEF width
  <2>13. NumbersRecovered'
    BY <2>5, <2>8, <2>9, <2>11, <2>12, OneNumber
  <2> QED BY <2>10, <2>13
<1>6. CASE write_branch
  <2>1. PICK codes \in SUBSET (0 .. 2), offset \in OFFSETS :
          /\ written' = [opcode |-> OPCODE.BRANCH,
                      instruction_condition_codes |-> codes,
                      branch_pc_relative_offset_bits |-> offset]
          /\ IR' = BRANCH_PC_RELATIVE(OPCODE.BRANCH, codes, offset)
    BY <1>6 DEF write_branch
  <2>2. OPCODE.BRANCH \in SUBSET (0 .. 5) BY DEF OPCODE
  <2>3. /\ codes \in SUBSET (0 .. 2)
        /\ offset \in uint32
    BY EncodingAssumption DEF EncodingAssumption
  <2> DEFINE d == decoded(BRANCH_PC_RELATIVE(OPCODE.BRANCH, codes, offset))
  <2>4. /\ d.opcode = OPCODE.BRANCH
        /\ d.instruction_condition_codes = codes
        /\ d.branch_pc_relative_offset_bits =
             sign_extend(GET_BOTTOM_BITS(offset, 23), 23)
    BY <2>2, <2>3, BranchDecoded
  <2> HIDE DEF d
  <2>5. /\ "branch_pc_relative_offset_bits" \in DOMAIN width
        /\ width.branch_pc_relative_offset_bits = 23
    BY DEF width
  <2>6. \/ d.branch_pc_relative_offset_bits = offset
        \/ ~fits(offset, width.branch_pc_relative_offset_bits)
    BY <2>3, <2>4, <2>5, SignedFieldRecovered
  <2>7. DOMAIN written' =
          {"opcode", "instruction_condition_codes",
           "branch_pc_relative_offset_bits"}
    BY <2>1
  <2>8. /\ written'.opcode = OPCODE.BRANCH
        /\ written'.instruction_condition_codes = codes
        /\ written'.branch_pc_relative_offset_bits = offset
    BY <2>1
  <2>9. decoded(IR') = d BY <2>1 DEF d
  <2>10. FieldsRecovered'
    BY <2>4, <2>5, <2>6, <2>7, <2>8, <2>9 DEF FieldsRecovered
  <2>11. Agrees(d.branch_pc_relative_offset_bits, offset,
                width.branch_pc_relative_offset_bits)
    BY <2>3, <2>4, <2>5, NumberAgrees
  <2>12. DOMAIN written' \cap DOMAIN width = {"branch_pc_relative_offset_bits"}
    BY <2>7 DEF width
  <2>13. NumbersRecovered'
    BY <2>5, <2>8, <2>9, <2>11, <2>12, OneNumber
  <2> QED BY <2>10, <2>13
<1>7. CASE next_line
  <2>1. DOMAIN written' = {} BY <1>7 DEF next_line, nothing
  <2>2. DOMAIN written' \cap DOMAIN width = {} BY <2>1
  <2> QED BY <2>1, <2>2, NoNumber DEF FieldsRecovered
<1> QED BY <1>1, <1>2, <1>3, <1>4, <1>5, <1>6, <1>7 DEF Next

\* Of every register number and every number that fits, as many bits as the
\* programmer wrote come back (preprocessor_assembler.h:17, cpu.c:239).
THEOREM FieldsAreRecovered == Spec => []FieldsRecovered
<1> USE EncodingAssumption
<1>1. Init => FieldsRecovered
  <2> SUFFICES ASSUME Init PROVE FieldsRecovered OBVIOUS
  <2>1. DOMAIN written = {} BY DEF Init, nothing
  <2> QED BY <2>1 DEF FieldsRecovered
<1>2. FieldsRecovered /\ [Next]_vars => FieldsRecovered'
  <2> SUFFICES ASSUME FieldsRecovered, [Next]_vars PROVE FieldsRecovered'
    OBVIOUS
  <2>1. CASE Next BY <2>1, LineRecovered
  <2>2. CASE UNCHANGED vars BY <2>2 DEF vars, FieldsRecovered
  <2> QED BY <2>1, <2>2
<1> QED BY <1>1, <1>2, PTL DEF Spec

\* Sign extension is arithmetic for each of the five widths and every number:
\* one that does not fit becomes the number of the field's range that agrees
\* with it modulo the field's size (cpu.c:70, preprocessor_assembler.h:19).
THEOREM NumbersAreRecovered == Spec => []NumbersRecovered
<1> USE EncodingAssumption
<1>1. Init => NumbersRecovered
  <2> SUFFICES ASSUME Init PROVE NumbersRecovered OBVIOUS
  <2>1. DOMAIN written = {} BY DEF Init, nothing
  <2> QED BY <2>1 DEF NumbersRecovered
<1>2. NumbersRecovered /\ [Next]_vars => NumbersRecovered'
  <2> SUFFICES ASSUME NumbersRecovered, [Next]_vars PROVE NumbersRecovered'
    OBVIOUS
  <2>1. CASE Next BY <2>1, LineRecovered
  <2>2. CASE UNCHANGED vars BY <2>2 DEF vars, NumbersRecovered
  <2> QED BY <2>1, <2>2
<1> QED BY <1>1, <1>2, PTL DEF Spec
=============================================================================
