------------------------------- MODULE Driver -------------------------------
(***************************************************************************)
(* src/main.c: the driver's program, which draws a box, assembled with the *)
(* macros, decoded by decode and run on the computer.  A word of it is     *)
(* held in memory as its index; the data words are held as they are.       *)
(***************************************************************************)
EXTENDS ComputerIsa, Latency, Decoder

CONSTANTS
  SCREEN_WIDTH, SCREEN_HEIGHT,  \* 640 and 480
  BOX_WIDTH, BOX_HEIGHT,        \* 100 and 100
  OVERREAD_LENGTH,              \* the words read past the end of program (100)
  OVERREAD                      \* and what may be there

ASSUME DriverAssumption ==
  /\ SCREEN_WIDTH \in Nat /\ SCREEN_HEIGHT \in Nat
  /\ SCREEN_WIDTH * SCREEN_HEIGHT = GRAPHICS_REGION_SIZE
  /\ BOX_WIDTH \in 1 .. SCREEN_WIDTH /\ BOX_HEIGHT \in 1 .. SCREEN_HEIGHT
  /\ OVERREAD_LENGTH \in Nat /\ OVERREAD \subseteq Word

STARTING_POSITION_IN_FRAME_BUFFER ==
  ((SCREEN_HEIGHT \div 2) - (BOX_HEIGHT \div 2)) * SCREEN_WIDTH
    + ((SCREEN_WIDTH \div 2) - (BOX_WIDTH \div 2))

\* RED | GREEN | BLUE: all bits set
WHITE == WORDS - 1
SOFTWARE_INTERRUPT_SOURCE == 47

R0 == 0
PIXEL_POSITION == 1
PIXEL_VALUE == 2
BOX_WIDTH_COUNTER == 4
BOX_HEIGHT_COUNTER == 5

INC(x) == ADD_IMMEDIATE(x, x, 1)
DEC(x) == ADD_IMMEDIATE(x, x, -1)
NOP == OR(R0, R0, R0)

\* Variant: the subroutine counted one word too near.
main_program_off_by_one == <<LOAD(R0, 3), CALL(6), NOP, HCF>>

main_program == <<LOAD(R0, 3), CALL(7), NOP, HCF>>

program_data ==
  <<SOFTWARE_INTERRUPT_SOURCE, BOX_WIDTH, BOX_HEIGHT,
    STARTING_POSITION_IN_FRAME_BUFFER, WHITE>>

draw_the_box_initialization ==
  <<LOAD(PIXEL_POSITION, -3), LOAD(PIXEL_VALUE, -3),
    LOAD(BOX_WIDTH_COUNTER, -7), LOAD(BOX_HEIGHT_COUNTER, -7)>>

\* Variant: the branch over the row's counter.
draw_the_row_endlessly ==
  <<STORER(PIXEL_VALUE, PIXEL_POSITION, GRAPHICS_REGION_START),
    INC(PIXEL_POSITION), DEC(BOX_WIDTH_COUNTER), BRP(-2)>>

draw_the_row ==
  <<STORER(PIXEL_VALUE, PIXEL_POSITION, GRAPHICS_REGION_START),
    INC(PIXEL_POSITION), DEC(BOX_WIDTH_COUNTER), BRP(-4)>>

\* Variant: the position is not taken back to the row's first column.
go_to_next_row_forward ==
  <<ADD_IMMEDIATE(BOX_WIDTH_COUNTER, BOX_WIDTH_COUNTER, BOX_WIDTH),
    ADD_IMMEDIATE(PIXEL_POSITION, PIXEL_POSITION, SCREEN_WIDTH),
    NOP, DEC(BOX_HEIGHT_COUNTER), BRP(-8), RETURN>>

\* Variant: the branch for a new row counted to the column's counter.
go_to_next_row_to_the_counter ==
  <<ADD_IMMEDIATE(BOX_WIDTH_COUNTER, BOX_WIDTH_COUNTER, BOX_WIDTH),
    ADD_IMMEDIATE(PIXEL_POSITION, PIXEL_POSITION, SCREEN_WIDTH),
    ADD_IMMEDIATE(PIXEL_POSITION, PIXEL_POSITION, -BOX_WIDTH),
    DEC(BOX_HEIGHT_COUNTER), BRP(-7), RETURN>>

go_to_next_row ==
  <<ADD_IMMEDIATE(BOX_WIDTH_COUNTER, BOX_WIDTH_COUNTER, BOX_WIDTH),
    ADD_IMMEDIATE(PIXEL_POSITION, PIXEL_POSITION, SCREEN_WIDTH),
    ADD_IMMEDIATE(PIXEL_POSITION, PIXEL_POSITION, -BOX_WIDTH),
    DEC(BOX_HEIGHT_COUNTER), BRP(-8), RETURN>>

\* The words of program that are data, and what the others are.
DataAddress == 4 .. 8
program ==
  main_program \o [i \in 1 .. 5 |-> bits(program_data[i])]
    \o draw_the_box_initialization \o draw_the_row \o go_to_next_row
InstructionAddress == (0 .. Len(program) - 1) \ DataAddress

HCF_ADDRESS == 3

\* computer_load_program(computer, program, PROGRAM_LENGTH), with the words
\* it finds behind the array, into a memory that calloc cleared.
DriverPrograms ==
  {[l \in Location |->
      IF l \in InstructionAddress THEN l
      ELSE IF l \in DataAddress THEN program_data[l - 3]
      ELSE IF l < Len(program) + OVERREAD_LENGTH THEN behind[l - Len(program)]
      ELSE 0] : behind \in [0 .. OVERREAD_LENGTH - 1 -> OVERREAD]}

\* decode, of the word that an index stands for; a number stands for itself.
DriverDecode ==
  [w \in Word |->
     LET d == decoded(IF w \in InstructionAddress THEN program[w + 1]
                      ELSE bits(w))
         signed(field) == int32(field) % WORDS
     IN  [opcode |-> get_instruction(d.opcode),
          destination_reg1 |-> int32(d.destination_reg1),
          source_reg1 |-> int32(d.source_reg1),
          source_reg2 |-> int32(d.source_reg2),
          immediate_mode |-> d.immediate_mode # {},
          instruction_condition_codes |->
            {<<"POSITIVE", "ZERO", "NEGATIVE">>[i + 1] :
               i \in d.instruction_condition_codes},
          ALU_immediate_bits |-> signed(d.ALU_immediate_bits),
          load_pc_relative_offset_bits |->
            signed(d.load_pc_relative_offset_bits),
          base_register_offset_bits |-> signed(d.base_register_offset_bits),
          jump_pc_relative_offset_bits |->
            signed(d.jump_pc_relative_offset_bits),
          branch_pc_relative_offset_bits |->
            signed(d.branch_pc_relative_offset_bits)]]

\* What the driver and the headers fix: its program is the one that is loaded
\* and decoded, it fits the memory below the frame buffer, and its numbers fit
\* the fields they are written to (memory_map.h, main.c:21).
ASSUME DriverFits ==
  /\ Reg = 0 .. 31 /\ PROGRAMS = DriverPrograms /\ Decode = DriverDecode
  /\ Len(program) <= MEM_SIZE /\ Len(program) <= BOOT_ROM_SIZE
  /\ SCREEN_WIDTH < 2 ^ 14 /\ GRAPHICS_REGION_START < 2 ^ 15
  /\ 2 * GRAPHICS_REGION_SIZE < WORDS
-----------------------------------------------------------------------------
(* What the program is for *)

Box ==
  {STARTING_POSITION_IN_FRAME_BUFFER + row * SCREEN_WIDTH + column :
     row \in 0 .. BOX_HEIGHT - 1, column \in 0 .. BOX_WIDTH - 1}

drawn == {p \in Pixel : frame_buffer[p] = WHITE}

\* The CPU is about to spin on HCF.
halted == pipeline_stage = "DECODE" /\ cpu.MAR = HCF_ADDRESS

\* Every offset in the program was counted by hand (main.c:31), and none leads
\* the CPU to its data, or past its end into the words that the driver reads
\* from behind the array.
OnlyInstructionsRun ==
  pipeline_stage = "DECODE" => cpu.MAR \in InstructionAddress

\* The stores stay in the box, whose rows are a screen's width apart
\* (main.c:89).
DrawsInsideBox ==
  {p \in Pixel : frame_buffer[p] # 0} = drawn /\ drawn \subseteq Box

\* The first row is drawn from its first column on, the others from their
\* second: the branch for a new row leads past the store (main.c:97).
first_drawn_column(row) == IF row = 0 THEN 0 ELSE 1

\* The pixels of the rows before row, and of row the columns before column.
drawn_before(row, column) ==
  {p \in Pixel :
     \E i \in 0 .. BOX_HEIGHT - 1 :
       \E j \in first_drawn_column(i) .. BOX_WIDTH - 1 :
         /\ i < row \/ (i = row /\ j < column)
         /\ p = STARTING_POSITION_IN_FRAME_BUFFER + i * SCREEN_WIDTH + j}

\* When the program halts the picture is there to the last pixel, and nothing
\* else is: the whole first row, and of the other rows all but the first
\* column (main.c:89).
PictureAtHalt == halted => drawn = drawn_before(BOX_HEIGHT, 0)

\* The nested loops end and the subroutine returns to the main program, all
\* before the overflow of the timer that ends the process: by then the whole
\* picture is drawn and the CPU is at HCF (main.c:89, timer.c:74).
BoxFinished ==
  ~running => drawn = drawn_before(BOX_HEIGHT, 0) /\ cpu.PC = HCF_ADDRESS

-----------------------------------------------------------------------------
(* What the program's registers hold at each of its instructions *)

\* The rows and the columns of the row that are finished.
current_row == BOX_HEIGHT - cpu.registers[BOX_HEIGHT_COUNTER]
current_column ==
  LET counted == BOX_WIDTH - cpu.registers[BOX_WIDTH_COUNTER]
  IN  CASE isa_PC \in {13, 16, 17} -> counted
        [] isa_PC \in {14, 15} -> counted + 1
        [] isa_PC \in {18, 19, 20} -> BOX_WIDTH
        [] OTHER -> 0

row_start ==
  STARTING_POSITION_IN_FRAME_BUFFER + current_row * SCREEN_WIDTH

\* PIXEL_POSITION, from the start of the row.
advance ==
  CASE isa_PC \in {13, 15, 16, 17, 18} -> current_column
    [] isa_PC = 14 -> current_column - 1
    [] isa_PC = 19 -> current_column + SCREEN_WIDTH
    [] isa_PC = 20 -> SCREEN_WIDTH
    [] OTHER -> 0

picture(pixels) == [p \in Pixel |-> IF p \in pixels THEN WHITE ELSE 0]
drawn_so_far ==
  IF isa_PC \in {0, 1} \cup 9 .. 12 THEN {}
  ELSE drawn_before(current_row, current_column)

\* The address of the next instruction, the words behind it and the way back.
ControlInv ==
  /\ isa_PC \in InstructionAddress
  /\ isa_process \in {"running", "exited"}
  /\ system_memory \in DriverPrograms
  /\ isa_PC >= 9 => cpu.registers[LINK_REGISTER] = 2

\* What the initialization has loaded.
LoadedInv ==
  /\ isa_PC \in 10 .. 12 =>
       cpu.registers[PIXEL_POSITION] = STARTING_POSITION_IN_FRAME_BUFFER
  /\ isa_PC \in 11 .. 21 => cpu.registers[PIXEL_VALUE] = WHITE
  /\ isa_PC \in {12} \cup 18 .. 21 =>
       cpu.registers[BOX_WIDTH_COUNTER] = BOX_WIDTH

\* The counters' ranges and the position that goes with them; the condition
\* codes that a branch is about to read are those of its counter.
LoopInv ==
  isa_PC \in 13 .. 21 =>
    LET wc == cpu.registers[BOX_WIDTH_COUNTER]
        hc == cpu.registers[BOX_HEIGHT_COUNTER]
    IN  /\ cpu.registers[PIXEL_POSITION] = row_start + advance
        /\ hc \in IF isa_PC = 21 THEN 0 .. BOX_HEIGHT - 1 ELSE 1 .. BOX_HEIGHT
        /\ wc \in IF isa_PC = 16 THEN 0 .. BOX_WIDTH - 1 ELSE 0 .. BOX_WIDTH
        /\ isa_PC \in 13 .. 15 => wc > 0
        /\ isa_PC = 13 => current_column >= first_drawn_column(current_row)
        /\ isa_PC = 16 => cpu.CCR = condition_code_bits(wc)
        /\ isa_PC = 17 => wc = 0
        /\ isa_PC = 21 => cpu.CCR = condition_code_bits(hc)

\* Past the last row the rows are counted out, and at every instruction the
\* frame buffer is the picture of the rows and columns finished so far.
PictureInv ==
  /\ isa_PC \in {2, 3, 22} => current_row = BOX_HEIGHT
  /\ frame_buffer = picture(drawn_so_far)

\* Position, counters, condition codes and frame buffer agree at every
\* instruction of the nested loops: each pixel is drawn where its row and
\* column say, and each branch leaves its loop when that is finished
\* (main.c:82-99).
ProgramInv == ControlInv /\ LoadedInv /\ LoopInv /\ PictureInv
-----------------------------------------------------------------------------
(* How long the program takes *)

\* Four instructions for each column of a row and five to the next row.
rows(n) == n * (4 * BOX_WIDTH + 5)

\* The instructions that come before HCF, of which there are never more.  A
\* row that begins at its second column has one less.
instructions_left ==
  LET wc == cpu.registers[BOX_WIDTH_COUNTER]
      hc == cpu.registers[BOX_HEIGHT_COUNTER]
  IN  CASE isa_PC \in 0 .. 1   -> rows(BOX_HEIGHT) + 8 - isa_PC
        [] isa_PC \in 9 .. 12  -> rows(BOX_HEIGHT) + 15 - isa_PC
        [] isa_PC \in 13 .. 15 -> rows(hc - 1) + 4 * wc + 20 - isa_PC
        [] isa_PC = 16         -> rows(hc - 1) + 4 * wc + 8
        [] isa_PC \in 17 .. 20 -> rows(hc - 1) + 24 - isa_PC
        [] isa_PC = 21         -> rows(hc) + 3
        [] isa_PC = 22         -> 2
        [] OTHER               -> HCF_ADDRESS - isa_PC

INSTRUCTIONS == rows(BOX_HEIGHT) + 8

\* The cycles of n instructions, the first stages included.
cycles(n) == n * (MAX_LATENCY + 1)

\* The instruction whose cycles cycles_left counts is still to have its effect.
begun == in_flight \/ pipeline_stage = "FETCH1"
instructions_after == instructions_left - (IF begun THEN 1 ELSE 0)

\* The timer starts ten seconds before its overflow, 250 000 000 cycles of
\* 25 MHz; the program takes less than 400 000 (timer.c:32, timer.c:74).
ASSUME DriverInTime ==
  \A start \in TIMER_STARTS : start + cycles(INSTRUCTIONS) < TIMER_VALUES

\* Until the timer overflows it has more cycles left than the program has to
\* HCF, and nothing else ends the process: no instruction hangs on the bus,
\* asks for an interrupt or crashes, and no loop begins a round too many
\* (timer.c:74, cpu.c:202, main.c:89).
DeadlineInv ==
  /\ overflowed => isa_PC = HCF_ADDRESS
  /\ ~overflowed => interrupt_requests = << >>
  /\ ~running => overflowed /\ pipeline_stage = "INTERRUPT"
  /\ ~overflowed /\ isa_PC # HCF_ADDRESS =>
       timer.timer_value + cycles_left + cycles(instructions_after)
         < IF phase \in {"cpu", "returned"} \/ device_to_come
           THEN TIMER_VALUES ELSE TIMER_VALUES - 1
-----------------------------------------------------------------------------
(* What a test of the source says and the program does not do *)

\* "check writing to the framebuffer with branching by writing a 6x6 blue
\* square" (main.c:48): when the program halts, the box is filled.
BoxDrawn == halted => drawn = Box
=============================================================================
