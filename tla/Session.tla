------------------------------ MODULE Session ------------------------------
(***************************************************************************)
(* include/computer.h as a client uses it: between two single steps it may *)
(* reset the computer and load another program.  A reset reaches the CPU,  *)
(* the memory and the display only; the bus, the timer, the requests, the  *)
(* pipeline's stage and the memory's counter stay as the last step left    *)
(* them.                                                                   *)
(***************************************************************************)
EXTENDS ComputerIsa, Sequences

CONSTANTS
  WORD_BYTES,  \* sizeof(uint32_t) (4)
  LOADS        \* the programs that are loaded

ASSUME SessionAssumption ==
  /\ WORD_BYTES \in Nat \ {0} /\ MEM_SIZE % WORD_BYTES = 0
  /\ LOADS \subseteq Seq(Word)
  /\ \A program \in LOADS : Len(program) <= MEM_SIZE

\* bus, ic, opcodes, interrupt_in_process and instruction_finished are left
\* alone.  So are some of the fields that decode latches (offsets, condition
\* codes, trap and store registers); as the next DECODE latches all of them
\* before any is used, what a reset leaves of them is not told apart.
cpu_reset ==
  cpu' = [build_cpu EXCEPT
            !.connected = cpu.connected,
            !.interrupt_in_process = cpu.interrupt_in_process,
            !.instruction_finished = cpu.instruction_finished]

\* memset counts bytes, and is given the number of words.
memory_reset ==
  system_memory' =
    [l \in Location |-> IF l < MEM_SIZE \div WORD_BYTES THEN 0
                        ELSE system_memory[l]]

graphics_reset == frame_buffer' = [p \in Pixel |-> 0]

\* Variant: the interrupt controller is emptied as well, the timer is not.
computer_reset_requests ==
  /\ running /\ phase = "returned"
  /\ cpu_reset /\ memory_reset /\ graphics_reset
  /\ interrupt_requests' = << >>
  /\ UNCHANGED <<pipeline_stage, backup_cpu, bus, cycle_count, timer, process,
                 phase>>

computer_reset ==
  /\ running /\ phase = "returned"
  /\ cpu_reset /\ memory_reset /\ graphics_reset
  /\ UNCHANGED <<pipeline_stage, backup_cpu, bus, cycle_count,
                 interrupt_requests, timer, process, phase>>

computer_load_program ==
  /\ running /\ phase = "returned"
  /\ \E program \in LOADS :
       system_memory' =
         [l \in Location |-> IF l < Len(program) THEN program[l + 1]
                             ELSE system_memory[l]]
  /\ UNCHANGED <<cpu, pipeline_stage, backup_cpu, bus, cycle_count,
                 frame_buffer, interrupt_requests, timer, process, phase>>

SessionNext == Next \/ computer_reset \/ computer_load_program

SessionSpec == Init /\ [][SessionNext]_vars
-----------------------------------------------------------------------------
\* A step returns between two instructions only (computer.c:135): this is why
\* a reset need not touch the pipeline.
ReturnsBetween ==
  cpu.instruction_finished \/ phase = "returned" => pipeline_stage = "INTERRUPT"

SessionInv == IInv /\ InFlightInv /\ ReturnsBetween

\* What computer_reset leaves alone is at that moment as build_computer made
\* it: no stage to finish, no transaction, no half counted access and no
\* service routine is carried into the next program (computer.c:99-107).
ResetIsClean ==
  [][computer_reset =>
       /\ pipeline_stage' = "INTERRUPT" /\ backup_cpu' = zeroed_cpu
       /\ ~cpu'.interrupt_in_process
       /\ ~bus'.bus_active /\ ~bus'.device_ready
       /\ bus'.selected_device = "NO_DEVICE_SELECTED"
       /\ cycle_count' = 0]_vars

\* No instruction of one program is finished in the next: whatever is reset or
\* loaded between its steps, the computer executes whole instructions in
\* program order, from address zero after a reset, on whatever words it then
\* finds in the memory (computer.c:99-116).
SessionRefinesIsa ==
  I!Init /\ [][I!Next \/ I!Restart \/ I!Load_program]_(I!vars)
=============================================================================
