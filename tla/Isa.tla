-------------------------------- MODULE Isa --------------------------------
(***************************************************************************)
(* The instruction set: what the functions of src/cpu_ops.c do to the      *)
(* programmer's machine, one atomic step per instruction.  No pipeline, no *)
(* bus, no latency; a device's interrupt may be requested at any time and  *)
(* is taken between two instructions.  Computer is shown to implement it.  *)
(***************************************************************************)
EXTENDS MemoryMap, Instructions

VARIABLES registers, PC, CCR, system_memory, frame_buffer,
          interrupted  \* a request is waiting and the next instruction is not

vars == <<registers, PC, CCR, system_memory, frame_buffer, interrupted, process>>

Init ==
  /\ registers = [r \in Reg |-> 0] /\ PC = 0 /\ CCR = {}
  /\ system_memory \in [Location -> Word]
  /\ frame_buffer = [p \in Pixel |-> 0]
  /\ interrupted = FALSE /\ process = "running"

\* What a read may find: the frame buffer answers without driving the data
\* lines, an address past the array finds anything, the keyboard never answers.
Reads(address, value) ==
  CASE DeviceAt(address) = "KEYBOARD_SELECTED" -> FALSE
    [] DeviceAt(address) = "GRAPHICS_SELECTED" -> TRUE
    [] OTHER -> address \in Location => value = system_memory[address]

past_the_array(address) ==
  DeviceAt(address) = "MEMORY_SELECTED" /\ address \notin Location

next_PC == Add(PC, 1)

pc_relative_address(i) == Add(next_PC, i.load_pc_relative_offset_bits)
base_plus_offset(i, regs) ==
  Add(regs[i.source_reg1], i.base_register_offset_bits)

operand_address(i) ==
  IF i.opcode \in {"LOAD", "STORE"} THEN pc_relative_address(i)
  ELSE base_plus_offset(i, registers)

\* Between instructions a device may have asked for an interrupt.
finishes == process' = process /\ interrupted' \in BOOLEAN

falls_through == PC' = next_PC /\ finishes

untouched_memory == UNCHANGED <<system_memory, frame_buffer>>
-----------------------------------------------------------------------------
ALU_instruction == {"AND", "OR", "NOT", "XOR", "ADD", "SUB"}

ALU_value(i) ==
  LET a == registers[i.source_reg1]
      literal == i.ALU_immediate_bits
      b(value) == IF i.immediate_mode THEN value ELSE registers[i.source_reg2]
  IN  CASE i.opcode = "AND" -> BitAnd[<<a, b(upper_ones(literal))>>]
        [] i.opcode = "OR"  -> BitOr[<<a, b(upper_zeros(literal))>>]
        [] i.opcode = "NOT" -> WORDS - 1 - a
        [] i.opcode = "XOR" -> BitXor[<<a, b(upper_zeros(literal))>>]
        [] i.opcode = "ADD" -> Add(a, b(literal))
        [] i.opcode = "SUB" -> Subtract(a, b(literal))

Calculate(i) ==
  /\ i.opcode \in ALU_instruction
  /\ registers' = [registers EXCEPT ![i.destination_reg1] = ALU_value(i)]
  /\ CCR' = condition_code_bits(ALU_value(i))
  /\ falls_through /\ untouched_memory

Load(i) ==
  /\ \/ /\ i.opcode = "LOADA"
        /\ registers' =
             [registers EXCEPT ![i.destination_reg1] = pc_relative_address(i)]
     \/ /\ i.opcode \in {"LOAD", "LOADR"}
        /\ \E value \in Word :
             /\ Reads(operand_address(i), value)
             /\ registers' = [registers EXCEPT ![i.destination_reg1] = value]
  /\ falls_through /\ UNCHANGED CCR /\ untouched_memory

\* The word of the register to the array or to the frame buffer.  A store past
\* the array leaves nothing to say about the process.
Store(i) ==
  /\ i.opcode \in {"STORE", "STORER"}
  /\ LET address == operand_address(i)
         stored == registers[i.destination_reg1]
     IN  \/ /\ DeviceAt(address) = "MEMORY_SELECTED" /\ address \in Location
            /\ system_memory' = [system_memory EXCEPT ![address] = stored]
            /\ UNCHANGED <<frame_buffer, process>>
         \/ /\ DeviceAt(address) = "GRAPHICS_SELECTED"
            /\ frame_buffer' = [frame_buffer EXCEPT
                                  ![address - GRAPHICS_REGION_START] = stored]
            /\ UNCHANGED <<system_memory, process>>
         \/ /\ past_the_array(address)
            /\ process' = "undefined"
            /\ untouched_memory
  /\ PC' = next_PC /\ interrupted' = FALSE
  /\ UNCHANGED <<registers, CCR>>

Transfer(i) ==
  LET jump_target == Add(next_PC, i.jump_pc_relative_offset_bits)
      branch_target == Add(next_PC, i.branch_pc_relative_offset_bits)
  IN  /\ \/ i.opcode = "JUMP" /\ PC' = jump_target
         \/ i.opcode = "JUMPR" /\ PC' = base_plus_offset(i, registers)
         \/ /\ i.opcode = "BRANCH"
            /\ PC' = IF CCR \cap i.instruction_condition_codes # {}
                     THEN branch_target ELSE next_PC
      /\ finishes /\ UNCHANGED <<registers, CCR>> /\ untouched_memory

\* CALL and CALLR leave the return address in R30.  The target is computed
\* from the registers as they are then: CALLR through R30 goes to the return
\* address.
Call(i) ==
  LET linked == [registers EXCEPT ![LINK_REGISTER] = next_PC]
  IN  /\ \/ /\ i.opcode = "CALL"
            /\ PC' = Add(next_PC, i.jump_pc_relative_offset_bits)
         \/ i.opcode = "CALLR" /\ PC' = base_plus_offset(i, linked)
      /\ registers' = linked
      /\ finishes /\ UNCHANGED CCR /\ untouched_memory

\* A software interrupt is taken before the next instruction.
Trap(i) ==
  /\ i.opcode = "TRAP"
  /\ PC' = next_PC /\ interrupted' = TRUE /\ process' = process
  /\ UNCHANGED <<registers, CCR>> /\ untouched_memory

\* There is never anything to return to: RETURNI does nothing, or it restores
\* a CPU of zeros, which reads through a null pointer next.
ReturnFromInterrupt(i) ==
  /\ i.opcode = "RETURNI"
  /\ \/ falls_through /\ UNCHANGED <<registers, CCR>>
     \/ /\ registers' = [r \in Reg |-> 0] /\ PC' = 0 /\ CCR' = {}
        /\ process' = "crashed" /\ interrupted' = FALSE
  /\ untouched_memory

Nothing(i) ==
  i.opcode = "NOP" /\ falls_through /\ UNCHANGED <<registers, CCR>>
    /\ untouched_memory

instruction ==
  /\ process = "running" /\ ~interrupted
  /\ \E word \in Word :
       /\ Reads(PC, word)
       /\ LET i == Decode[word]
          IN  \/ Calculate(i) \/ Load(i) \/ Store(i) \/ Transfer(i) \/ Call(i)
              \/ Trap(i) \/ ReturnFromInterrupt(i) \/ Nothing(i)

device_requests ==
  /\ process = "running" /\ ~interrupted /\ interrupted' = TRUE
  /\ UNCHANGED <<registers, PC, CCR, system_memory, frame_buffer, process>>

\* The debugging exit of enter_interrupt_mode.
takes_interrupt ==
  /\ process = "running" /\ interrupted
  /\ process' = "exited" /\ interrupted' = FALSE
  /\ UNCHANGED <<registers, PC, CCR, system_memory, frame_buffer>>

\* Reading an instruction or its operand past the array may be fatal.
read_crashes ==
  /\ process = "running" /\ ~interrupted
  /\ \/ past_the_array(PC)
     \/ \E word \in Word :
          LET i == Decode[word]
          IN  /\ Reads(PC, word)
              /\ i.opcode \in {"LOAD", "LOADR"}
              /\ past_the_array(operand_address(i))
  /\ process' = "crashed"
  /\ UNCHANGED <<registers, PC, CCR, system_memory, frame_buffer, interrupted>>

Next == instruction \/ device_requests \/ takes_interrupt \/ read_crashes

\* A client may start over and may load memory, between two instructions.  A
\* request that waits goes on waiting.  Starting over clears words and writes no
\* others; which of the old ones it leaves is not the instruction set's matter.
Restart ==
  /\ registers' = [r \in Reg |-> 0] /\ PC' = 0 /\ CCR' = {}
  /\ system_memory' \in [Location -> Word]
  /\ \A l \in Location : system_memory'[l] \in {0, system_memory[l]}
  /\ frame_buffer' = [p \in Pixel |-> 0]
  /\ UNCHANGED <<interrupted, process>>

Load_program ==
  /\ system_memory' \in [Location -> Word]
  /\ UNCHANGED <<registers, PC, CCR, frame_buffer, interrupted, process>>

\* The loop runs on: an instruction that can be executed is, unless an
\* interrupt is taken instead.
Fairness == WF_vars(instruction) /\ WF_vars(takes_interrupt)

Spec == Init /\ [][Next]_vars /\ Fairness
=============================================================================
