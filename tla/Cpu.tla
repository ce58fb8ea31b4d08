-------------------------------- MODULE Cpu --------------------------------
(***************************************************************************)
(* src/cpu.c and src/cpu_ops.c: the CPU as a state machine that takes one  *)
(* pipeline stage per cycle.  How a word encodes an instruction is the     *)
(* constant Decode of Instructions; everything an instruction does with    *)
(* its fields is here.                                                     *)
(***************************************************************************)
EXTENDS MemoryBus, InterruptController, Instructions

VARIABLES cpu, pipeline_stage, backup_cpu

Stage == {"INTERRUPT", "FETCH1", "FETCH2", "DECODE", "MEMORY1", "MEMORY2",
          "EXECUTE"}

\* connected: the bus, ic and opcodes pointers are set.
CpuState ==
  [registers : [Reg -> Word], PC : Word, CCR : SUBSET ConditionCode,
   IR : Word, MDR : Word, MAR : Word, decoded : Instruction \cup {NotDecoded},
   interrupt_in_process : BOOLEAN, connected : BOOLEAN,
   instruction_finished : BOOLEAN]

\* A struct cpu of zero bytes, as static storage and calloc provide it.
zeroed_cpu ==
  [registers |-> [r \in Reg |-> 0], PC |-> 0, CCR |-> {}, IR |-> 0, MDR |-> 0,
   MAR |-> 0, decoded |-> NotDecoded, interrupt_in_process |-> FALSE,
   connected |-> FALSE, instruction_finished |-> FALSE]

\* make_cpu hands over the bus and the controller, init_cpu the table.
build_cpu == [zeroed_cpu EXCEPT !.connected = TRUE]

CpuInit ==
  /\ cpu = build_cpu
  /\ pipeline_stage = "INTERRUPT"
  /\ backup_cpu = zeroed_cpu

CpuTypeOK ==
  /\ cpu \in CpuState /\ backup_cpu \in CpuState
  /\ pipeline_stage \in Stage

machine == <<bus, interrupt_requests, backup_cpu, process>>
-----------------------------------------------------------------------------
(* Interrupts *)

\* Variant: the timer's IRQ counted among the scheduler's.
is_timer_or_scheduler_interrupt(irq_number) ==
  irq_number \in {IRQ_0, IRQ_1, IRQ_128}

\* The test for a scheduler interrupt takes the request out of the queue.
is_operating_system_scheduler_interrupt(irq_number) ==
  irq_number \in {IRQ_0, IRQ_128}

\* As committed the function ends with exit(-1), before the PC is set.
enter_interrupt_mode ==
  \E irq_number \in IRQ :
    /\ get_interrupt_source(irq_number)
    /\ backup_cpu' = IF is_operating_system_scheduler_interrupt(irq_number)
                     THEN backup_cpu ELSE cpu
    /\ cpu' = [cpu EXCEPT !.interrupt_in_process = TRUE]
    /\ process' = "exited"
    /\ UNCHANGED pipeline_stage

interrupt ==
  /\ pipeline_stage = "INTERRUPT" /\ cpu.connected
  /\ \/ /\ interrupt_requested /\ ~cpu.interrupt_in_process
        /\ enter_interrupt_mode
        /\ UNCHANGED bus
     \/ /\ ~interrupt_requested \/ cpu.interrupt_in_process
        /\ pipeline_stage' = "FETCH1"
        /\ cpu' = [cpu EXCEPT !.instruction_finished = FALSE]
        /\ UNCHANGED machine

\* The first stage of a CPU without a controller reads through a null pointer.
null_controller ==
  /\ pipeline_stage = "INTERRUPT" /\ ~cpu.connected
  /\ process' = "crashed"
  /\ UNCHANGED <<cpu, pipeline_stage, bus, interrupt_requests, backup_cpu>>

exit_interrupt_mode ==
  \E irq_number \in IRQ :
    /\ get_interrupt_source(irq_number)
    /\ LET resumed == IF is_operating_system_scheduler_interrupt(irq_number)
                      THEN cpu ELSE backup_cpu
       IN  cpu' = [resumed EXCEPT !.interrupt_in_process = FALSE,
                                  !.instruction_finished = TRUE]
-----------------------------------------------------------------------------
(* Fetch, decode and the memory stages *)

fetch1 ==
  /\ pipeline_stage = "FETCH1"
  /\ pipeline_stage' = "FETCH2"
  /\ cpu' = [cpu EXCEPT !.MAR = cpu.PC, !.PC = Add(cpu.PC, 1),
                        !.instruction_finished = FALSE]
  /\ bus' = bus_set_read_operation(
              bus_set_address_lines(bus_enable(bus), cpu.PC))
  /\ UNCHANGED <<interrupt_requests, backup_cpu, process>>

\* Variant: IR is loaded from MDR before MDR has its new word.
fetch2_swapped ==
  /\ pipeline_stage = "FETCH2"
  /\ \/ /\ bus.device_ready
        /\ pipeline_stage' = "DECODE"
        /\ cpu' = [cpu EXCEPT !.MDR = bus.data_lines, !.IR = cpu.MDR,
                              !.instruction_finished = FALSE]
        /\ bus' = bus_disable(bus_clear_device_ready(bus))
     \/ /\ ~bus.device_ready
        /\ cpu' = [cpu EXCEPT !.instruction_finished = FALSE]
        /\ UNCHANGED <<pipeline_stage, bus>>
  /\ UNCHANGED <<interrupt_requests, backup_cpu, process>>

fetch2 ==
  /\ pipeline_stage = "FETCH2"
  /\ \/ /\ bus.device_ready
        /\ pipeline_stage' = "DECODE"
        /\ cpu' = [cpu EXCEPT !.MDR = bus.data_lines, !.IR = bus.data_lines,
                              !.instruction_finished = FALSE]
        /\ bus' = bus_disable(bus_clear_device_ready(bus))
     \/ /\ ~bus.device_ready
        /\ cpu' = [cpu EXCEPT !.instruction_finished = FALSE]
        /\ UNCHANGED <<pipeline_stage, bus>>
  /\ UNCHANGED <<interrupt_requests, backup_cpu, process>>

is_memory_instruction(opcode) ==
  opcode \in {"LOAD", "LOADR", "LOADA", "STORE", "STORER"}
is_load_instruction(opcode) == opcode \in {"LOAD", "LOADR", "LOADA"}
is_pc_relative_instruction(opcode) == opcode \in {"LOAD", "LOADA", "STORE"}
is_load_effective_address_instruction(opcode) == opcode = "LOADA"

decode ==
  /\ pipeline_stage = "DECODE"
  /\ cpu' = [cpu EXCEPT !.decoded = Decode[cpu.IR],
                        !.instruction_finished = FALSE]
  /\ LET opcode == Decode[cpu.IR].opcode
     IN  \/ /\ is_memory_instruction(opcode)
            /\ ~is_load_effective_address_instruction(opcode)
            /\ pipeline_stage' = "MEMORY1"
         \/ /\ \/ ~is_memory_instruction(opcode)
               \/ is_load_effective_address_instruction(opcode)
            /\ pipeline_stage' = "EXECUTE"
  /\ UNCHANGED machine

\* Variant: relative to the instruction, not to the one after it.
effective_address_unincremented(d) ==
  IF is_pc_relative_instruction(d.opcode)
  THEN Add(cpu.MAR, d.load_pc_relative_offset_bits)
  ELSE Add(cpu.registers[d.source_reg1], d.base_register_offset_bits)

effective_address(d) ==
  IF is_pc_relative_instruction(d.opcode)
  THEN Add(cpu.PC, d.load_pc_relative_offset_bits)
  ELSE Add(cpu.registers[d.source_reg1], d.base_register_offset_bits)

memory1 ==
  /\ pipeline_stage = "MEMORY1"
  /\ pipeline_stage' = "MEMORY2"
  /\ LET d == cpu.decoded
         address == effective_address(d)
         addressed == bus_set_address_lines(bus_enable(bus), address)
         stored == cpu.registers[d.destination_reg1]
     IN  \/ /\ is_load_instruction(d.opcode)
            /\ cpu' = [cpu EXCEPT !.MAR = address,
                                  !.instruction_finished = FALSE]
            /\ bus' = bus_set_read_operation(addressed)
         \/ /\ ~is_load_instruction(d.opcode)
            /\ cpu' = [cpu EXCEPT !.MAR = address, !.MDR = stored,
                                  !.instruction_finished = FALSE]
            /\ bus' = bus_set_data_lines(
                        bus_set_write_operation(addressed), stored)
  /\ UNCHANGED <<interrupt_requests, backup_cpu, process>>

memory2 ==
  /\ pipeline_stage = "MEMORY2"
  /\ \/ /\ bus.device_ready
        /\ bus' = bus_disable(bus_clear_device_ready(bus))
        /\ \/ /\ is_load_instruction(cpu.decoded.opcode)
              /\ cpu' = [cpu EXCEPT !.MDR = bus.data_lines,
                                    !.instruction_finished = FALSE]
              /\ pipeline_stage' = "EXECUTE"
           \/ /\ ~is_load_instruction(cpu.decoded.opcode)
              /\ cpu' = [cpu EXCEPT !.instruction_finished = FALSE]
              /\ pipeline_stage' = "INTERRUPT"
     \/ /\ ~bus.device_ready
        /\ cpu' = [cpu EXCEPT !.instruction_finished = FALSE]
        /\ UNCHANGED <<pipeline_stage, bus>>
  /\ UNCHANGED <<interrupt_requests, backup_cpu, process>>
-----------------------------------------------------------------------------
(* Execute: the functions of instruction_table *)

opcode_is(opcode) == cpu.decoded.opcode = opcode

source1 == cpu.registers[cpu.decoded.source_reg1]
source2 == cpu.registers[cpu.decoded.source_reg2]
immediate == cpu.decoded.ALU_immediate_bits

second_operand(i) == IF cpu.decoded.immediate_mode THEN i ELSE source2

\* The ending of every ALU operation.
ALU_result(result) ==
  /\ cpu' = [cpu EXCEPT !.registers[cpu.decoded.destination_reg1] = result,
                        !.CCR = condition_code_bits(result),
                        !.instruction_finished = TRUE]
  /\ UNCHANGED interrupt_requests

cpu_and ==
  /\ opcode_is("AND")
  /\ ALU_result(BitAnd[<<source1, second_operand(upper_ones(immediate))>>])
cpu_or ==
  /\ opcode_is("OR")
  /\ ALU_result(BitOr[<<source1, second_operand(upper_zeros(immediate))>>])
cpu_not == opcode_is("NOT") /\ ALU_result(WORDS - 1 - source1)
cpu_xor ==
  /\ opcode_is("XOR")
  /\ ALU_result(BitXor[<<source1, second_operand(upper_zeros(immediate))>>])
cpu_add ==
  opcode_is("ADD") /\ ALU_result(Add(source1, second_operand(immediate)))
cpu_sub ==
  opcode_is("SUB") /\ ALU_result(Subtract(source1, second_operand(immediate)))

load_result(value) ==
  /\ cpu' = [cpu EXCEPT !.registers[cpu.decoded.destination_reg1] = value,
                        !.instruction_finished = TRUE]
  /\ UNCHANGED interrupt_requests

cpu_load_pc_relative == opcode_is("LOAD") /\ load_result(cpu.MDR)
cpu_load_base_plus_offset == opcode_is("LOADR") /\ load_result(cpu.MDR)
cpu_load_effective_address ==
  /\ opcode_is("LOADA")
  /\ load_result(Add(cpu.PC, cpu.decoded.load_pc_relative_offset_bits))

\* The PC and the registers after a transfer of control.
transfer(target, registers) ==
  /\ cpu' = [cpu EXCEPT !.PC = target, !.registers = registers,
                        !.instruction_finished = TRUE]
  /\ UNCHANGED interrupt_requests

jump_target == Add(cpu.PC, cpu.decoded.jump_pc_relative_offset_bits)
jumpr_target(registers) ==
  Add(registers[cpu.decoded.source_reg1],
      cpu.decoded.base_register_offset_bits)

cpu_jump_pc_relative ==
  opcode_is("JUMP") /\ transfer(jump_target, cpu.registers)
cpu_jump_base_plus_offset ==
  opcode_is("JUMPR") /\ transfer(jumpr_target(cpu.registers), cpu.registers)

cpu_branch ==
  /\ opcode_is("BRANCH")
  /\ \/ /\ cpu.CCR \cap cpu.decoded.instruction_condition_codes # {}
        /\ transfer(Add(cpu.PC, cpu.decoded.branch_pc_relative_offset_bits),
                    cpu.registers)
     \/ /\ cpu.CCR \cap cpu.decoded.instruction_condition_codes = {}
        /\ transfer(cpu.PC, cpu.registers)

linked == [cpu.registers EXCEPT ![LINK_REGISTER] = cpu.PC]

cpu_call == opcode_is("CALL") /\ transfer(jump_target, linked)

\* Variant: the base register is read before the link is written.
cpu_callr_base_first ==
  opcode_is("CALLR") /\ transfer(jumpr_target(cpu.registers), linked)

\* The link is written before the base register is read.
cpu_callr == opcode_is("CALLR") /\ transfer(jumpr_target(linked), linked)

cpu_swi ==
  /\ opcode_is("TRAP")
  /\ request_interrupt(IRQ_128
       + (cpu.registers[cpu.decoded.destination_reg1] % IRQ_128))
  /\ cpu' = [cpu EXCEPT !.instruction_finished = TRUE]

cpu_rfi == opcode_is("RETURNI") /\ exit_interrupt_mode

\* Stores never come here: memory2 sends them back to the first stage.
cpu_nop ==
  /\ cpu.decoded.opcode \in {"STORE", "STORER", "NOP"}
  /\ cpu' = [cpu EXCEPT !.instruction_finished = TRUE]
  /\ UNCHANGED interrupt_requests

operation ==
  \/ cpu_and \/ cpu_or \/ cpu_not \/ cpu_xor \/ cpu_add \/ cpu_sub
  \/ cpu_load_pc_relative \/ cpu_load_base_plus_offset
  \/ cpu_load_effective_address \/ cpu_jump_pc_relative
  \/ cpu_jump_base_plus_offset \/ cpu_branch \/ cpu_call \/ cpu_callr
  \/ cpu_swi \/ cpu_rfi \/ cpu_nop

\* Variant: straight back to fetch, as the comment of memory2 has it.
execute_back_to_fetch ==
  /\ pipeline_stage = "EXECUTE"
  /\ operation
  /\ pipeline_stage' = "FETCH1"
  /\ UNCHANGED <<bus, backup_cpu, process>>

execute ==
  /\ pipeline_stage = "EXECUTE"
  /\ operation
  /\ pipeline_stage' = "INTERRUPT"
  /\ UNCHANGED <<bus, backup_cpu, process>>

cpu_cycle ==
  \/ interrupt \/ null_controller \/ fetch1 \/ fetch2 \/ decode
  \/ memory1 \/ memory2 \/ execute
=============================================================================
