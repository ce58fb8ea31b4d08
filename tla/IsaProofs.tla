----------------------------- MODULE IsaProofs -----------------------------
(***************************************************************************)
(* The computer implements its instruction set for every word width,       *)
(* memory map, memory size, latency, encoding, program and timer period.   *)
(***************************************************************************)
EXTENDS ComputerIsa, ComputerProofs

(* The PC's increment in FETCH1 and its undoing in isa_PC cancel out, at the
   wrap-around of the PC too. *)
LEMMA Incremented ==
  ASSUME NEW a \in Word
  PROVE  Subtract(Add(a, 1), 1) = a /\ Add(Subtract(a, 1), 1) = a
<1>1. /\ WORDS \in Nat \ {0} /\ a \in Int /\ 0 <= a /\ a < WORDS /\ 1 < WORDS
  BY WordAssumption, SmallWords DEF WordAssumption, Word
<1>2. CASE a + 1 < WORDS /\ 0 < a
  BY <1>1, <1>2 DEF Add, Subtract
<1>3. CASE a + 1 = WORDS
  BY <1>1, <1>3 DEF Add, Subtract
<1>4. CASE a = 0
  BY <1>1, <1>4 DEF Add, Subtract
<1> QED BY <1>1, <1>2, <1>3, <1>4

(* The instruction set reads the same memory map and the same arithmetic. *)
LEMMA SameMap ==
  /\ I!Word = Word /\ I!Location = Location /\ I!Pixel = Pixel
  /\ I!GRAPHICS_REGION_START = GRAPHICS_REGION_START
  /\ I!LINK_REGISTER = LINK_REGISTER
  /\ \A a : I!DeviceAt(a) = DeviceAt(a)
  /\ \A a, b : I!Add(a, b) = Add(a, b) /\ I!Subtract(a, b) = Subtract(a, b)
  /\ \A a : /\ I!upper_ones(a) = upper_ones(a)
            /\ I!upper_zeros(a) = upper_zeros(a)
            /\ I!condition_code_bits(a) = condition_code_bits(a)
BY DEF I!Word, Word, I!Location, Location, I!Pixel, Pixel,
       I!GRAPHICS_REGION_START, GRAPHICS_REGION_START,
       I!GRAPHICS_REGION_END, GRAPHICS_REGION_END,
       I!KEYBOARD_REGION_START, KEYBOARD_REGION_START,
       I!KEYBOARD_REGION_END, KEYBOARD_REGION_END,
       I!INTERRUPT_VECTOR_TABLE_START, INTERRUPT_VECTOR_TABLE_START,
       I!INTERRUPT_VECTOR_TABLE_END, INTERRUPT_VECTOR_TABLE_END,
       I!BOOT_ROM_END, BOOT_ROM_END, I!LINK_REGISTER, LINK_REGISTER,
       I!DeviceAt, DeviceAt, I!Add, Add, I!Subtract, Subtract,
       I!upper_ones, upper_ones, I!upper_zeros, upper_zeros,
       I!condition_code_bits, condition_code_bits

(* What the instruction set may read, in the computer's own words. *)
LEMMA ReadsMeaning ==
  ASSUME NEW address, NEW value
  PROVE  I!Reads(address, value) <=>
           /\ DeviceAt(address) # "KEYBOARD_SELECTED"
           /\ DeviceAt(address) = "MEMORY_SELECTED" /\ address \in Location =>
                value = system_memory[address]
BY SameMap DEF I!Reads, DeviceAt
-----------------------------------------------------------------------------
(* The instruction in flight. *)

(* Every step keeps what is known of the instruction in flight. *)
LEMMA StepInFlight ==
  ASSUME IInv, InFlightInv, [Next]_vars
  PROVE  InFlightInv'
<1>0. /\ cpu \in CpuState /\ bus \in Bus /\ cpu.PC \in Word
      /\ TransactionInv /\ PipelineInv /\ AnswerInv
  BY DEF IInv, TypeOK, CpuTypeOK, CpuState
<1>1. CASE clock_cpu
  <2>0. UNCHANGED <<system_memory, frame_buffer>>
    BY <1>1 DEF clock_cpu
  <2>1. CASE interrupt \/ null_controller \/ fetch1 \/ execute
    <3>1. pipeline_stage' \in {"INTERRUPT", "FETCH1", "FETCH2"}
      BY <2>1
      DEF interrupt, null_controller, enter_interrupt_mode, fetch1, execute
    <3> QED BY <3>1 DEF InFlightInv
  <2>2. CASE fetch2
    <3>1. CASE bus.device_ready
      <4>1. /\ pipeline_stage = "FETCH2" /\ pipeline_stage' = "DECODE"
            /\ cpu'.PC = cpu.PC /\ cpu'.MAR = cpu.MAR
            /\ cpu'.IR = bus.data_lines
        BY <1>0, <2>2, <3>1 DEF fetch2, CpuState
      <4>2. cpu.PC = Add(cpu.MAR, 1) /\ cpu.MAR \in Word
        BY <1>0, <4>1 DEF PipelineInv, CpuState
      <4>3. isa_PC' = cpu.MAR
        BY <4>1, <4>2, Incremented DEF isa_PC, in_flight, store_answered, store_in_progress
      <4>4. /\ DeviceAt(cpu.MAR) # "KEYBOARD_SELECTED"
            /\ DeviceAt(cpu.MAR) = "MEMORY_SELECTED" /\ cpu.MAR \in Location =>
                 cpu'.IR = system_memory'[cpu.MAR]
        BY <1>0, <2>0, <3>1, <4>1 DEF AnswerInv, waiting
      <4>5. I!Reads(isa_PC, cpu.IR)'
        BY <4>3, <4>4, ReadsMeaning, SameMap DEF I!Reads, DeviceAt
      <4> QED BY <4>1, <4>5 DEF InFlightInv
    <3>2. CASE ~bus.device_ready
      BY <2>2, <3>2 DEF fetch2, InFlightInv
    <3> QED BY <3>1, <3>2
  <2>3. CASE decode
    <3>1. /\ pipeline_stage = "DECODE"
          /\ pipeline_stage' \in {"MEMORY1", "EXECUTE"}
          /\ pipeline_stage' = "EXECUTE" =>
               Decode[cpu.IR].opcode \notin {"LOAD", "LOADR", "STORE", "STORER"}
      BY <2>3
      DEF decode, is_memory_instruction, is_load_effective_address_instruction
    <3>2. /\ cpu'.decoded = Decode[cpu.IR] /\ cpu'.IR = cpu.IR
          /\ cpu'.PC = cpu.PC
      BY <1>0, <2>3 DEF decode, CpuState
    <3>3. isa_PC' = isa_PC /\ ~store_answered
      BY <3>1, <3>2 DEF isa_PC, in_flight, store_answered, store_in_progress
    <3>4. I!Reads(isa_PC, cpu.IR)'
      BY <2>0, <3>1, <3>2, <3>3 DEF InFlightInv, I!Reads
    <3> QED BY <3>1, <3>2, <3>4 DEF InFlightInv
  <2>4. CASE memory1
    <3> DEFINE d == cpu.decoded
               address == effective_address(d)
               stored == cpu.registers[d.destination_reg1]
    <3>1. pipeline_stage = "MEMORY1" /\ pipeline_stage' = "MEMORY2"
      BY <2>4 DEF memory1
    <3>2. /\ cpu'.decoded = d /\ cpu'.registers = cpu.registers
          /\ cpu'.PC = cpu.PC /\ cpu'.IR = cpu.IR /\ cpu'.MAR = address
      <4> HIDE DEF address, stored
      <4> QED BY <1>0, <2>4 DEF memory1, CpuState, address, stored
    <3>3. ~store_answered' => isa_PC' = isa_PC /\ ~store_answered
      BY <3>1, <3>2 DEF isa_PC, in_flight, store_answered, store_in_progress
    <3>4. ~store_answered' => I!Reads(isa_PC, cpu.IR)'
      BY <2>0, <3>1, <3>2, <3>3 DEF InFlightInv, I!Reads
    <3>5. effective_address(cpu.decoded)' = address
      BY <3>2 DEF effective_address
    <3> QED BY <3>1, <3>2, <3>4, <3>5 DEF InFlightInv
  <2>5. CASE memory2
    <3>1. /\ pipeline_stage = "MEMORY2"
          /\ cpu'.decoded = cpu.decoded /\ cpu'.registers = cpu.registers
          /\ cpu'.PC = cpu.PC /\ cpu'.IR = cpu.IR /\ cpu'.MAR = cpu.MAR
      BY <1>0, <2>5 DEF memory2, CpuState
    <3>2. effective_address(cpu.decoded)' = effective_address(cpu.decoded)
      BY <3>1 DEF effective_address
    <3>3. CASE bus.device_ready /\ is_load_instruction(cpu.decoded.opcode)
      <4>1. pipeline_stage' = "EXECUTE" /\ cpu'.MDR = bus.data_lines
        BY <1>0, <2>5, <3>3 DEF memory2, CpuState
      <4>2. ~store_answered /\ isa_PC' = isa_PC
        BY <3>1, <3>3, <4>1
        DEF isa_PC, in_flight, store_answered, store_in_progress,
            is_load_instruction
      <4>3. I!Reads(isa_PC, cpu.IR)'
        BY <2>0, <3>1, <4>2 DEF InFlightInv, I!Reads
      <4>4. /\ DeviceAt(cpu.MAR) # "KEYBOARD_SELECTED"
            /\ DeviceAt(cpu.MAR) = "MEMORY_SELECTED" /\ cpu.MAR \in Location =>
                 cpu'.MDR = system_memory'[cpu.MAR]
        BY <1>0, <2>0, <3>1, <3>3, <4>1 DEF AnswerInv, waiting
      <4>5. I!Reads(cpu.MAR, cpu.MDR)'
        BY <3>1, <4>4, SameMap DEF I!Reads, DeviceAt
      <4> QED BY <3>1, <3>2, <3>3, <4>1, <4>3, <4>5 DEF InFlightInv, is_load_instruction
    <3>4. CASE bus.device_ready /\ ~is_load_instruction(cpu.decoded.opcode)
      BY <2>5, <3>4 DEF memory2, InFlightInv
    <3>5. CASE ~bus.device_ready
      <4>1. UNCHANGED <<pipeline_stage, bus>>
        BY <2>5, <3>5 DEF memory2
      <4>2. isa_PC' = isa_PC /\ store_answered' = store_answered
        BY <3>1, <4>1 DEF isa_PC, in_flight, store_answered, store_in_progress
      <4>3. ~store_answered' => I!Reads(isa_PC, cpu.IR)'
        BY <2>0, <3>1, <4>2 DEF InFlightInv, I!Reads
      <4> QED BY <3>1, <3>2, <4>1, <4>3 DEF InFlightInv
    <3> QED BY <3>3, <3>4, <3>5
  <2> QED
    BY <1>1, <2>1, <2>2, <2>3, <2>4, <2>5 DEF clock_cpu, cpu_cycle
<1>2. ASSUME UNCHANGED <<cpu, pipeline_stage, system_memory>>,
             store_answered => store_answered'
      PROVE  InFlightInv'
  <2>1. ~store_answered' => isa_PC' = isa_PC /\ ~store_answered
    BY <1>2 DEF isa_PC, in_flight
  <2>2. effective_address(cpu.decoded)' = effective_address(cpu.decoded)
    BY <1>2 DEF effective_address
  <2>3. /\ ~store_answered' /\ I!Reads(isa_PC, cpu.IR) => I!Reads(isa_PC, cpu.IR)'
        /\ I!Reads(cpu.MAR, cpu.MDR) => I!Reads(cpu.MAR, cpu.MDR)'
    BY <1>2, <2>1 DEF I!Reads
  <2> QED BY <1>2, <2>1, <2>2, <2>3 DEF InFlightInv
<1>3. CASE clock_bus
  <2>1. UNCHANGED <<cpu, pipeline_stage, system_memory>>
    BY <1>3 DEF clock_bus
  <2>2. store_answered => store_answered'
    BY <1>0, <1>3
    DEF clock_bus, bus_cycle, store_answered, store_in_progress,
        TransactionInv, waiting, Bus
  <2> QED BY <1>2, <2>1, <2>2
<1>4. CASE clock_memory
  <2>1. UNCHANGED <<cpu, pipeline_stage>>
    BY <1>4 DEF clock_memory
  <2>2. store_answered => store_answered'
    <3>1. bus' = bus \/ \E b \in Bus : bus' = bus_set_device_ready(b)
      BY <1>0, <1>4, BusType
      DEF clock_memory, memory_cycle, memory_ignores, memory_waits,
          memory_writes, memory_reads
    <3>2. bus' = bus \/ bus'.device_ready
      BY <3>1 DEF bus_set_device_ready, Bus
    <3> QED BY <2>1, <3>2 DEF store_answered, store_in_progress
  <2>3. CASE memory_writes
    <3>1. bus.bus_mode = "DATA_WRITE" /\ waiting /\ bus'.device_ready
      BY <1>0, <1>4, <2>3
      DEF clock_memory, clocks, memory_writes, memory_selected,
          TransactionInv, bus_set_device_ready, Bus
    <3>2. store_in_progress
      BY <1>0, <3>1
      DEF waiting, PipelineInv, is_load_instruction, store_in_progress
    <3>3. pipeline_stage' = "MEMORY2" /\ store_answered'
      BY <2>1, <3>1, <3>2 DEF store_answered, store_in_progress
    <3>4. effective_address(cpu.decoded)' = effective_address(cpu.decoded)
      BY <2>1 DEF effective_address
    <3> QED BY <2>1, <3>3, <3>4 DEF InFlightInv
  <2>4. CASE ~memory_writes
    <3>1. UNCHANGED system_memory
      BY <1>4, <2>4
      DEF clock_memory, memory_cycle, memory_ignores, memory_waits, memory_reads
    <3> QED BY <1>2, <2>1, <2>2, <3>1
  <2> QED BY <2>3, <2>4
<1>5. CASE clock_graphics
  <2>1. UNCHANGED <<cpu, pipeline_stage, system_memory>>
    BY <1>5 DEF clock_graphics
  <2>2. store_answered => store_answered'
    BY <1>0, <1>5
    DEF clock_graphics, graphics_cycle, store_answered, store_in_progress,
        bus_set_device_ready, Bus
  <2> QED BY <1>2, <2>1, <2>2
<1>6. CASE UNCHANGED <<cpu, pipeline_stage, system_memory, bus>>
  BY <1>2, <1>6 DEF store_answered, store_in_progress
<1> QED
  BY <1>1, <1>3, <1>4, <1>5, <1>6
  DEF Next, computer_single_step, clock_timer, stopped, vars
-----------------------------------------------------------------------------
(* Every step is an instruction, an interrupt, a crash, or invisible. *)

(* An instruction that is about to have its effect, as the instruction set
   sees it. *)
LEMMA AboutToAct ==
  ASSUME IInv, InFlightInv, running, pipeline_stage \in {"MEMORY2", "EXECUTE"},
         ~store_answered
  PROVE  /\ cpu.IR \in I!Word /\ I!Reads(isa_PC, cpu.IR)
         /\ Decode[cpu.IR] = cpu.decoded /\ cpu.decoded \in Instruction
         /\ I!next_PC = cpu.PC /\ cpu.connected
         /\ isa_process = "running" /\ isa_interrupted = FALSE
<1>1. cpu \in CpuState /\ cpu.PC \in Word /\ cpu.IR \in Word
  BY DEF IInv, TypeOK, CpuTypeOK, CpuState
<1>2. isa_PC = Subtract(cpu.PC, 1)
  BY DEF isa_PC, in_flight
<1>3. I!next_PC = cpu.PC
  BY <1>1, <1>2, Incremented, SameMap DEF I!next_PC
<1>4. cpu.connected
  BY DEF IInv, BackupInv, disconnected
<1>5. isa_process = "running" /\ isa_interrupted = FALSE
  BY <1>4 DEF isa_process, isa_interrupted, running
<1> QED
  BY <1>1, <1>3, <1>4, <1>5, SameMap DEF InFlightInv, IInv, PipelineInv

(* After a request the queue is not empty. *)
LEMMA RequestRemains ==
  ASSUME QueueOK(interrupt_requests), NEW irq \in IRQ, request_interrupt(irq)
  PROVE  interrupt_requests' # << >>
<1>1. CASE Len(interrupt_requests) < MAX_NUM_IRQS
  <2>1. Len(interrupt_requests') = Len(interrupt_requests) + 1
    BY <1>1, AppendProperties DEF request_interrupt, QueueOK
  <2> QED BY <2>1, LenProperties DEF QueueOK
<1>2. CASE ~(Len(interrupt_requests) < MAX_NUM_IRQS)
  <2>1. Len(interrupt_requests) # 0
    BY <1>2, IrqAssumption DEF IrqAssumption
  <2> QED BY <1>2, <2>1 DEF request_interrupt
<1> QED BY <1>1, <1>2

(* EXECUTE is where an instruction that is not a store has its effect. *)
LEMMA ExecuteTakesEffect ==
  ASSUME IInv, InFlightInv, clock_cpu, execute
  PROVE  I!instruction
<1> DEFINE d == cpu.decoded
<1>1. /\ running /\ pipeline_stage = "EXECUTE" /\ pipeline_stage' = "INTERRUPT"
      /\ operation /\ ~store_answered
      /\ UNCHANGED <<system_memory, frame_buffer, process, backup_cpu>>
  BY DEF clock_cpu, clocks, execute, store_answered, store_in_progress
<1>2. /\ cpu \in CpuState /\ cpu.PC \in Word /\ cpu.registers \in [Reg -> Word]
  BY DEF IInv, TypeOK, CpuTypeOK, CpuState
<1>3. /\ cpu.IR \in I!Word /\ I!Reads(isa_PC, cpu.IR)
      /\ Decode[cpu.IR] = d /\ d \in Instruction
      /\ I!next_PC = cpu.PC /\ cpu.connected
      /\ isa_process = "running" /\ isa_interrupted = FALSE
  BY <1>1, AboutToAct
<1>4. isa_PC' = cpu'.PC /\ isa_interrupted' \in BOOLEAN
  BY <1>1 DEF isa_PC, in_flight, isa_interrupted
<1>5. cpu'.connected => isa_process' = isa_process
  BY <1>1, <1>3 DEF isa_process, running
<1>6. I!untouched_memory
  BY <1>1 DEF I!untouched_memory
<1>7. SUFFICES \/ I!Calculate(d) \/ I!Load(d) \/ I!Transfer(d) \/ I!Call(d)
               \/ I!Trap(d) \/ I!ReturnFromInterrupt(d) \/ I!Nothing(d)
  BY <1>3 DEF I!instruction
<1>8. CASE cpu_and \/ cpu_or \/ cpu_not \/ cpu_xor \/ cpu_add \/ cpu_sub
  <2>1. d.opcode \in I!ALU_instruction /\ ALU_result(I!ALU_value(d))
    BY <1>8, SameMap
    DEF cpu_and, cpu_or, cpu_not, cpu_xor, cpu_add, cpu_sub, opcode_is,
        I!ALU_instruction, I!ALU_value, source1, source2, second_operand,
        immediate
  <2>2. /\ cpu'.registers = [cpu.registers EXCEPT
                                ![d.destination_reg1] = I!ALU_value(d)]
        /\ cpu'.CCR = condition_code_bits(I!ALU_value(d))
        /\ cpu'.PC = cpu.PC /\ cpu'.connected = cpu.connected
    BY <1>2, <2>1 DEF ALU_result, CpuState
  <2>3. I!Calculate(d)
    BY <1>3, <1>4, <1>5, <1>6, <2>1, <2>2, SameMap
    DEF I!Calculate, I!falls_through, I!finishes
  <2> QED BY <2>3
<1>9. CASE cpu_load_pc_relative \/ cpu_load_base_plus_offset
             \/ cpu_load_effective_address
  <2> DEFINE loaded(value) ==
        /\ cpu'.registers = [cpu.registers EXCEPT ![d.destination_reg1] = value]
        /\ cpu'.CCR = cpu.CCR /\ cpu'.PC = cpu.PC
        /\ cpu'.connected = cpu.connected
  <2>1. ASSUME NEW value, load_result(value) PROVE loaded(value)
    BY <1>2, <2>1 DEF load_result, CpuState
  <2>2. CASE cpu_load_effective_address
    <3>1. loaded(Add(cpu.PC, d.load_pc_relative_offset_bits))
      BY <2>1, <2>2 DEF cpu_load_effective_address
    <3>2. I!pc_relative_address(d) = Add(cpu.PC, d.load_pc_relative_offset_bits)
      BY <1>3, SameMap DEF I!pc_relative_address
    <3>3. I!Load(d)
      BY <1>3, <1>4, <1>5, <1>6, <2>2, <3>1, <3>2
      DEF cpu_load_effective_address, opcode_is, I!Load, I!falls_through,
          I!finishes
    <3> QED BY <3>3
  <2>3. CASE cpu_load_pc_relative \/ cpu_load_base_plus_offset
    <3>1. d.opcode \in {"LOAD", "LOADR"} /\ loaded(cpu.MDR)
      BY <2>1, <2>3
      DEF cpu_load_pc_relative, cpu_load_base_plus_offset, opcode_is
    <3>2. /\ cpu.MAR = effective_address(d) /\ I!Reads(cpu.MAR, cpu.MDR)
          /\ cpu.MDR \in I!Word
      BY <1>1, <1>2, <3>1, SameMap DEF InFlightInv, CpuState
    <3>3. I!operand_address(d) = cpu.MAR
      BY <1>3, <3>1, <3>2, SameMap
      DEF I!operand_address, I!pc_relative_address, I!base_plus_offset,
          effective_address, is_pc_relative_instruction
    <3>4. I!Load(d)
      BY <1>3, <1>4, <1>5, <1>6, <3>1, <3>2, <3>3
      DEF I!Load, I!falls_through, I!finishes
    <3> QED BY <3>4
  <2> QED BY <1>9, <2>2, <2>3
<1>10. CASE cpu_jump_pc_relative \/ cpu_jump_base_plus_offset \/ cpu_branch
              \/ cpu_call \/ cpu_callr
  <2>1. ASSUME NEW target, NEW regs, transfer(target, regs)
        PROVE  /\ cpu'.PC = target /\ cpu'.registers = regs
               /\ cpu'.CCR = cpu.CCR /\ cpu'.connected = cpu.connected
    BY <1>2, <2>1 DEF transfer, CpuState
  <2>2. /\ jump_target = I!Add(I!next_PC, d.jump_pc_relative_offset_bits)
        /\ linked = [cpu.registers EXCEPT ![I!LINK_REGISTER] = I!next_PC]
        /\ \A regs : jumpr_target(regs) = I!base_plus_offset(d, regs)
    BY <1>3, SameMap DEF jump_target, linked, jumpr_target, I!base_plus_offset
  <2>3. UNCHANGED cpu.CCR /\ I!finishes
    BY <1>3, <1>4, <1>5, <1>10, <2>1
    DEF I!finishes, cpu_jump_pc_relative, cpu_jump_base_plus_offset,
        cpu_branch, cpu_call, cpu_callr
  <2>4. CASE cpu_jump_pc_relative \/ cpu_jump_base_plus_offset
    <3>1. I!Transfer(d)
      BY <1>4, <1>6, <2>1, <2>2, <2>3, <2>4
      DEF I!Transfer, cpu_jump_pc_relative, cpu_jump_base_plus_offset, opcode_is
    <3> QED BY <3>1
  <2>5. CASE cpu_branch
    <3>1. I!Transfer(d)
      BY <1>3, <1>4, <1>6, <2>1, <2>3, <2>5, SameMap
      DEF I!Transfer, cpu_branch, opcode_is
    <3> QED BY <3>1
  <2>6. CASE cpu_call \/ cpu_callr
    <3>1. I!Call(d)
      BY <1>4, <1>6, <2>1, <2>2, <2>3, <2>6
      DEF I!Call, cpu_call, cpu_callr, opcode_is
    <3> QED BY <3>1
  <2> QED BY <1>10, <2>4, <2>5, <2>6
<1>11. CASE cpu_swi
  <2>1. /\ cpu'.registers = cpu.registers /\ cpu'.CCR = cpu.CCR
        /\ cpu'.PC = cpu.PC /\ cpu'.connected = cpu.connected
    BY <1>2, <1>11 DEF cpu_swi, CpuState
  <2>2. interrupt_requests' # << >>
    <3>1. IRQ_128 + (cpu.registers[d.destination_reg1] % IRQ_128) \in IRQ
      <4>1. cpu.registers[d.destination_reg1] \in Int
        BY <1>2, <1>3 DEF Instruction, Word
      <4> QED BY <4>1, IrqAssumption DEF IrqAssumption, IRQ_128, IRQ
    <3>2. QueueOK(interrupt_requests)
      BY DEF IInv, TypeOK, QueueOK
    <3> QED BY <1>11, <3>1, <3>2, RequestRemains DEF cpu_swi
  <2>3. isa_process' = "running" /\ isa_interrupted' = TRUE
    BY <1>1, <1>3, <1>5, <2>1, <2>2 DEF isa_interrupted
  <2>4. I!Trap(d)
    BY <1>3, <1>4, <1>6, <1>11, <2>1, <2>3
    DEF I!Trap, cpu_swi, opcode_is
  <2> QED BY <2>4
<1>12. CASE cpu_rfi
  <2>1. d.opcode = "RETURNI"
    BY <1>12 DEF cpu_rfi, opcode_is
  <2>2. backup_cpu = zeroed_cpu /\ zeroed_cpu \in CpuState
    BY <1>1, SmallWords
    DEF IInv, BackupInv, disconnected, zeroed_cpu, CpuState, ConditionCode
  <2>3. PICK resumed \in {cpu, zeroed_cpu} :
          cpu' = [resumed EXCEPT !.interrupt_in_process = FALSE,
                                 !.instruction_finished = TRUE]
    BY <1>12, <2>2 DEF cpu_rfi, exit_interrupt_mode
  <2>4. /\ cpu'.registers = resumed.registers /\ cpu'.CCR = resumed.CCR
        /\ cpu'.PC = resumed.PC /\ cpu'.connected = resumed.connected
    BY <1>2, <2>2, <2>3 DEF CpuState
  <2>5. CASE resumed = cpu
    <3>1. I!ReturnFromInterrupt(d)
      BY <1>3, <1>4, <1>5, <1>6, <2>1, <2>4, <2>5
      DEF I!ReturnFromInterrupt, I!falls_through, I!finishes
    <3> QED BY <3>1
  <2>6. CASE resumed = zeroed_cpu
    <3>1. /\ cpu'.registers = [r \in Reg |-> 0] /\ cpu'.PC = 0
          /\ cpu'.CCR = {} /\ ~cpu'.connected
      BY <2>4, <2>6 DEF zeroed_cpu
    <3>2. isa_process' = "crashed" /\ isa_interrupted' = FALSE
      BY <1>1, <3>1 DEF isa_process, isa_interrupted, running
    <3>3. I!ReturnFromInterrupt(d)
      BY <1>4, <1>6, <2>1, <3>1, <3>2 DEF I!ReturnFromInterrupt
    <3> QED BY <3>3
  <2> QED BY <2>3, <2>5, <2>6
<1>13. CASE cpu_nop
  <2>1. d.opcode = "NOP"
    BY <1>1, <1>13 DEF cpu_nop, InFlightInv
  <2>2. /\ cpu'.registers = cpu.registers /\ cpu'.CCR = cpu.CCR
        /\ cpu'.PC = cpu.PC /\ cpu'.connected = cpu.connected
    BY <1>2, <1>13 DEF cpu_nop, CpuState
  <2>3. I!Nothing(d)
    BY <1>3, <1>4, <1>5, <1>6, <2>1, <2>2
    DEF I!Nothing, I!falls_through, I!finishes
  <2> QED BY <2>3
<1> QED
  BY <1>1, <1>8, <1>9, <1>10, <1>11, <1>12, <1>13 DEF operation
(* A store has its effect when its device takes the word off the bus. *)
LEMMA StoreTakesEffect ==
  ASSUME IInv, InFlightInv, running, [Next]_vars, store_in_progress,
         ~bus.device_ready, bus'.device_ready, clock_memory \/ clock_graphics
  PROVE  I!instruction
<1> DEFINE d == cpu.decoded
           stored == cpu.registers[d.destination_reg1]
<1>1. /\ pipeline_stage = "MEMORY2" /\ ~store_answered
      /\ d.opcode \in {"STORE", "STORER"} /\ waiting
  BY DEF store_in_progress, store_answered, waiting
<1>2. /\ cpu.IR \in I!Word /\ I!Reads(isa_PC, cpu.IR)
      /\ Decode[cpu.IR] = d /\ d \in Instruction
      /\ I!next_PC = cpu.PC /\ cpu.connected
      /\ isa_process = "running" /\ isa_interrupted = FALSE
  BY <1>1, AboutToAct
<1>3. /\ UNCHANGED <<cpu, pipeline_stage>>
      /\ store_answered'
  BY DEF clock_memory, clock_graphics, store_answered, store_in_progress
<1>4. isa_PC' = cpu.PC /\ isa_interrupted' = FALSE
  BY <1>1, <1>3 DEF isa_PC, in_flight, isa_interrupted
<1>5. isa_process' = process'
  BY <1>2, <1>3 DEF isa_process
<1>6. I!operand_address(d) = cpu.MAR
  BY <1>1, <1>2, SameMap
  DEF InFlightInv, I!operand_address, I!pc_relative_address,
      I!base_plus_offset, effective_address, is_pc_relative_instruction
<1>7. /\ bus.address_lines = cpu.MAR /\ bus.data_lines = stored
      /\ bus.bus_mode = "DATA_WRITE"
      /\ phase # "bus" => bus.selected_device = DeviceAt(cpu.MAR)
  BY <1>1 DEF IInv, TransactionInv, PipelineInv, is_load_instruction
<1>8. SUFFICES I!Store(d)
  BY <1>2 DEF I!instruction
<1>9. CASE clock_memory
  <2>1. memory_writes /\ DeviceAt(cpu.MAR) = "MEMORY_SELECTED"
        /\ UNCHANGED frame_buffer
    BY <1>7, <1>9
    DEF clock_memory, clocks, memory_cycle, memory_ignores, memory_waits,
        memory_writes, memory_reads, memory_selected
  <2>2. CASE cpu.MAR \in Location
    <3>1. /\ system_memory' = [system_memory EXCEPT ![cpu.MAR] = stored]
          /\ isa_process' = isa_process
      BY <1>2, <1>3, <1>5, <1>7, <2>1, <2>2 DEF memory_writes, isa_process
    <3> QED
      BY <1>1, <1>2, <1>3, <1>4, <1>6, <2>1, <2>2, <3>1, SameMap DEF I!Store
  <2>3. CASE cpu.MAR \notin Location
    <3>1. process' = "undefined" /\ UNCHANGED system_memory
      BY <1>7, <2>1, <2>3 DEF memory_writes
    <3> QED
      BY <1>1, <1>2, <1>3, <1>4, <1>5, <1>6, <2>1, <2>3, <3>1, SameMap
      DEF I!Store, I!past_the_array, I!untouched_memory
  <2> QED BY <2>2, <2>3
<1>10. CASE clock_graphics
  <2>1. /\ DeviceAt(cpu.MAR) = "GRAPHICS_SELECTED"
        /\ graphics_update(cpu.MAR, stored)
        /\ UNCHANGED <<system_memory, process>>
    BY <1>7, <1>10
    DEF clock_graphics, clocks, graphics_cycle, graphics_selected
  <2>2. isa_process' = isa_process
    BY <1>3, <2>1 DEF isa_process, running
  <2> QED
    BY <1>1, <1>2, <1>3, <1>4, <1>6, <2>1, <2>2, SameMap
    DEF I!Store, graphics_update
<1> QED BY <1>9, <1>10

(* A read past the array that finds no page is the read of an instruction or
   of its operand. *)
LEMMA ReadCrashes ==
  ASSUME IInv, InFlightInv, clock_memory, memory_reads, process' = "crashed"
  PROVE  I!read_crashes
<1> DEFINE d == cpu.decoded
<1>1. /\ running /\ waiting /\ bus.bus_mode = "DATA_READ"
      /\ bus.selected_device = DeviceAt(bus.address_lines)
      /\ bus.address_lines = cpu.MAR /\ cpu.MAR \notin Location
      /\ DeviceAt(cpu.MAR) = "MEMORY_SELECTED"
      /\ UNCHANGED <<cpu, pipeline_stage, system_memory, frame_buffer>>
  BY DEF clock_memory, clocks, memory_reads, memory_selected, IInv,
         TransactionInv, running
<1>2. ~store_in_progress /\ cpu.connected /\ pipeline_stage # "INTERRUPT"
  BY <1>1
  DEF IInv, PipelineInv, BackupInv, disconnected, store_in_progress, waiting,
      is_load_instruction
<1>3. /\ isa_process = "running" /\ isa_process' = "crashed"
      /\ isa_interrupted = FALSE /\ isa_interrupted' = FALSE
      /\ isa_PC' = isa_PC /\ isa_PC = Subtract(cpu.PC, 1)
  BY <1>1, <1>2
  DEF isa_process, isa_interrupted, isa_PC, in_flight, store_answered,
      store_in_progress, running, waiting
<1>4. I!past_the_array(cpu.MAR)
  BY <1>1, SameMap DEF I!past_the_array
<1>5. CASE pipeline_stage = "FETCH2"
  <2>1. cpu.PC = Add(cpu.MAR, 1) /\ cpu.MAR \in Word
    BY <1>5 DEF IInv, PipelineInv, TypeOK, CpuTypeOK, CpuState
  <2>2. isa_PC = cpu.MAR
    BY <1>3, <2>1, Incremented
  <2> QED BY <1>1, <1>3, <1>4, <2>2 DEF I!read_crashes
<1>6. CASE pipeline_stage = "MEMORY2"
  <2>1. /\ cpu.IR \in I!Word /\ I!Reads(isa_PC, cpu.IR)
        /\ Decode[cpu.IR] = d /\ d \in Instruction /\ I!next_PC = cpu.PC
    BY <1>1, <1>2, <1>6, AboutToAct DEF store_answered
  <2>2. d.opcode \in {"LOAD", "LOADR"} /\ cpu.MAR = effective_address(d)
    BY <1>2, <1>6 DEF InFlightInv, IInv, PipelineInv, store_in_progress
  <2>3. I!operand_address(d) = cpu.MAR
    BY <2>1, <2>2, SameMap
    DEF I!operand_address, I!pc_relative_address, I!base_plus_offset,
        effective_address, is_pc_relative_instruction
  <2> QED BY <1>1, <1>3, <1>4, <2>1, <2>2, <2>3 DEF I!read_crashes
<1> QED BY <1>1, <1>5, <1>6 DEF waiting
(* What the CPU does in its other stages is invisible, but for taking an
   interrupt and for the moment at which a finished store lets requests in. *)
LEMMA CpuStepIsa ==
  ASSUME IInv, InFlightInv, clock_cpu, ~execute
  PROVE  [I!Next]_(I!vars)
<1>1. /\ running /\ phase = "cpu" /\ cpu \in CpuState /\ bus \in Bus
      /\ cpu.PC \in Word
      /\ UNCHANGED <<system_memory, frame_buffer>>
  BY DEF clock_cpu, clocks, IInv, TypeOK, CpuTypeOK, CpuState
<1>2. CASE interrupt
  <2>1. cpu.connected /\ pipeline_stage = "INTERRUPT" /\ isa_process = "running"
    BY <1>1, <1>2 DEF interrupt, isa_process, running
  <2>2. CASE enter_interrupt_mode /\ interrupt_requested
    <3>1. /\ process' = "exited" /\ UNCHANGED pipeline_stage
          /\ cpu'.registers = cpu.registers /\ cpu'.CCR = cpu.CCR
          /\ cpu'.PC = cpu.PC
      BY <1>1, <2>2 DEF enter_interrupt_mode, CpuState
    <3>2. isa_process' = "exited" /\ isa_PC' = isa_PC
      BY <2>1, <3>1 DEF isa_process, running, isa_PC, in_flight
    <3>3. isa_interrupted = TRUE /\ isa_interrupted' = FALSE
      BY <2>1, <2>2, <3>2 DEF isa_interrupted, interrupt_requested
    <3>4. I!takes_interrupt
      BY <1>1, <2>1, <3>1, <3>2, <3>3 DEF I!takes_interrupt
    <3> QED BY <3>4 DEF I!Next
  <2>3. CASE ~(enter_interrupt_mode /\ interrupt_requested)
    <3>1. /\ interrupt_requests = << >> /\ pipeline_stage' = "FETCH1"
          /\ cpu' = [cpu EXCEPT !.instruction_finished = FALSE]
          /\ UNCHANGED machine
      BY <1>1, <1>2, <2>3
      DEF interrupt, interrupt_requested, IInv, BackupInv, disconnected
    <3>2. /\ cpu'.registers = cpu.registers /\ cpu'.CCR = cpu.CCR
          /\ cpu'.PC = cpu.PC /\ cpu'.connected = cpu.connected
      BY <1>1, <3>1 DEF CpuState
    <3>3. UNCHANGED <<isa_process, isa_PC, isa_interrupted>>
      BY <2>1, <3>1, <3>2
      DEF isa_process, running, isa_PC, in_flight, isa_interrupted, machine
    <3> QED BY <1>1, <3>2, <3>3 DEF I!vars
  <2> QED BY <2>2, <2>3
<1>3. CASE null_controller
  <2>1. UNCHANGED <<isa_process, isa_PC, isa_interrupted, cpu>>
    BY <1>1, <1>3
    DEF null_controller, isa_process, running, isa_PC, in_flight,
        isa_interrupted
  <2> QED BY <1>1, <2>1 DEF I!vars
<1>4. ASSUME pipeline_stage # "INTERRUPT", pipeline_stage' # "INTERRUPT",
             cpu'.registers = cpu.registers, cpu'.CCR = cpu.CCR,
             cpu'.connected = cpu.connected, isa_PC' = isa_PC,
             UNCHANGED process
      PROVE  [I!Next]_(I!vars)
  <2>1. UNCHANGED <<isa_process, isa_interrupted>>
    BY <1>4 DEF isa_process, running, isa_interrupted
  <2> QED BY <1>1, <1>4, <2>1 DEF I!vars
<1>5. CASE fetch1
  <2>1. /\ cpu'.registers = cpu.registers /\ cpu'.CCR = cpu.CCR
        /\ cpu'.connected = cpu.connected /\ cpu'.PC = Add(cpu.PC, 1)
    BY <1>1, <1>5 DEF fetch1, CpuState
  <2>2. isa_PC = cpu.PC /\ isa_PC' = Subtract(Add(cpu.PC, 1), 1)
    BY <1>5, <2>1
    DEF fetch1, isa_PC, in_flight, store_answered, store_in_progress
  <2>3. isa_PC' = isa_PC
    BY <1>1, <2>2, Incremented
  <2> QED BY <1>4, <1>5, <2>1, <2>3 DEF fetch1
<1>6. CASE fetch2 \/ decode
  <2>1. /\ cpu'.registers = cpu.registers /\ cpu'.CCR = cpu.CCR
        /\ cpu'.connected = cpu.connected /\ cpu'.PC = cpu.PC
        /\ UNCHANGED process
    BY <1>1, <1>6 DEF fetch2, decode, machine, CpuState
  <2>2. /\ pipeline_stage \in {"FETCH2", "DECODE"}
        /\ pipeline_stage' \in {"FETCH2", "DECODE", "MEMORY1", "EXECUTE"}
    BY <1>6 DEF fetch2, decode
  <2>3. isa_PC' = isa_PC
    BY <2>1, <2>2 DEF isa_PC, in_flight, store_answered, store_in_progress
  <2> QED BY <1>4, <2>1, <2>2, <2>3
<1>7. CASE memory1
  <2> DEFINE address == effective_address(cpu.decoded)
             stored == cpu.registers[cpu.decoded.destination_reg1]
  <2>1. /\ cpu'.registers = cpu.registers /\ cpu'.CCR = cpu.CCR
        /\ cpu'.connected = cpu.connected /\ cpu'.PC = cpu.PC
        /\ UNCHANGED process
    <3> HIDE DEF address, stored
    <3> QED BY <1>1, <1>7 DEF memory1, CpuState, address, stored
  <2>2. bus'.device_ready = bus.device_ready
    <3> HIDE DEF address, stored
    <3> QED
      BY <1>1, <1>7
      DEF memory1, bus_set_read_operation, bus_set_write_operation,
          bus_set_address_lines, bus_set_data_lines, bus_enable, Bus,
          address, stored
  <2>3. ~bus.device_ready
    BY <1>1, <1>7 DEF memory1, waiting, IInv, TransactionInv
  <2>4. isa_PC' = isa_PC
    BY <1>7, <2>1, <2>2, <2>3
    DEF memory1, isa_PC, in_flight, store_answered, store_in_progress
  <2> QED BY <1>4, <1>7, <2>1, <2>4 DEF memory1
<1>8. CASE memory2
  <2>1. /\ cpu'.registers = cpu.registers /\ cpu'.CCR = cpu.CCR
        /\ cpu'.connected = cpu.connected /\ cpu'.PC = cpu.PC
        /\ cpu'.decoded = cpu.decoded
        /\ UNCHANGED <<process, interrupt_requests>>
        /\ pipeline_stage = "MEMORY2"
    BY <1>1, <1>8 DEF memory2, CpuState
  <2>2. CASE ~bus.device_ready
    <3>1. isa_PC' = isa_PC /\ UNCHANGED pipeline_stage
      BY <1>8, <2>1, <2>2
      DEF memory2, isa_PC, in_flight, store_answered, store_in_progress
    <3> QED BY <1>4, <2>1, <3>1
  <2>3. CASE bus.device_ready /\ is_load_instruction(cpu.decoded.opcode)
    <3>1. pipeline_stage' = "EXECUTE"
      BY <1>8, <2>3 DEF memory2
    <3>2. isa_PC' = isa_PC
      BY <2>1, <2>3, <3>1
      DEF isa_PC, in_flight, store_answered, store_in_progress,
          is_load_instruction
    <3> QED BY <1>4, <2>1, <3>1, <3>2
  <2>4. CASE bus.device_ready /\ ~is_load_instruction(cpu.decoded.opcode)
    <3>1. pipeline_stage' = "INTERRUPT" /\ store_answered
      BY <1>8, <2>1, <2>4
      DEF memory2, store_answered, store_in_progress, is_load_instruction,
          IInv, PipelineInv
    <3>2. /\ isa_PC = cpu.PC /\ isa_PC' = isa_PC
          /\ isa_process = "running" /\ isa_process' = isa_process
      BY <1>1, <2>1, <3>1
      DEF isa_PC, in_flight, isa_process, running, IInv, BackupInv, disconnected
    <3>3. isa_interrupted = FALSE /\ isa_interrupted' \in BOOLEAN
      BY <2>1 DEF isa_interrupted
    <3>4. I!device_requests \/ UNCHANGED isa_interrupted
      BY <1>1, <2>1, <3>2, <3>3 DEF I!device_requests
    <3> QED BY <1>1, <2>1, <3>2, <3>4 DEF I!vars, I!Next
  <2> QED BY <2>2, <2>3, <2>4
<1> QED
  BY <1>2, <1>3, <1>5, <1>6, <1>7, <1>8 DEF clock_cpu, cpu_cycle
(* Every step of the computer is one of the instruction set or invisible. *)
LEMMA StepIsa ==
  ASSUME IInv, InFlightInv, [Next]_vars
  PROVE  [I!Next]_(I!vars)
<1>0. bus \in Bus /\ TransactionInv /\ PipelineInv /\ AnswerInv
  BY DEF IInv, TypeOK
<1>1. CASE clock_cpu
  BY <1>1, CpuStepIsa, ExecuteTakesEffect DEF I!Next
<1>2. ASSUME UNCHANGED <<cpu, pipeline_stage, system_memory, frame_buffer,
                         process, interrupt_requests>>,
             store_answered' <=> store_answered
      PROVE  [I!Next]_(I!vars)
  <2>1. UNCHANGED <<isa_process, isa_PC, isa_interrupted>>
    BY <1>2 DEF isa_process, isa_PC, isa_interrupted, in_flight, running
  <2> QED BY <1>2, <2>1 DEF I!vars
<1>3. CASE UNCHANGED <<cpu, pipeline_stage, system_memory, frame_buffer,
                       process, interrupt_requests, bus>>
  BY <1>2, <1>3 DEF store_answered, store_in_progress
<1>4. CASE clock_bus
  <2>1. bus'.device_ready = bus.device_ready \/ ~waiting
    BY <1>0, <1>4 DEF clock_bus, bus_cycle, TransactionInv, Bus
  <2>2. store_answered' <=> store_answered
    BY <1>4, <2>1
    DEF clock_bus, store_answered, store_in_progress, waiting
  <2> QED BY <1>2, <1>4, <2>2 DEF clock_bus
<1>5. CASE clock_memory
  <2>1. running /\ phase = "memory" /\ (waiting => ~bus.device_ready)
    BY <1>0, <1>5 DEF clock_memory, clocks, TransactionInv
  <2>2. CASE memory_ignores \/ memory_waits
    BY <1>3, <1>5, <2>2 DEF clock_memory, memory_ignores, memory_waits
  <2>3. CASE memory_writes
    <3>1. bus.bus_mode = "DATA_WRITE" /\ waiting /\ bus'.device_ready
      BY <1>0, <2>3
      DEF memory_writes, memory_selected, TransactionInv,
          bus_set_device_ready, Bus
    <3>2. store_in_progress
      BY <1>0, <3>1
      DEF waiting, PipelineInv, is_load_instruction, store_in_progress
    <3>3. I!instruction
      BY <1>5, <2>1, <3>1, <3>2, StoreTakesEffect
    <3> QED BY <3>3 DEF I!Next
  <2>4. CASE memory_reads
    <3>1. bus.bus_mode = "DATA_READ" /\ waiting
      BY <1>0, <2>4 DEF memory_reads, memory_selected, TransactionInv
    <3>2. ~store_answered /\ ~store_answered'
      BY <1>0, <1>5, <3>1
      DEF clock_memory, PipelineInv, is_load_instruction, store_answered,
          store_in_progress
    <3>3. CASE UNCHANGED process
      BY <1>2, <1>5, <2>4, <3>2, <3>3 DEF clock_memory, memory_reads
    <3>4. CASE process' = "crashed"
      BY <1>5, <2>4, <3>4, ReadCrashes DEF I!Next
    <3> QED BY <2>4, <3>3, <3>4 DEF memory_reads
  <2> QED BY <1>5, <2>2, <2>3, <2>4 DEF clock_memory, memory_cycle
<1>6. CASE clock_graphics
  <2>0. running /\ phase = "graphics"
    BY <1>6 DEF clock_graphics, clocks
  <2>1. CASE ~graphics_selected
    BY <1>3, <1>6, <2>1 DEF clock_graphics, graphics_cycle
  <2>2. CASE graphics_selected
    <3>1. /\ waiting /\ bus' = bus_set_device_ready(bus)
          /\ bus.address_lines = cpu.MAR
          /\ DeviceAt(cpu.MAR) = "GRAPHICS_SELECTED"
      BY <1>0, <1>6, <2>0, <2>2
      DEF clock_graphics, graphics_cycle, graphics_selected, TransactionInv
    <3>2. bus'.device_ready
      BY <1>0, <3>1 DEF bus_set_device_ready, Bus
    <3>3. CASE bus.bus_mode = "DATA_READ"
      <4>1. ~store_answered /\ ~store_answered'
        BY <1>0, <1>6, <3>1, <3>3
        DEF clock_graphics, PipelineInv, is_load_instruction,
            store_answered, store_in_progress
      <4> QED
        BY <1>2, <1>6, <2>2, <3>3, <4>1 DEF clock_graphics, graphics_cycle
    <3>4. CASE bus.bus_mode = "DATA_WRITE"
      <4>1. store_in_progress
        BY <1>0, <3>1, <3>4
        DEF waiting, PipelineInv, is_load_instruction, store_in_progress
      <4>2. CASE ~bus.device_ready
        BY <1>6, <2>0, <3>2, <4>1, <4>2, StoreTakesEffect DEF I!Next
      <4>3. CASE bus.device_ready
        <5>1. /\ frame_buffer' = [frame_buffer EXCEPT
                    ![cpu.MAR - GRAPHICS_REGION_START] = bus.data_lines]
              /\ frame_buffer[cpu.MAR - GRAPHICS_REGION_START]
                   = bus.data_lines
              /\ frame_buffer \in [Pixel -> Word]
          BY <1>0, <1>6, <2>2, <3>1, <3>4, <4>3
          DEF clock_graphics, graphics_cycle, graphics_update, AnswerInv,
              IInv, TypeOK
        <5>2. UNCHANGED frame_buffer
          BY <5>1
        <5>3. store_answered' <=> store_answered
          BY <1>6, <3>2, <4>1, <4>3
          DEF clock_graphics, store_answered, store_in_progress
        <5> QED BY <1>2, <1>6, <5>2, <5>3 DEF clock_graphics
      <4> QED BY <4>2, <4>3
    <3> QED BY <1>0, <3>3, <3>4 DEF Bus, BusMode
  <2> QED BY <2>1, <2>2
<1>7. CASE clock_timer
  <2>1. UNCHANGED <<cpu, pipeline_stage, system_memory, frame_buffer, process,
                    bus>>
    BY <1>7 DEF clock_timer
  <2>2. UNCHANGED <<isa_process, isa_PC>>
    BY <2>1
    DEF isa_process, isa_PC, in_flight, store_answered, store_in_progress,
        running
  <2>3. CASE UNCHANGED interrupt_requests
    BY <1>3, <2>1, <2>3
  <2>4. CASE \E irq \in IRQ : request_interrupt(irq)
    <3>1. interrupt_requests' # << >>
      BY <2>4, RequestRemains DEF IInv, TypeOK, QueueOK
    <3>2. CASE isa_process = "running" /\ pipeline_stage = "INTERRUPT"
      <4>1. isa_interrupted' = TRUE /\ isa_interrupted \in BOOLEAN
        BY <2>1, <2>2, <3>1, <3>2 DEF isa_interrupted
      <4>2. I!device_requests \/ UNCHANGED isa_interrupted
        <5>1. CASE isa_interrupted = FALSE
          BY <2>1, <2>2, <3>2, <4>1, <5>1 DEF I!device_requests
        <5> QED BY <4>1, <5>1
      <4> QED BY <2>1, <2>2, <4>2 DEF I!vars, I!Next
    <3>3. CASE ~(isa_process = "running" /\ pipeline_stage = "INTERRUPT")
      <4>1. isa_interrupted = FALSE /\ isa_interrupted' = FALSE
        BY <2>1, <2>2, <3>3 DEF isa_interrupted
      <4> QED BY <2>1, <2>2, <4>1 DEF I!vars
    <3> QED BY <3>2, <3>3
  <2>5. \/ UNCHANGED interrupt_requests
        \/ \E irq \in IRQ : request_interrupt(irq)
    <3>1. /\ tick(timer).IRQ_number = IRQ_1
          /\ update_timer_overflow_status(tick(timer)).IRQ_number = IRQ_1
          /\ IRQ_1 \in IRQ
      BY IrqAssumption
      DEF IInv, RequestInv, TypeOK, tick, prescale_tick, count_up, TimerState,
          update_timer_overflow_status, IRQ, IRQ_1, IrqAssumption
    <3> QED
      BY <1>7, <3>1 DEF clock_timer, timer_cycle, update_interrupt_status
  <2> QED BY <2>3, <2>4, <2>5
<1> QED
  BY <1>1, <1>3, <1>4, <1>5, <1>6, <1>7
  DEF Next, computer_single_step, stopped, vars

(* An instruction stays in flight until it has its effect. *)
LEMMA InFlightUntilEffect ==
  ASSUME IInv, InFlightInv, [Next]_vars, in_flight, ~in_flight'
  PROVE  I!instruction
<1>0. /\ bus \in Bus /\ cpu \in CpuState /\ TransactionInv /\ PipelineInv
      /\ ~store_answered
  BY DEF IInv, TypeOK, CpuTypeOK, in_flight
<1>1. CASE clock_cpu
  <2>1. CASE execute
    BY <1>1, <2>1, ExecuteTakesEffect
  <2>2. CASE interrupt \/ null_controller \/ fetch1
    BY <2>2 DEF interrupt, null_controller, fetch1, in_flight
  <2>3. CASE fetch2 \/ decode
    <3>1. pipeline_stage' \in {"FETCH2", "DECODE", "MEMORY1", "EXECUTE"}
      BY <2>3 DEF fetch2, decode
    <3> QED BY <3>1 DEF in_flight, store_answered, store_in_progress
  <2>4. CASE memory1
    <3> DEFINE address == effective_address(cpu.decoded)
               stored == cpu.registers[cpu.decoded.destination_reg1]
    <3>1. bus'.device_ready = bus.device_ready
      <4> HIDE DEF address, stored
      <4> QED
        BY <1>0, <2>4
        DEF memory1, bus_set_read_operation, bus_set_write_operation,
            bus_set_address_lines, bus_set_data_lines, bus_enable, Bus,
            address, stored
    <3>2. ~bus.device_ready /\ pipeline_stage' = "MEMORY2"
      BY <1>0, <1>1, <2>4
      DEF clock_cpu, clocks, memory1, waiting, TransactionInv
    <3> QED BY <3>1, <3>2 DEF in_flight, store_answered
  <2>5. CASE memory2
    <3>1. pipeline_stage = "MEMORY2" /\ cpu'.decoded = cpu.decoded
      BY <1>0, <2>5 DEF memory2, CpuState
    <3>2. CASE ~bus.device_ready
      <4>1. UNCHANGED <<pipeline_stage, bus>>
        BY <2>5, <3>2 DEF memory2
      <4> QED BY <3>1, <3>2, <4>1 DEF in_flight, store_answered
    <3>3. CASE bus.device_ready
      <4>1. is_load_instruction(cpu.decoded.opcode)
        BY <1>0, <3>1, <3>3
        DEF PipelineInv, store_answered, store_in_progress,
            is_load_instruction
      <4>2. pipeline_stage' = "EXECUTE"
        BY <2>5, <3>3, <4>1 DEF memory2
      <4> QED BY <4>2 DEF in_flight, store_answered, store_in_progress
    <3> QED BY <3>2, <3>3
  <2> QED BY <1>1, <2>1, <2>2, <2>3, <2>4, <2>5 DEF clock_cpu, cpu_cycle
<1>2. CASE UNCHANGED <<cpu, pipeline_stage>>
  <2>1. store_in_progress /\ ~bus.device_ready /\ bus'.device_ready
    BY <1>0, <1>2 DEF in_flight, store_answered, store_in_progress
  <2>2. CASE clock_memory \/ clock_graphics
    BY <2>1, <2>2, StoreTakesEffect DEF clock_memory, clock_graphics, clocks
  <2>3. CASE clock_bus
    BY <1>0, <2>1, <2>3
    DEF clock_bus, bus_cycle, store_in_progress, waiting, TransactionInv, Bus
  <2>4. CASE UNCHANGED bus
    BY <2>1, <2>4
  <2> QED
    BY <1>2, <2>1, <2>2, <2>3, <2>4, <1>1
    DEF Next, computer_single_step, clock_timer, stopped, vars, clock_cpu,
        in_flight, store_answered
<1> QED
  BY <1>1, <1>2
  DEF Next, computer_single_step, clock_bus, clock_memory, clock_graphics,
      clock_timer, stopped, vars

(* The computer starts in the programmer's initial state. *)
LEMMA InitialIsa == Init => I!Init /\ InFlightInv
<1> SUFFICES ASSUME Init PROVE I!Init /\ InFlightInv
  OBVIOUS
<1>1. /\ pipeline_stage = "INTERRUPT" /\ process = "running"
      /\ interrupt_requests = << >> /\ cpu = build_cpu
      /\ system_memory \in [Location -> Word]
      /\ frame_buffer = [p \in Pixel |-> 0]
  BY ProgramAssumption DEF Init, CpuInit, ProgramAssumption
<1>2. /\ cpu.registers = [r \in Reg |-> 0] /\ cpu.PC = 0 /\ cpu.CCR = {}
      /\ cpu.connected
  BY <1>1 DEF build_cpu, zeroed_cpu
<1>3. isa_PC = 0 /\ isa_interrupted = FALSE /\ isa_process = "running"
  BY <1>1, <1>2 DEF isa_PC, in_flight, isa_interrupted, isa_process
<1> QED BY <1>1, <1>2, <1>3, SameMap DEF I!Init, InFlightInv
-----------------------------------------------------------------------------
(* The word in flight is the word the memory holds at its address, and the
   operand's address is computed from it (cpu.c:239, cpu.c:308). *)
THEOREM WordInFlight == Spec => []InFlightInv
<1>1. Init => IInv /\ InFlightInv
  BY InitialInv, InitialIsa
<1>2. IInv /\ InFlightInv /\ [Next]_vars => (IInv /\ InFlightInv)'
  BY StepInv, StepInFlight
<1> QED BY <1>1, <1>2, PTL DEF Spec

(* The pipelined computer implements the instruction set: every program, also
   one that rewrites itself, runs as whole instructions in program order
   (cpu_ops.c:382, cpu.c:360, computer.c:122). *)
THEOREM ImplementsIsa == Spec => RefinesIsa
<1>1. Init => I!Init
  BY InitialIsa
<1>2. IInv /\ InFlightInv /\ [Next]_vars => [I!Next]_(I!vars)
  BY StepIsa
<1> QED
  BY <1>1, <1>2, InductiveInvariant, WordInFlight, PTL DEF Spec, RefinesIsa
=============================================================================
