--------------------------- MODULE ComputerProofs ---------------------------
(***************************************************************************)
(* The computer for every word width, memory map, memory size, latency,    *)
(* instruction encoding, program and timer period.                         *)
(***************************************************************************)
EXTENDS Computer, SequenceTheorems, TLAPS

(* Arithmetic on words yields words. *)
LEMMA WordClosed ==
  ASSUME NEW a \in Word, NEW b \in Word
  PROVE  /\ Add(a, b) \in Word /\ Subtract(a, b) \in Word
         /\ WORDS - 1 - a \in Word
         /\ upper_ones(a) \in Word /\ upper_zeros(a) \in Word
<1> USE WordAssumption, CpuAssumption
    DEF WordAssumption, CpuAssumption, Word
<1>1. Add(a, b) \in Word /\ Subtract(a, b) \in Word
  BY DEF Add, Subtract
<1>2. WORDS - 1 - a \in Word
  OBVIOUS
<1>3. a % HALF \in 0 .. HALF - 1
  OBVIOUS
<1>4. upper_ones(a) \in Word /\ upper_zeros(a) \in Word
  BY <1>3 DEF upper_ones, upper_zeros
<1> QED BY <1>1, <1>2, <1>4

(* Zero and one are words when there is an address map to speak of. *)
LEMMA SmallWords == 0 \in Word /\ 1 \in Word
BY WordAssumption, MemoryMapAssumption
DEF WordAssumption, MemoryMapAssumption, Word, KEYBOARD_REGION_END,
    KEYBOARD_REGION_START, GRAPHICS_REGION_END, GRAPHICS_REGION_START,
    INTERRUPT_VECTOR_TABLE_END, INTERRUPT_VECTOR_TABLE_START, BOOT_ROM_END

(* What a request and the taking of a request do to the queue's type. *)
QueueOK(q) == q \in Seq(IRQ) /\ Len(q) <= MAX_NUM_IRQS

(* A request leaves a queue of the right type. *)
LEMMA RequestType ==
  ASSUME QueueOK(interrupt_requests), NEW irq \in IRQ, request_interrupt(irq)
  PROVE  QueueOK(interrupt_requests)'
BY AppendProperties, LenProperties, IrqAssumption
DEF QueueOK, request_interrupt, IrqAssumption

(* So does taking a source. *)
LEMMA SourceType ==
  ASSUME QueueOK(interrupt_requests), NEW irq \in IRQ,
         get_interrupt_source(irq)
  PROVE  QueueOK(interrupt_requests)'
BY HeadTailProperties, LenProperties, IrqAssumption
DEF QueueOK, get_interrupt_source, interrupt_requested, IrqAssumption
-----------------------------------------------------------------------------
(* The CPU's operations. *)

(* Every entry of the instruction table keeps the CPU's types. *)
LEMMA OperationType ==
  ASSUME CpuTypeOK, QueueOK(interrupt_requests), cpu.decoded \in Instruction,
         operation
  PROVE  cpu' \in CpuState /\ QueueOK(interrupt_requests)'
<1> DEFINE d == cpu.decoded
<1>1. /\ cpu \in CpuState /\ backup_cpu \in CpuState
      /\ source1 \in Word /\ source2 \in Word /\ immediate \in Word
      /\ cpu.PC \in Word /\ cpu.MDR \in Word
  BY DEF CpuTypeOK, CpuState, Instruction, source1, source2, immediate
<1>2. ASSUME NEW i \in Word PROVE second_operand(i) \in Word
  BY <1>1, <1>2 DEF second_operand
<1>3. ASSUME NEW result \in Word, ALU_result(result)
      PROVE  cpu' \in CpuState /\ QueueOK(interrupt_requests)'
  <2>1. condition_code_bits(result) \in SUBSET ConditionCode
    BY DEF condition_code_bits, ConditionCode
  <2> QED
    BY <1>1, <1>3, <2>1 DEF ALU_result, CpuState, QueueOK, Instruction
<1>4. ASSUME NEW value \in Word, load_result(value)
      PROVE  cpu' \in CpuState /\ QueueOK(interrupt_requests)'
  BY <1>1, <1>4 DEF load_result, CpuState, QueueOK, Instruction
<1>5. ASSUME NEW target \in Word, NEW regs \in [Reg -> Word],
             transfer(target, regs)
      PROVE  cpu' \in CpuState /\ QueueOK(interrupt_requests)'
  BY <1>1, <1>5 DEF transfer, CpuState, QueueOK
<1>6. linked \in [Reg -> Word] /\ cpu.registers \in [Reg -> Word]
  BY <1>1 DEF linked, CpuState
<1>7. /\ jump_target \in Word
      /\ \A regs \in [Reg -> Word] : jumpr_target(regs) \in Word
      /\ Add(cpu.PC, d.branch_pc_relative_offset_bits) \in Word
      /\ Add(cpu.PC, d.load_pc_relative_offset_bits) \in Word
  BY <1>1, WordClosed DEF jump_target, jumpr_target, Instruction
<1>8. ASSUME NEW a \in Word, NEW b \in Word
      PROVE  /\ BitAnd[<<a, b>>] \in Word /\ BitOr[<<a, b>>] \in Word
             /\ BitXor[<<a, b>>] \in Word
  BY CpuAssumption DEF CpuAssumption
<1>9. CASE cpu_and
  BY <1>1, <1>2, <1>3, <1>8, <1>9, WordClosed DEF cpu_and
<1>10. CASE cpu_or
  BY <1>1, <1>2, <1>3, <1>8, <1>10, WordClosed DEF cpu_or
<1>11. CASE cpu_not
  BY <1>1, <1>3, <1>11, WordClosed DEF cpu_not
<1>12. CASE cpu_xor
  BY <1>1, <1>2, <1>3, <1>8, <1>12, WordClosed DEF cpu_xor
<1>13. CASE cpu_add
  BY <1>1, <1>2, <1>3, <1>13, WordClosed DEF cpu_add
<1>14. CASE cpu_sub
  BY <1>1, <1>2, <1>3, <1>14, WordClosed DEF cpu_sub
<1>15. CASE cpu_load_pc_relative \/ cpu_load_base_plus_offset
            \/ cpu_load_effective_address
  BY <1>1, <1>4, <1>7, <1>15
  DEF cpu_load_pc_relative, cpu_load_base_plus_offset,
      cpu_load_effective_address
<1>16. CASE cpu_jump_pc_relative \/ cpu_jump_base_plus_offset
            \/ cpu_call \/ cpu_callr
  BY <1>5, <1>6, <1>7, <1>16
  DEF cpu_jump_pc_relative, cpu_jump_base_plus_offset, cpu_call, cpu_callr
<1>17. CASE cpu_branch
  BY <1>1, <1>5, <1>6, <1>7, <1>17 DEF cpu_branch
<1>18. CASE cpu_swi
  <2>1. IRQ_128 + (cpu.registers[d.destination_reg1] % IRQ_128) \in IRQ
    <3>1. cpu.registers[d.destination_reg1] \in Int
      BY <1>1 DEF CpuState, Instruction, Word
    <3> QED
      BY <3>1, IrqAssumption DEF IrqAssumption, IRQ_128, IRQ
  <2> QED
    BY <1>1, <1>18, <2>1, RequestType DEF cpu_swi, CpuState
<1>19. CASE cpu_rfi
  <2>1. PICK irq \in IRQ :
          /\ get_interrupt_source(irq)
          /\ \E resumed \in {cpu, backup_cpu} :
               cpu' = [resumed EXCEPT !.interrupt_in_process = FALSE,
                                      !.instruction_finished = TRUE]
    BY <1>19 DEF cpu_rfi, exit_interrupt_mode
  <2>2. PICK resumed \in CpuState :
          cpu' = [resumed EXCEPT !.interrupt_in_process = FALSE,
                                 !.instruction_finished = TRUE]
    BY <1>1, <2>1
  <2>3. cpu' \in CpuState
    BY <2>2 DEF CpuState
  <2> QED
    BY <2>1, <2>3, SourceType
<1>20. CASE cpu_nop
  BY <1>1, <1>20 DEF cpu_nop, CpuState, QueueOK
<1> QED
  BY <1>9, <1>10, <1>11, <1>12, <1>13, <1>14, <1>15, <1>16, <1>17, <1>18,
     <1>19, <1>20 DEF operation
-----------------------------------------------------------------------------
(* Types. *)

(* The bus operators keep the bus a bus. *)
LEMMA BusType ==
  ASSUME NEW b \in Bus, NEW w \in Word
  PROVE  /\ bus_set_device_ready(b) \in Bus
         /\ bus_clear_device_ready(b) \in Bus
         /\ bus_enable(b) \in Bus /\ bus_disable(b) \in Bus
         /\ bus_set_read_operation(b) \in Bus
         /\ bus_set_write_operation(b) \in Bus
         /\ bus_set_address_lines(b, w) \in Bus
         /\ bus_set_data_lines(b, w) \in Bus
BY DEF Bus, BusMode, Device, bus_set_device_ready, bus_clear_device_ready,
       bus_enable, bus_disable, bus_set_read_operation,
       bus_set_write_operation, bus_set_address_lines, bus_set_data_lines

(* The types hold at first. *)
LEMMA InitialType == Init => TypeOK
<1> SUFFICES ASSUME Init PROVE TypeOK
  OBVIOUS
<1>1. zeroed_cpu \in CpuState /\ build_cpu \in CpuState
  BY SmallWords DEF zeroed_cpu, build_cpu, CpuState, ConditionCode
<1>2. CpuTypeOK
  BY <1>1 DEF Init, CpuInit, CpuTypeOK, Stage
<1>3. MemoryTypeOK
  BY ProgramAssumption, MemoryAssumption
  DEF Init, MemoryTypeOK, ProgramAssumption, MemoryAssumption
<1>4. bus \in Bus
  BY SmallWords DEF Init, make_memory_bus, Bus, BusMode, Device
<1>5. frame_buffer \in [Pixel -> Word]
  BY SmallWords DEF Init
<1>6. interrupt_requests \in Seq(IRQ) /\ Len(interrupt_requests) <= MAX_NUM_IRQS
  BY EmptySeq, IrqAssumption DEF Init, IrqAssumption
<1>7. timer \in TimerState
  BY TimerAssumption, IrqAssumption
  DEF Init, make_timer, TimerState, ControlBit, Count, IRQ_1, IRQ,
      TimerAssumption, IrqAssumption
<1> QED
  BY <1>2, <1>3, <1>4, <1>5, <1>6, <1>7 DEF Init, TypeOK, Fates, Phase

(* And every stage keeps them. *)
LEMMA CpuCycleType ==
  ASSUME TypeOK, PipelineInv, cpu_cycle
  PROVE  /\ CpuTypeOK' /\ bus' \in Bus /\ QueueOK(interrupt_requests)'
         /\ process' \in Fates
<1>1. /\ cpu \in CpuState /\ backup_cpu \in CpuState /\ bus \in Bus
      /\ pipeline_stage \in Stage /\ process \in Fates
      /\ QueueOK(interrupt_requests)
      /\ bus.data_lines \in Word /\ cpu.PC \in Word /\ cpu.IR \in Word
  BY DEF TypeOK, CpuTypeOK, QueueOK, Bus, CpuState
<1>2. CASE interrupt
  <2>1. CASE enter_interrupt_mode /\ UNCHANGED bus
    <3>1. PICK irq \in IRQ :
            /\ get_interrupt_source(irq)
            /\ backup_cpu' \in {backup_cpu, cpu}
            /\ cpu' = [cpu EXCEPT !.interrupt_in_process = TRUE]
            /\ process' = "exited" /\ UNCHANGED pipeline_stage
      BY <2>1 DEF enter_interrupt_mode
    <3>2. cpu' \in CpuState /\ backup_cpu' \in CpuState
      BY <1>1, <3>1 DEF CpuState
    <3> QED
      BY <1>1, <2>1, <3>1, <3>2, SourceType DEF CpuTypeOK, Fates
  <2>2. CASE /\ pipeline_stage' = "FETCH1"
             /\ cpu' = [cpu EXCEPT !.instruction_finished = FALSE]
             /\ UNCHANGED machine
    <3>1. cpu' \in CpuState
      BY <1>1, <2>2 DEF CpuState
    <3> QED
      BY <1>1, <2>2, <3>1 DEF machine, CpuTypeOK, Stage, QueueOK
  <2> QED BY <1>2, <2>1, <2>2 DEF interrupt
<1>3. CASE null_controller
  BY <1>1, <1>3 DEF null_controller, CpuTypeOK, QueueOK, Fates
<1>4. CASE fetch1
  <2>1. cpu' \in CpuState
    BY <1>1, <1>4, SmallWords, WordClosed DEF fetch1, CpuState
  <2>2. bus' \in Bus
    BY <1>1, <1>4, BusType DEF fetch1
  <2> QED
    BY <1>1, <1>4, <2>1, <2>2 DEF fetch1, CpuTypeOK, Stage, QueueOK
<1>5. CASE fetch2
  <2>1. cpu' \in CpuState
    BY <1>1, <1>5 DEF fetch2, CpuState
  <2>2. bus' \in Bus
    BY <1>1, <1>5, BusType DEF fetch2
  <2> QED
    BY <1>1, <1>5, <2>1, <2>2 DEF fetch2, CpuTypeOK, Stage, QueueOK
<1>6. CASE decode
  <2>1. Decode[cpu.IR] \in Instruction
    BY <1>1, CpuAssumption DEF CpuAssumption
  <2>2. cpu' \in CpuState
    BY <1>1, <1>6, <2>1 DEF decode, CpuState
  <2>3. pipeline_stage' \in Stage
    BY <1>6 DEF decode, Stage
  <2> QED
    BY <1>1, <1>6, <2>2, <2>3 DEF decode, machine, CpuTypeOK, QueueOK
<1>7. CASE memory1
  <2> DEFINE d == cpu.decoded
             address == effective_address(d)
             stored == cpu.registers[d.destination_reg1]
  <2>1. d \in Instruction
    BY <1>7 DEF memory1, PipelineInv
  <2>2. address \in Word /\ stored \in Word
    BY <1>1, <2>1, WordClosed DEF effective_address, CpuState, Instruction
  <2>3. cpu' \in CpuState
    <3> HIDE DEF address, stored
    <3> QED BY <1>1, <1>7, <2>2 DEF memory1, CpuState, address, stored
  <2>4. bus' \in Bus
    <3>1. bus_set_address_lines(bus_enable(bus), address) \in Bus
      BY <1>1, <2>2, BusType
    <3> QED BY <1>7, <2>2, <3>1, BusType DEF memory1
  <2> QED
    BY <1>1, <1>7, <2>3, <2>4 DEF memory1, CpuTypeOK, Stage, QueueOK
<1>8. CASE memory2
  <2>1. cpu' \in CpuState
    BY <1>1, <1>8 DEF memory2, CpuState
  <2>2. bus' \in Bus
    BY <1>1, <1>8, BusType DEF memory2
  <2> QED
    BY <1>1, <1>8, <2>1, <2>2 DEF memory2, CpuTypeOK, Stage, QueueOK
<1>9. CASE execute
  <2>1. cpu.decoded \in Instruction
    BY <1>9 DEF execute, PipelineInv
  <2>2. cpu' \in CpuState /\ QueueOK(interrupt_requests)'
    BY <1>1, <1>9, <2>1, OperationType DEF execute, CpuTypeOK
  <2> QED
    BY <1>1, <1>9, <2>2 DEF execute, CpuTypeOK, Stage
<1> QED
  BY <1>2, <1>3, <1>4, <1>5, <1>6, <1>7, <1>8, <1>9 DEF cpu_cycle
-----------------------------------------------------------------------------
(* Every step keeps the types. *)
LEMMA StepType ==
  ASSUME TypeOK, TransactionInv, PipelineInv, [Next]_vars
  PROVE  TypeOK'
<1>1. CASE computer_single_step
  BY <1>1 DEF computer_single_step, clocks, TypeOK, CpuTypeOK, MemoryTypeOK, Phase
<1>2. CASE clock_cpu
  BY <1>2, CpuCycleType
  DEF clock_cpu, clocks, TypeOK, MemoryTypeOK, QueueOK, Phase
<1>3. CASE clock_bus
  <2>1. DeviceAt(bus.address_lines) \in Device
    BY DEF DeviceAt, Device
  <2>2. bus' \in Bus
    BY <1>3, <2>1 DEF clock_bus, bus_cycle, TypeOK, Bus, Device
  <2> QED
    BY <1>3, <2>2
    DEF clock_bus, clocks, TypeOK, CpuTypeOK, MemoryTypeOK, Phase
<1>4. CASE clock_memory
  <2>1. bus \in Bus /\ bus.data_lines \in Word
    BY DEF TypeOK, Bus
  <2>2. bus' \in Bus /\ process' \in Fates
    BY <1>4, <2>1, BusType
    DEF clock_memory, memory_cycle, memory_ignores, memory_waits,
        memory_writes, memory_reads, TypeOK, Fates
  <2>3. MemoryTypeOK'
    BY <1>4, <2>1, MemoryAssumption
    DEF clock_memory, memory_cycle, memory_ignores, memory_waits,
        memory_writes, memory_reads, TypeOK, MemoryTypeOK, MemoryAssumption
  <2> QED
    BY <1>4, <2>2, <2>3 DEF clock_memory, clocks, TypeOK, CpuTypeOK, Phase
<1>5. CASE clock_graphics
  <2>1. bus \in Bus /\ bus.data_lines \in Word
    BY DEF TypeOK, Bus
  <2>2. bus' \in Bus
    BY <1>5, <2>1, BusType DEF clock_graphics, graphics_cycle
  <2>3. frame_buffer' \in [Pixel -> Word]
    BY <1>5, <2>1 DEF clock_graphics, graphics_cycle, graphics_update, TypeOK
  <2> QED
    BY <1>5, <2>2, <2>3
    DEF clock_graphics, clocks, TypeOK, CpuTypeOK, MemoryTypeOK, Phase
<1>6. CASE clock_timer
  <2>1. tick(timer) \in TimerState
    <3>1. \A c \in Count : (c + 1) % TIMER_VALUES \in Count
      BY TimerAssumption DEF TimerAssumption, Count
    <3>2. count_up(timer) \in TimerState
      BY <3>1 DEF count_up, TypeOK, TimerState
    <3>3. [count_up(timer) EXCEPT !.prescale_counter = 1] \in TimerState
      BY <3>2, TimerAssumption DEF TimerAssumption, TimerState, Count
    <3>4. timer.prescale_counter < timer.prescale_value =>
            [timer EXCEPT !.prescale_counter = @ + 1] \in TimerState
      BY TimerAssumption DEF TimerAssumption, TimerState, Count, TypeOK
    <3> QED BY <3>2, <3>3, <3>4 DEF tick, prescale_tick
  <2>2. update_timer_overflow_status(tick(timer)) \in TimerState
    BY <2>1 DEF update_timer_overflow_status, TimerState, ControlBit
  <2>3. timer' \in TimerState
    BY <1>6, <2>1, <2>2 DEF clock_timer, timer_cycle, TypeOK
  <2>4. QueueOK(interrupt_requests)'
    <3>1. \A t \in TimerState : t.IRQ_number \in IRQ
      BY DEF TimerState
    <3> QED
      BY <1>6, <2>1, <2>2, <3>1, RequestType
      DEF clock_timer, timer_cycle, update_interrupt_status, TypeOK, QueueOK
  <2> QED
    BY <1>6, <2>3, <2>4
    DEF clock_timer, clocks, TypeOK, CpuTypeOK, MemoryTypeOK, QueueOK, Phase
<1>7. CASE stopped \/ UNCHANGED vars
  BY <1>7 DEF stopped, vars, TypeOK, CpuTypeOK, MemoryTypeOK
<1> QED
  BY <1>1, <1>2, <1>3, <1>4, <1>5, <1>6, <1>7 DEF Next
-----------------------------------------------------------------------------
(* The bus protocol. *)

(* Every step of the CPU but a fetch1, a memory1 or an answered wait leaves
   the bus alone. *)
LEMMA CpuStepTransaction ==
  ASSUME TypeOK, TransactionInv, PipelineInv, clock_cpu
  PROVE  TransactionInv'
<1>1. bus \in Bus /\ phase = "cpu" /\ phase' = "bus" /\ cycle_count \in Nat
      /\ UNCHANGED cycle_count
  BY DEF clock_cpu, clocks, TypeOK, MemoryTypeOK
<1>2. ~waiting => ~bus.bus_active /\ cycle_count = 0 /\ ~bus.device_ready
  BY <1>1 DEF TransactionInv
<1>3. CASE interrupt \/ null_controller
  <2>1. ~waiting /\ ~waiting' /\ UNCHANGED bus
    BY <1>3 DEF interrupt, null_controller, enter_interrupt_mode, machine, waiting
  <2> QED BY <1>1, <1>2, <2>1 DEF TransactionInv
<1>4. CASE fetch1
  <2>1. ~waiting /\ waiting'
    BY <1>4 DEF fetch1, waiting
  <2>2. /\ bus'.bus_active /\ bus'.address_lines = cpu.PC
        /\ bus'.device_ready = bus.device_ready
    BY <1>1, <1>4
    DEF fetch1, bus_set_read_operation, bus_set_address_lines, bus_enable, Bus
  <2>3. cpu'.MAR = cpu.PC
    BY <1>4 DEF fetch1, TypeOK, CpuTypeOK, CpuState
  <2> QED BY <1>1, <1>2, <2>1, <2>2, <2>3 DEF TransactionInv
<1>5. CASE fetch2 \/ memory2
  <2>1. waiting
    BY <1>5 DEF fetch2, memory2, waiting
  <2>2. CASE bus.device_ready
    <3>1. ~waiting'
      BY <1>5, <2>2 DEF fetch2, memory2, waiting
    <3>2. ~bus'.bus_active
      BY <1>1, <1>5, <2>2
      DEF fetch2, memory2, bus_disable, bus_clear_device_ready, Bus
    <3>3. cycle_count = 0
      BY <1>1, <2>2 DEF TransactionInv
    <3> QED BY <1>1, <3>1, <3>2, <3>3 DEF TransactionInv
  <2>3. CASE ~bus.device_ready
    <3>1. UNCHANGED <<bus, pipeline_stage>>
      BY <1>5, <2>3 DEF fetch2, memory2
    <3>2. cpu'.MAR = cpu.MAR
      BY <1>5, <2>3 DEF fetch2, memory2, TypeOK, CpuTypeOK, CpuState
    <3> QED BY <1>1, <2>1, <2>3, <3>1, <3>2 DEF TransactionInv, waiting
  <2> QED BY <2>2, <2>3
<1>6. CASE decode \/ execute
  <2>1. ~waiting /\ ~waiting' /\ UNCHANGED bus
    BY <1>6 DEF decode, execute, machine, waiting
  <2> QED BY <1>1, <1>2, <2>1 DEF TransactionInv
<1>7. CASE memory1
  <2>1. ~waiting /\ waiting'
    BY <1>7 DEF memory1, waiting
  <2> DEFINE address == effective_address(cpu.decoded)
  <2>2. /\ bus'.bus_active /\ bus'.address_lines = address
        /\ bus'.device_ready = bus.device_ready
    <3> HIDE DEF address
    <3> QED
      BY <1>1, <1>7
      DEF memory1, bus_set_read_operation, bus_set_write_operation,
          bus_set_address_lines, bus_set_data_lines, bus_enable, Bus, address
  <2>3. cpu'.MAR = address
    <3> HIDE DEF address
    <3> QED BY <1>7 DEF memory1, TypeOK, CpuTypeOK, CpuState, address
  <2> QED BY <1>1, <1>2, <2>1, <2>2, <2>3 DEF TransactionInv
<1> QED
  BY <1>3, <1>4, <1>5, <1>6, <1>7 DEF clock_cpu, cpu_cycle

(* The devices answer only the transaction that addresses them. *)
LEMMA StepTransaction ==
  ASSUME TypeOK, TransactionInv, PipelineInv, [Next]_vars
  PROVE  TransactionInv'
<1>0. bus \in Bus /\ cycle_count \in Nat /\ MAX_CYCLES \in Nat
  BY MemoryAssumption DEF TypeOK, MemoryTypeOK, MemoryAssumption
<1>1. CASE computer_single_step
  BY <1>1 DEF computer_single_step, clocks, TransactionInv, waiting
<1>2. CASE clock_cpu
  BY <1>2, CpuStepTransaction
<1>3. CASE clock_bus
  BY <1>0, <1>3
  DEF clock_bus, clocks, bus_cycle, TransactionInv, waiting, Bus, Device
<1>4. CASE clock_memory
  <2>1. /\ phase = "memory" /\ phase' = "graphics" /\ waiting' = waiting
        /\ UNCHANGED cpu
    BY <1>4 DEF clock_memory, clocks, waiting
  <2>2. CASE memory_ignores
    BY <2>1, <2>2 DEF memory_ignores, TransactionInv, memory_selected
  <2>3. CASE memory_waits
    BY <1>0, <2>1, <2>3 DEF memory_waits, TransactionInv, memory_selected
  <2>4. CASE memory_writes \/ memory_reads
    <3>1. /\ waiting /\ cycle_count' = 0
          /\ bus'.bus_active = bus.bus_active
          /\ bus'.selected_device = bus.selected_device
          /\ bus'.address_lines = bus.address_lines
      BY <1>0, <2>4
      DEF memory_writes, memory_reads, memory_selected, TransactionInv,
          bus_set_device_ready, bus_set_data_lines, Bus
    <3> QED BY <2>1, <3>1 DEF TransactionInv
  <2> QED BY <1>4, <2>2, <2>3, <2>4 DEF clock_memory, memory_cycle
<1>5. CASE clock_graphics
  <2>1. /\ phase = "graphics" /\ phase' = "timer" /\ waiting' = waiting
        /\ UNCHANGED <<cpu, cycle_count>>
    BY <1>5 DEF clock_graphics, clocks, waiting
  <2>2. CASE ~graphics_selected
    BY <1>5, <2>1, <2>2 DEF clock_graphics, graphics_cycle, TransactionInv
  <2>3. CASE graphics_selected
    <3>1. /\ waiting /\ cycle_count = 0
          /\ bus' = bus_set_device_ready(bus)
      BY <1>0, <1>5, <2>1, <2>3
      DEF clock_graphics, graphics_cycle, graphics_selected, TransactionInv
    <3> QED
      BY <1>0, <2>1, <3>1 DEF bus_set_device_ready, TransactionInv, Bus
  <2> QED BY <2>2, <2>3
<1>6. CASE clock_timer
  BY <1>6 DEF clock_timer, clocks, TransactionInv, waiting
<1>7. CASE stopped \/ UNCHANGED vars
  BY <1>7 DEF stopped, vars, TransactionInv, waiting
<1> QED
  BY <1>1, <1>2, <1>3, <1>4, <1>5, <1>6, <1>7 DEF Next
-----------------------------------------------------------------------------
(* The pipeline: what the latched instruction and the bus's mode are. *)
LEMMA StepPipeline ==
  ASSUME TypeOK, TransactionInv, PipelineInv, [Next]_vars
  PROVE  PipelineInv'
<1>0. bus \in Bus /\ cpu \in CpuState
  BY DEF TypeOK, CpuTypeOK
<1>1. CASE clock_cpu
  <2>1. CASE interrupt \/ null_controller \/ execute
    <3>1. pipeline_stage' \in {"INTERRUPT", "FETCH1"}
      BY <2>1 DEF interrupt, null_controller, enter_interrupt_mode, execute
    <3> QED BY <3>1 DEF PipelineInv
  <2>2. CASE fetch1
    <3>1. pipeline_stage' = "FETCH2" /\ cpu'.PC = Add(cpu'.MAR, 1)
      BY <1>0, <2>2 DEF fetch1, CpuState
    <3>2. bus'.bus_mode = "DATA_READ"
      BY <1>0, <2>2
      DEF fetch1, bus_set_read_operation, bus_set_address_lines, bus_enable, Bus
    <3> QED BY <3>1, <3>2 DEF PipelineInv
  <2>3. CASE fetch2
    <3>1. cpu'.PC = cpu.PC /\ cpu'.MAR = cpu.MAR
      BY <1>0, <2>3 DEF fetch2, CpuState
    <3>2. \/ pipeline_stage' = "DECODE"
          \/ UNCHANGED <<pipeline_stage, bus>>
      BY <2>3 DEF fetch2
    <3> QED BY <2>3, <3>1, <3>2 DEF PipelineInv, fetch2
  <2>4. CASE decode
    <3>1. Decode[cpu.IR] \in Instruction
      BY <1>0, CpuAssumption DEF CpuAssumption, CpuState
    <3>2. cpu'.decoded = Decode[cpu.IR]
      BY <1>0, <2>4 DEF decode, CpuState
    <3>3. /\ pipeline_stage' \in {"MEMORY1", "EXECUTE"}
          /\ pipeline_stage' = "MEMORY1" =>
               Decode[cpu.IR].opcode \in {"LOAD", "LOADR", "STORE", "STORER"}
      BY <2>4
      DEF decode, is_memory_instruction, is_load_effective_address_instruction
    <3> QED BY <3>1, <3>2, <3>3 DEF PipelineInv
  <2>5. CASE memory1
    <3> DEFINE d == cpu.decoded
               address == effective_address(d)
               stored == cpu.registers[d.destination_reg1]
    <3>1. /\ pipeline_stage = "MEMORY1" /\ pipeline_stage' = "MEMORY2"
          /\ d \in Instruction /\ d.opcode \in {"LOAD", "LOADR", "STORE", "STORER"}
      BY <2>5 DEF memory1, PipelineInv
    <3>2. cpu'.decoded = d /\ cpu'.registers = cpu.registers
      <4> HIDE DEF address, stored
      <4> QED BY <1>0, <2>5 DEF memory1, CpuState, address, stored
    <3>3. IF is_load_instruction(d.opcode)
          THEN bus'.bus_mode = "DATA_READ"
          ELSE bus'.bus_mode = "DATA_WRITE" /\ bus'.data_lines = stored
      <4> HIDE DEF address, stored
      <4> QED
        BY <1>0, <2>5
        DEF memory1, bus_set_read_operation, bus_set_write_operation,
            bus_set_address_lines, bus_set_data_lines, bus_enable, Bus,
            address, stored
    <3> QED BY <3>1, <3>2, <3>3 DEF PipelineInv
  <2>6. CASE memory2
    <3>1. cpu'.decoded = cpu.decoded /\ cpu'.registers = cpu.registers
      BY <1>0, <2>6 DEF memory2, CpuState
    <3>2. \/ pipeline_stage' \in {"EXECUTE", "INTERRUPT"}
          \/ UNCHANGED <<pipeline_stage, bus>>
      BY <2>6 DEF memory2
    <3> QED BY <2>6, <3>1, <3>2 DEF PipelineInv, memory2
  <2> QED
    BY <1>1, <2>1, <2>2, <2>3, <2>4, <2>5, <2>6 DEF clock_cpu, cpu_cycle
<1>2. CASE UNCHANGED <<cpu, pipeline_stage, bus>>
  BY <1>2 DEF PipelineInv
<1>3. CASE clock_bus
  <2>1. bus'.bus_mode = bus.bus_mode /\ bus'.data_lines = bus.data_lines
    BY <1>0, <1>3 DEF clock_bus, bus_cycle, Bus
  <2> QED BY <1>3, <2>1 DEF clock_bus, PipelineInv
<1>4. CASE clock_memory
  <2>1. /\ bus'.bus_mode = bus.bus_mode
        /\ bus.bus_mode = "DATA_WRITE" => bus'.data_lines = bus.data_lines
    BY <1>0, <1>4
    DEF clock_memory, memory_cycle, memory_ignores, memory_waits,
        memory_writes, memory_reads, bus_set_device_ready,
        bus_set_data_lines, Bus
  <2> QED BY <1>4, <2>1 DEF clock_memory, PipelineInv
<1>5. CASE clock_graphics
  <2>1. bus'.bus_mode = bus.bus_mode /\ bus'.data_lines = bus.data_lines
    BY <1>0, <1>5
    DEF clock_graphics, graphics_cycle, bus_set_device_ready, Bus
  <2> QED BY <1>5, <2>1 DEF clock_graphics, PipelineInv
<1> QED
  BY <1>1, <1>2, <1>3, <1>4, <1>5
  DEF Next, computer_single_step, clock_timer, stopped, vars
-----------------------------------------------------------------------------
(* What a raised ready signal says. *)
LEMMA StepAnswer ==
  ASSUME TypeOK, TransactionInv, PipelineInv, AnswerInv, [Next]_vars
  PROVE  AnswerInv'
<1>0. bus \in Bus /\ cycle_count \in Nat /\ MAX_CYCLES \in Nat
      /\ TransactionInv' /\ TypeOK'
  BY MemoryAssumption, StepTransaction, StepType
  DEF TypeOK, MemoryTypeOK, MemoryAssumption
<1>1. CASE clock_cpu
  BY <1>0, <1>1 DEF clock_cpu, clocks, TransactionInv, AnswerInv
<1>2. CASE clock_bus
  BY <1>0, <1>2 DEF clock_bus, clocks, TransactionInv, AnswerInv
<1>3. CASE clock_memory
  <2>1. /\ phase = "memory" /\ running /\ waiting' = waiting
        /\ UNCHANGED <<cpu, frame_buffer>>
    BY <1>3 DEF clock_memory, clocks, waiting
  <2>2. CASE memory_ignores \/ memory_waits
    <3>1. UNCHANGED bus
      BY <2>2 DEF memory_ignores, memory_waits
    <3> QED BY <2>1, <3>1 DEF TransactionInv, AnswerInv
  <2>3. CASE memory_writes \/ memory_reads
    <3>1. waiting /\ bus.address_lines = cpu.MAR
          /\ DeviceAt(cpu.MAR) = "MEMORY_SELECTED"
      BY <2>1, <2>3
      DEF memory_writes, memory_reads, memory_selected, TransactionInv
    <3>2. CASE memory_writes
      <4>1. bus'.data_lines = bus.data_lines /\ bus'.bus_mode = "DATA_WRITE"
        BY <1>0, <3>2 DEF memory_writes, bus_set_device_ready, Bus
      <4>2. cpu.MAR \in Location => system_memory'[cpu.MAR] = bus.data_lines
        BY <3>1, <3>2 DEF memory_writes, TypeOK, MemoryTypeOK
      <4>3. running' => cpu.MAR \in Location
        BY <3>1, <3>2 DEF memory_writes, running
      <4> QED
        BY <2>1, <3>1, <4>1, <4>2, <4>3 DEF AnswerInv
    <3>3. CASE memory_reads
      <4>1. bus'.bus_mode = "DATA_READ"
        BY <1>0, <3>3
        DEF memory_reads, bus_set_device_ready, bus_set_data_lines, Bus
      <4>2. /\ cpu.MAR \in Location => system_memory[cpu.MAR] = bus'.data_lines
            /\ UNCHANGED system_memory
        BY <1>0, <3>1, <3>3
        DEF memory_reads, bus_set_device_ready, bus_set_data_lines, Bus
      <4> QED
        BY <2>1, <3>1, <4>1, <4>2 DEF AnswerInv
    <3> QED BY <2>3, <3>2, <3>3
  <2> QED BY <1>3, <2>2, <2>3 DEF clock_memory, memory_cycle
<1>4. CASE clock_graphics
  <2>1. /\ phase = "graphics" /\ waiting' = waiting
        /\ UNCHANGED <<cpu, system_memory, process>>
    BY <1>4 DEF clock_graphics, clocks, waiting
  <2>2. CASE ~graphics_selected
    BY <1>4, <2>1, <2>2 DEF clock_graphics, graphics_cycle, AnswerInv, running
  <2>3. CASE graphics_selected
    <3>1. waiting /\ bus.address_lines = cpu.MAR
          /\ DeviceAt(cpu.MAR) = "GRAPHICS_SELECTED"
      BY <2>1, <2>3 DEF graphics_selected, TransactionInv
    <3>2. /\ bus'.data_lines = bus.data_lines
          /\ bus'.bus_mode = bus.bus_mode
      BY <1>0, <1>4, <2>3
      DEF clock_graphics, graphics_cycle, bus_set_device_ready, Bus
    <3>3. bus.bus_mode = "DATA_WRITE" =>
            frame_buffer'[cpu.MAR - GRAPHICS_REGION_START] = bus.data_lines
      <4>1. cpu.MAR - GRAPHICS_REGION_START \in Pixel
        <5>1. /\ cpu.MAR \in GRAPHICS_REGION_START .. GRAPHICS_REGION_END
              /\ GRAPHICS_REGION_START \in Int
          BY <3>1, MemoryMapAssumption
          DEF DeviceAt, MemoryMapAssumption, GRAPHICS_REGION_START,
              INTERRUPT_VECTOR_TABLE_END, INTERRUPT_VECTOR_TABLE_START,
              BOOT_ROM_END
        <5> QED
          BY <5>1, MemoryMapAssumption
          DEF GRAPHICS_REGION_END, Pixel, MemoryMapAssumption
      <4> QED
        BY <1>4, <2>3, <3>1, <4>1
        DEF clock_graphics, graphics_cycle, graphics_update, TypeOK
    <3> QED
      BY <2>1, <3>1, <3>2, <3>3 DEF AnswerInv
  <2> QED BY <2>2, <2>3
<1>5. CASE UNCHANGED <<cpu, pipeline_stage, bus, system_memory, frame_buffer,
                       process>>
  BY <1>5 DEF AnswerInv, waiting, running
<1> QED
  BY <1>1, <1>2, <1>3, <1>4, <1>5
  DEF Next, computer_single_step, clock_timer, stopped, vars
-----------------------------------------------------------------------------
(* What reaches the instruction and data registers. *)
LEMMA StepData ==
  ASSUME TypeOK, TransactionInv, PipelineInv, AnswerInv, FetchedFromMemory,
         LoadedFromMemory, [Next]_vars
  PROVE  FetchedFromMemory' /\ LoadedFromMemory'
<1>0. cpu \in CpuState
  BY DEF TypeOK, CpuTypeOK
<1>1. CASE clock_cpu
  <2>1. UNCHANGED system_memory
    BY <1>1 DEF clock_cpu
  <2>2. CASE interrupt \/ null_controller \/ fetch1 \/ memory1 \/ execute
    <3>1. pipeline_stage' \notin {"DECODE", "EXECUTE"}
      BY <2>2
      DEF interrupt, null_controller, enter_interrupt_mode, fetch1, memory1,
          execute
    <3> QED BY <3>1 DEF FetchedFromMemory, LoadedFromMemory
  <2>3. CASE fetch2
    <3>1. CASE bus.device_ready
      <4>1. /\ pipeline_stage = "FETCH2" /\ pipeline_stage' = "DECODE"
            /\ cpu'.IR = bus.data_lines /\ cpu'.PC = cpu.PC
            /\ cpu'.MAR = cpu.MAR
        BY <1>0, <2>3, <3>1 DEF fetch2, CpuState
      <4> QED
        BY <2>1, <3>1, <4>1
        DEF PipelineInv, AnswerInv, waiting, FetchedFromMemory, LoadedFromMemory
    <3>2. CASE ~bus.device_ready
      BY <2>3, <3>2 DEF fetch2, FetchedFromMemory, LoadedFromMemory
    <3> QED BY <3>1, <3>2
  <2>4. CASE decode
    <3>1. cpu'.decoded = Decode[cpu.IR]
      BY <1>0, <2>4 DEF decode, CpuState
    <3>2. /\ pipeline_stage' \in {"MEMORY1", "EXECUTE"}
          /\ pipeline_stage' = "EXECUTE" =>
               Decode[cpu.IR].opcode \notin {"LOAD", "LOADR"}
      BY <2>4
      DEF decode, is_memory_instruction, is_load_effective_address_instruction
    <3> QED BY <3>1, <3>2 DEF FetchedFromMemory, LoadedFromMemory
  <2>5. CASE memory2
    <3>1. CASE bus.device_ready
      <4>1. /\ pipeline_stage = "MEMORY2"
            /\ pipeline_stage' \in {"EXECUTE", "INTERRUPT"}
            /\ pipeline_stage' = "EXECUTE" => cpu'.MDR = bus.data_lines
            /\ cpu'.MAR = cpu.MAR
        BY <1>0, <2>5, <3>1 DEF memory2, CpuState
      <4> QED
        BY <2>1, <3>1, <4>1
        DEF AnswerInv, waiting, FetchedFromMemory, LoadedFromMemory
    <3>2. CASE ~bus.device_ready
      BY <2>5, <3>2 DEF memory2, FetchedFromMemory, LoadedFromMemory
    <3> QED BY <3>1, <3>2
  <2> QED
    BY <1>1, <2>2, <2>3, <2>4, <2>5 DEF clock_cpu, cpu_cycle
<1>2. CASE UNCHANGED <<cpu, pipeline_stage, system_memory>>
  BY <1>2 DEF FetchedFromMemory, LoadedFromMemory
<1>3. CASE clock_memory
  <2>1. CASE waiting
    BY <1>3, <2>1
    DEF clock_memory, waiting, FetchedFromMemory, LoadedFromMemory
  <2>2. CASE ~waiting
    <3>1. UNCHANGED system_memory
      BY <1>3, <2>2
      DEF clock_memory, memory_cycle, memory_ignores, memory_waits,
          memory_writes, memory_reads, memory_selected, TransactionInv
    <3> QED
      BY <1>3, <3>1 DEF clock_memory, FetchedFromMemory, LoadedFromMemory
  <2> QED BY <2>1, <2>2
<1> QED
  BY <1>1, <1>2, <1>3
  DEF Next, computer_single_step, clock_bus, clock_graphics, clock_timer,
      stopped, vars
-----------------------------------------------------------------------------
(* Interrupts. *)

(* No operation but RETURNI touches the CPU's connection or its interrupt
   status; RETURNI keeps the CPU or restores the backup. *)
LEMMA OperationStatus ==
  ASSUME cpu \in CpuState, cpu.decoded \in Instruction, operation
  PROVE  \/ /\ cpu'.connected = cpu.connected
            /\ cpu'.interrupt_in_process = cpu.interrupt_in_process
            /\ ~cpu_rfi
         \/ \E irq \in IRQ :
              /\ get_interrupt_source(irq)
              /\ cpu' = [IF irq \in {IRQ_0, IRQ_128} THEN cpu ELSE backup_cpu
                          EXCEPT !.interrupt_in_process = FALSE,
                                 !.instruction_finished = TRUE]
<1>1. CASE cpu_rfi
  BY <1>1 DEF cpu_rfi, exit_interrupt_mode,
              is_operating_system_scheduler_interrupt
<1>2. CASE ~cpu_rfi
  <2>1. /\ cpu'.connected = cpu.connected
        /\ cpu'.interrupt_in_process = cpu.interrupt_in_process
    BY <1>2
    DEF operation, CpuState, cpu_and, cpu_or, cpu_not, cpu_xor, cpu_add,
        cpu_sub, ALU_result, cpu_load_pc_relative, cpu_load_base_plus_offset,
        cpu_load_effective_address, load_result, cpu_jump_pc_relative,
        cpu_jump_base_plus_offset, cpu_branch, cpu_call, cpu_callr, transfer,
        cpu_swi, cpu_nop
  <2> QED BY <1>2, <2>1
<1> QED BY <1>1, <1>2

(* No step leaves an interrupt or a backup to a CPU that runs. *)
LEMMA StepService ==
  ASSUME TypeOK, PipelineInv, BackupInv, [Next]_vars
  PROVE  BackupInv'
<1> USE DEF disconnected
<1>0. cpu \in CpuState
  BY DEF TypeOK, CpuTypeOK
<1>1. CASE clock_cpu
  <2>1. CASE interrupt
    <3>1. CASE enter_interrupt_mode
      BY <3>1 DEF enter_interrupt_mode, BackupInv, running
    <3>2. CASE ~enter_interrupt_mode
      <4>1. /\ cpu.connected /\ cpu'.connected = cpu.connected
            /\ cpu'.interrupt_in_process = cpu.interrupt_in_process
            /\ UNCHANGED <<backup_cpu, process>>
        BY <1>0, <2>1, <3>2 DEF interrupt, machine, CpuState
      <4> QED BY <4>1 DEF BackupInv, running
    <3> QED BY <3>1, <3>2
  <2>2. CASE null_controller
    BY <2>2 DEF null_controller, BackupInv, running
  <2>3. CASE fetch1 \/ fetch2 \/ decode \/ memory1 \/ memory2
    <3>1. /\ pipeline_stage # "INTERRUPT"
          /\ cpu'.connected = cpu.connected
          /\ cpu'.interrupt_in_process = cpu.interrupt_in_process
          /\ UNCHANGED <<backup_cpu, process>>
      BY <1>0, <2>3
      DEF fetch1, fetch2, decode, memory1, memory2, machine, CpuState
    <3> QED BY <3>1 DEF BackupInv, running
  <2>4. CASE execute
    <3>1. /\ operation /\ pipeline_stage = "EXECUTE"
          /\ pipeline_stage' = "INTERRUPT" /\ cpu.decoded \in Instruction
          /\ UNCHANGED <<backup_cpu, process>>
      BY <2>4 DEF execute, PipelineInv
    <3>2. CASE ~running
      BY <3>1, <3>2 DEF BackupInv, running
    <3>3. CASE running
      <4>1. /\ backup_cpu = zeroed_cpu /\ ~cpu.interrupt_in_process
            /\ cpu.connected
        BY <3>1, <3>3 DEF BackupInv
      <4>2. ~cpu'.interrupt_in_process /\ (cpu'.connected \/ cpu'.PC = 0)
        <5>1. \/ /\ cpu'.connected = cpu.connected
                 /\ cpu'.interrupt_in_process = cpu.interrupt_in_process
              \/ \E resumed \in {cpu, zeroed_cpu} :
                   cpu' = [resumed EXCEPT !.interrupt_in_process = FALSE,
                                          !.instruction_finished = TRUE]
          BY <1>0, <3>1, <4>1, OperationStatus
        <5>2. zeroed_cpu.PC = 0 /\ zeroed_cpu \in CpuState
          BY SmallWords DEF zeroed_cpu, CpuState
        <5> QED BY <1>0, <4>1, <5>1, <5>2 DEF CpuState
      <4> QED BY <3>1, <4>1, <4>2 DEF BackupInv
    <3> QED BY <3>2, <3>3
  <2> QED
    BY <1>1, <2>1, <2>2, <2>3, <2>4 DEF clock_cpu, cpu_cycle
<1>2. CASE UNCHANGED <<cpu, pipeline_stage, backup_cpu>> /\ (running' => running)
  BY <1>2 DEF BackupInv
<1> QED
  BY <1>1, <1>2
  DEF Next, computer_single_step, clock_bus, clock_memory, clock_graphics,
      clock_timer, clocks, running, stopped, vars

(* The timer's IRQ is somewhere in queue q. *)
Queued(q) == \E i \in DOMAIN q : q[i] = IRQ_1

(* A request adds itself when there is room and removes nothing. *)
LEMMA RequestAdds ==
  ASSUME QueueOK(interrupt_requests), NEW irq \in IRQ, request_interrupt(irq)
  PROVE  /\ Queued(interrupt_requests) => Queued(interrupt_requests)'
         /\ Len(interrupt_requests) <= 1 /\ irq = IRQ_1 =>
              Queued(interrupt_requests)'
         /\ interrupt_requests = << >> => Len(interrupt_requests') <= 1
<1>1. CASE Len(interrupt_requests) < MAX_NUM_IRQS
  <2>1. interrupt_requests' = Append(interrupt_requests, irq)
    BY <1>1 DEF request_interrupt
  <2>2. /\ interrupt_requests' \in Seq(IRQ)
        /\ Len(interrupt_requests') = Len(interrupt_requests) + 1
        /\ \A i \in 1 .. Len(interrupt_requests) :
             interrupt_requests'[i] = interrupt_requests[i]
        /\ interrupt_requests'[Len(interrupt_requests) + 1] = irq
    BY <2>1, AppendProperties DEF QueueOK
  <2>3. /\ DOMAIN interrupt_requests = 1 .. Len(interrupt_requests)
        /\ DOMAIN interrupt_requests' = 1 .. Len(interrupt_requests')
        /\ Len(interrupt_requests) \in Nat
    BY <2>2, LenProperties DEF QueueOK
  <2>4. interrupt_requests = << >> => Len(interrupt_requests) = 0
    OBVIOUS
  <2> QED BY <2>2, <2>3, <2>4 DEF Queued
<1>2. CASE ~(Len(interrupt_requests) < MAX_NUM_IRQS)
  <2>1. UNCHANGED interrupt_requests
    BY <1>2 DEF request_interrupt
  <2>2. Len(interrupt_requests) > 1
    BY <1>2, IrqAssumption, LenProperties DEF QueueOK, IrqAssumption
  <2>3. interrupt_requests # << >>
    BY <2>2
  <2> QED BY <2>1, <2>2, <2>3, LenProperties DEF Queued, QueueOK
<1> QED BY <1>1, <1>2

(* Taking another request than the timer's leaves the timer's. *)
LEMMA SourceKeeps ==
  ASSUME QueueOK(interrupt_requests), NEW irq \in IRQ,
         get_interrupt_source(irq), irq # IRQ_1
  PROVE  /\ Queued(interrupt_requests) => Queued(interrupt_requests)'
         /\ interrupt_requests = << >> => interrupt_requests' = << >>
<1>1. CASE interrupt_requests = << >>
  BY <1>1 DEF get_interrupt_source, interrupt_requested, Queued
<1>2. CASE interrupt_requests # << >>
  <2>1. /\ irq = Head(interrupt_requests)
        /\ interrupt_requests' = Tail(interrupt_requests)
    BY <1>2 DEF get_interrupt_source, interrupt_requested
  <2>2. /\ interrupt_requests' \in Seq(IRQ)
        /\ Len(interrupt_requests') = Len(interrupt_requests) - 1
        /\ \A i \in 1 .. Len(interrupt_requests') :
             interrupt_requests'[i] = interrupt_requests[i + 1]
    BY <1>2, <2>1, HeadTailProperties DEF QueueOK
  <2>3. /\ DOMAIN interrupt_requests = 1 .. Len(interrupt_requests)
        /\ DOMAIN interrupt_requests' = 1 .. Len(interrupt_requests')
        /\ Len(interrupt_requests) \in Nat
        /\ Head(interrupt_requests) = interrupt_requests[1]
    BY <1>2, <2>2, LenProperties DEF QueueOK
  <2>4. ASSUME NEW i \in DOMAIN interrupt_requests, interrupt_requests[i] = IRQ_1
        PROVE  Queued(interrupt_requests)'
    <3>1. i # 1 /\ i \in 1 .. Len(interrupt_requests)
      BY <2>1, <2>3, <2>4
    <3>2. i - 1 \in 1 .. Len(interrupt_requests') /\ (i - 1) + 1 = i
      BY <2>2, <2>3, <3>1
    <3>3. interrupt_requests'[i - 1] = IRQ_1
      BY <2>2, <2>4, <3>2
    <3> QED BY <2>3, <3>2, <3>3 DEF Queued
  <2> QED BY <1>2, <2>4 DEF Queued
<1> QED BY <1>1, <1>2

(* Every step keeps what is known of the requests. *)
LEMMA StepRequest ==
  ASSUME TypeOK, PipelineInv, BackupInv, RequestInv, [Next]_vars
  PROVE  RequestInv'
<1> USE DEF timer_request_queued, disconnected
<1> DEFINE flagged == "TIMER_INTERRUPT_FLAG" \in timer.control_bits
           q == interrupt_requests
<1>0. cpu \in CpuState /\ timer \in TimerState /\ QueueOK(q)
  BY DEF TypeOK, CpuTypeOK, QueueOK
<1>1. CASE clock_cpu
  <2>0. running /\ UNCHANGED timer
    BY <1>1 DEF clock_cpu, clocks
  <2>1. CASE interrupt
    <3>1. CASE enter_interrupt_mode
      BY <2>0, <3>1 DEF enter_interrupt_mode, RequestInv, running
    <3>2. CASE ~enter_interrupt_mode
      <4>1. /\ q = << >> /\ UNCHANGED <<interrupt_requests, process>>
            /\ cpu.connected
        BY <2>0, <2>1, <3>2
        DEF interrupt, machine, interrupt_requested, BackupInv
      <4>2. Len(q) <= 1
        BY <4>1
      <4> QED BY <2>0, <4>1, <4>2 DEF RequestInv, running
    <3> QED BY <3>1, <3>2
  <2>2. CASE null_controller
    BY <2>0, <2>2 DEF null_controller, RequestInv, running
  <2>3. CASE fetch1 \/ fetch2 \/ decode \/ memory1 \/ memory2
    <3>1. /\ pipeline_stage # "INTERRUPT" /\ cpu'.connected = cpu.connected
          /\ UNCHANGED <<interrupt_requests, process>>
      BY <1>0, <2>3
      DEF fetch1, fetch2, decode, memory1, memory2, machine, CpuState
    <3> QED BY <2>0, <3>1 DEF RequestInv, running
  <2>4. CASE execute
    <3>1. /\ operation /\ pipeline_stage = "EXECUTE"
          /\ pipeline_stage' = "INTERRUPT" /\ cpu.decoded \in Instruction
          /\ UNCHANGED process
      BY <2>4 DEF execute, PipelineInv
    <3>2. cpu.connected /\ backup_cpu = zeroed_cpu
      BY <2>0, <3>1 DEF BackupInv
    <3>3. IF flagged THEN Queued(q) ELSE q = << >>
      BY <2>0, <3>1, <3>2 DEF RequestInv, Queued
    <3>4. cpu'.connected => IF flagged THEN Queued(q)' ELSE Len(q') <= 1
      <4>1. CASE cpu_rfi
        <5>1. PICK irq \in IRQ :
                /\ get_interrupt_source(irq)
                /\ irq \in {IRQ_0, IRQ_128} \/ ~cpu'.connected
          <6>1. zeroed_cpu \in CpuState /\ ~zeroed_cpu.connected
            BY SmallWords DEF zeroed_cpu, CpuState
          <6> QED
            BY <3>2, <4>1, <6>1
            DEF cpu_rfi, exit_interrupt_mode, CpuState,
                is_operating_system_scheduler_interrupt
        <5>2. CASE irq \in {IRQ_0, IRQ_128}
          <6>1. irq # IRQ_1
            BY <5>2, IrqAssumption DEF IRQ_0, IRQ_1, IRQ_128, IrqAssumption
          <6>2. q = << >> => Len(q') <= 1
            BY <1>0, <5>1, <6>1, SourceKeeps
          <6>3. Queued(q) => Queued(q)'
            BY <1>0, <5>1, <6>1, SourceKeeps
          <6> QED BY <3>3, <6>2, <6>3
        <5> QED BY <5>1, <5>2
      <4>2. CASE cpu_swi
        <5>1. IRQ_128 + (cpu.registers[cpu.decoded.destination_reg1] % IRQ_128)
                \in IRQ
          <6>1. cpu.registers[cpu.decoded.destination_reg1] \in Int
            BY <1>0, <3>1 DEF CpuState, Instruction, Word
          <6> QED
            BY <6>1, IrqAssumption DEF IrqAssumption, IRQ_128, IRQ
        <5> QED
          BY <1>0, <3>3, <4>2, <5>1, RequestAdds DEF cpu_swi
      <4>3. CASE ~cpu_rfi /\ ~cpu_swi
        <5>1. UNCHANGED interrupt_requests
          BY <3>1, <4>3
          DEF operation, cpu_and, cpu_or, cpu_not, cpu_xor, cpu_add, cpu_sub,
              ALU_result, cpu_load_pc_relative, cpu_load_base_plus_offset,
              cpu_load_effective_address, load_result, cpu_jump_pc_relative,
              cpu_jump_base_plus_offset, cpu_branch, cpu_call, cpu_callr,
              transfer, cpu_nop
        <5>2. q = << >> => Len(q) <= 1
          OBVIOUS
        <5> QED BY <3>3, <5>1, <5>2 DEF Queued
      <4> QED BY <4>1, <4>2, <4>3
    <3> QED BY <2>0, <3>1, <3>4 DEF RequestInv, Queued
  <2> QED
    BY <1>1, <2>1, <2>2, <2>3, <2>4 DEF clock_cpu, cpu_cycle
<1>2. CASE clock_timer
  <2>0. /\ running /\ UNCHANGED <<cpu, pipeline_stage, process>>
        /\ timer.IRQ_number = IRQ_1
    BY <1>2 DEF clock_timer, clocks, RequestInv
  <2>1. /\ tick(timer).IRQ_number = IRQ_1
        /\ tick(timer).control_bits = timer.control_bits
    BY <1>0, <2>0 DEF tick, prescale_tick, count_up, TimerState
  <2>2. CASE UNCHANGED interrupt_requests /\ timer' \in {timer, tick(timer)}
    BY <2>0, <2>1, <2>2 DEF RequestInv, running
  <2>3. CASE timer_overflows /\ "TIMER_ON" \in timer.control_bits
    <3> DEFINE overflowed == update_timer_overflow_status(tick(timer))
    <3>1. /\ timer' = overflowed /\ update_interrupt_status(overflowed)
      BY <1>2, <2>3 DEF clock_timer, timer_cycle
    <3>2. /\ overflowed.IRQ_number = IRQ_1
          /\ overflowed.control_bits
               = timer.control_bits \cup {"TIMER_INTERRUPT_FLAG"}
      BY <1>0, <2>0, <2>1
      DEF update_timer_overflow_status, tick, prescale_tick, count_up, TimerState
    <3>3. IRQ_1 \in IRQ /\ request_interrupt(IRQ_1)
      <4>1. {"TIMER_INTERRUPT_ENABLE", "TIMER_INTERRUPT_FLAG"}
              \subseteq overflowed.control_bits
        BY <3>2 DEF RequestInv
      <4>2. request_interrupt(IRQ_1)
        BY <3>1, <3>2, <4>1 DEF update_interrupt_status
      <4> QED BY <4>2, IrqAssumption DEF IRQ, IRQ_1, IrqAssumption
    <3>4. /\ Queued(q) => Queued(q)'
          /\ Len(q) <= 1 => Queued(q)'
      BY <1>0, <3>3, RequestAdds
    <3>5. running /\ cpu.connected => Queued(q) \/ Len(q) <= 1
      BY DEF RequestInv, Queued
    <3> HIDE DEF overflowed
    <3> QED
      BY <2>0, <3>1, <3>2, <3>4, <3>5 DEF RequestInv, Queued, running
  <2> QED
    BY <1>2, <2>2, <2>3 DEF clock_timer, timer_cycle
<1>3. CASE /\ UNCHANGED <<cpu, pipeline_stage, interrupt_requests, timer>>
           /\ running' => running
  BY <1>3 DEF RequestInv
<1> QED
  BY <1>1, <1>2, <1>3
  DEF Next, computer_single_step, clock_bus, clock_memory, clock_graphics,
      clocks, running, stopped, vars

(* A TRAP's request waits in the first stage only, where the CPU takes it. *)
LEMMA StepPending ==
  ASSUME TypeOK, BackupInv, RequestInv, PendingInv, [Next]_vars
  PROVE  PendingInv'
<1>0. QueueOK(interrupt_requests)
  BY DEF TypeOK, QueueOK
<1>1. CASE clock_cpu
  <2>1. CASE interrupt
    <3>1. CASE enter_interrupt_mode
      BY <3>1 DEF enter_interrupt_mode, PendingInv, running
    <3>2. CASE ~enter_interrupt_mode
      <4>1. interrupt_requests' = interrupt_requests
        BY <2>1, <3>2 DEF interrupt, machine
      <4>2. interrupt_requests = << >> \/ cpu.interrupt_in_process
        BY <2>1, <3>2 DEF interrupt, interrupt_requested
      <4>3. ~cpu.interrupt_in_process
        BY <1>1 DEF BackupInv, clock_cpu, clocks
      <4> QED BY <4>1, <4>2, <4>3 DEF PendingInv
    <3> QED BY <3>1, <3>2
  <2>2. CASE null_controller
    BY <2>2 DEF null_controller, PendingInv, running
  <2>3. CASE fetch1 \/ fetch2 \/ decode \/ memory1 \/ memory2
    <3>1. /\ pipeline_stage # "INTERRUPT"
          /\ UNCHANGED <<interrupt_requests, process>>
      BY <2>3 DEF fetch1, fetch2, decode, memory1, memory2, machine
    <3> QED BY <3>1 DEF PendingInv, running
  <2>4. CASE execute
    BY <2>4 DEF execute, PendingInv
  <2> QED
    BY <1>1, <2>1, <2>2, <2>3, <2>4 DEF clock_cpu, cpu_cycle
<1>2. CASE clock_timer
  <2>1. /\ UNCHANGED <<pipeline_stage, process>>
        /\ \/ UNCHANGED interrupt_requests
           \/ request_interrupt(update_timer_overflow_status(tick(timer)).IRQ_number)
    BY <1>2 DEF clock_timer, timer_cycle, update_interrupt_status
  <2>2. update_timer_overflow_status(tick(timer)).IRQ_number = IRQ_1
    BY DEF TypeOK, TimerState, RequestInv, update_timer_overflow_status, tick,
           prescale_tick, count_up
  <2>3. CASE UNCHANGED interrupt_requests
    BY <2>1, <2>3 DEF PendingInv, running
  <2>4. CASE interrupt_requests' = Append(interrupt_requests, IRQ_1)
    <3>1. IRQ_1 \in IRQ
      BY IrqAssumption DEF IRQ, IRQ_1, IrqAssumption
    <3>2. /\ DOMAIN interrupt_requests = 1 .. Len(interrupt_requests)
          /\ DOMAIN interrupt_requests' = 1 .. Len(interrupt_requests) + 1
          /\ Len(interrupt_requests) \in Nat
          /\ \A i \in 1 .. Len(interrupt_requests) :
               interrupt_requests'[i] = interrupt_requests[i]
          /\ interrupt_requests'[Len(interrupt_requests) + 1] = IRQ_1
      BY <1>0, <2>4, <3>1, AppendProperties, LenProperties DEF QueueOK
    <3> QED BY <2>1, <3>2 DEF PendingInv, running
  <2> QED BY <2>1, <2>2, <2>3, <2>4 DEF request_interrupt
<1>3. CASE /\ UNCHANGED <<pipeline_stage, interrupt_requests>>
           /\ running' => running
  BY <1>3 DEF PendingInv
<1> QED
  BY <1>1, <1>2, <1>3
  DEF Next, computer_single_step, clock_bus, clock_memory, clock_graphics,
      clocks, running, stopped, vars

(* The process ends when the CPU takes an interrupt, in the first stage of a
   CPU without a controller, or at an address past the array. *)
LEMMA StepEnd ==
  ASSUME TypeOK, TransactionInv, EndInv, [Next]_vars
  PROVE  EndInv'
<1> USE DEF EndInv
<1>0. cpu \in CpuState
  BY DEF TypeOK, CpuTypeOK
<1>1. CASE clock_cpu
  <2>1. CASE interrupt
    <3>1. CASE enter_interrupt_mode
      BY <1>0, <3>1 DEF enter_interrupt_mode, interrupt_taken, CpuState
    <3>2. CASE ~enter_interrupt_mode
      BY <1>1, <2>1, <3>2 DEF interrupt, machine, running, clock_cpu, clocks
    <3> QED BY <3>1, <3>2
  <2>2. CASE null_controller
    BY <2>2 DEF null_controller, disconnected
  <2>3. CASE UNCHANGED process
    BY <1>1, <2>3 DEF running, clock_cpu, clocks
  <2> QED
    BY <1>1, <2>1, <2>2, <2>3
    DEF clock_cpu, cpu_cycle, fetch1, fetch2, decode, memory1, memory2, execute,
        machine
<1>2. CASE clock_memory
  <2>1. /\ running /\ phase = "memory"
        /\ UNCHANGED <<cpu, pipeline_stage>>
    BY <1>2 DEF clock_memory, clocks
  <2>2. CASE UNCHANGED process
    BY <2>1, <2>2 DEF running
  <2>3. CASE memory_selected /\ bus.address_lines \notin Location
               /\ process' \in {"crashed", "undefined"}
    <3>1. waiting /\ cpu.MAR = bus.address_lines
      BY <2>1, <2>3 DEF TransactionInv, memory_selected
    <3>2. DeviceAt(cpu.MAR) = "MEMORY_SELECTED"
      BY <2>1, <2>3, <3>1 DEF TransactionInv, memory_selected
    <3> QED
      BY <2>1, <2>3, <3>1, <3>2 DEF ended_off_the_array, waiting
  <2> QED
    BY <1>2, <2>2, <2>3
    DEF clock_memory, memory_cycle, memory_ignores, memory_waits,
        memory_writes, memory_reads
<1>3. CASE UNCHANGED <<cpu, pipeline_stage, process>>
  BY <1>3
  DEF running, interrupt_taken, ended_off_the_array, disconnected, waiting
<1> QED
  BY <1>1, <1>2, <1>3
  DEF Next, computer_single_step, clock_bus, clock_graphics, clock_timer,
      stopped, vars
-----------------------------------------------------------------------------
(* The inductive invariant. *)

(* The strengthening holds at first. *)
LEMMA InitialInv == Init => IInv
<1> SUFFICES ASSUME Init PROVE IInv
  OBVIOUS
<1>1. /\ pipeline_stage = "INTERRUPT" /\ ~waiting
      /\ bus = make_memory_bus /\ cycle_count = 0
      /\ cpu = build_cpu /\ backup_cpu = zeroed_cpu
      /\ \E start : timer = make_timer(IRQ_1, start)
      /\ interrupt_requests = << >>
  BY DEF Init, CpuInit, waiting
<1>2. TransactionInv
  BY <1>1 DEF TransactionInv, make_memory_bus
<1>3. PipelineInv /\ AnswerInv /\ FetchedFromMemory /\ LoadedFromMemory
  BY <1>1 DEF PipelineInv, AnswerInv, FetchedFromMemory, LoadedFromMemory
<1>4. BackupInv /\ EndInv
  BY <1>1
  DEF BackupInv, disconnected, build_cpu, zeroed_cpu, EndInv, Init, running
<1>5. RequestInv /\ PendingInv
  <2>1. Len(interrupt_requests) <= 1
    BY <1>1
  <2> QED BY <1>1, <2>1 DEF RequestInv, PendingInv, make_timer
<1> QED BY <1>2, <1>3, <1>4, <1>5, InitialType DEF IInv

(* And every step keeps it. *)
LEMMA StepInv == IInv /\ [Next]_vars => IInv'
<1> SUFFICES ASSUME IInv, [Next]_vars PROVE IInv'
  OBVIOUS
<1> USE DEF IInv
<1>1. TypeOK' /\ TransactionInv' /\ PipelineInv' /\ AnswerInv'
  BY StepType, StepTransaction, StepPipeline, StepAnswer
<1>2. FetchedFromMemory' /\ LoadedFromMemory'
  BY StepData
<1>3. BackupInv' /\ EndInv' /\ RequestInv' /\ PendingInv'
  BY StepService, StepEnd, StepRequest, StepPending
<1> QED BY <1>1, <1>2, <1>3

(* The strengthening holds in every reachable state of every computer: the
   bus, the memory's counter and the CPU's stage agree phase by phase. *)
THEOREM InductiveInvariant == Spec => []IInv
<1>1. Init => IInv
  BY InitialInv
<1>2. IInv /\ [Next]_vars => IInv'
  BY StepInv
<1> QED BY <1>1, <1>2, PTL DEF Spec
-----------------------------------------------------------------------------
(* What the computer promises, for every value of the constants. *)

(* No register, bus line, memory word or queued IRQ ever leaves its width
   (cpu_private.h:22, memory_bus.c:23). *)
THEOREM TypeCorrect == Spec => []TypeOK
<1>1. IInv => TypeOK
  BY DEF IInv
<1> QED BY <1>1, InductiveInvariant, PTL

(* The bus is driven exactly in the CPU's waiting stages, and a ready signal
   the CPU sees belongs to its own transaction, although bus_clear_device_ready
   raises it (memory_bus.c:47, cpu.c:222, cpu.c:334). *)
THEOREM BusProtocol == Spec => [](BusFollowsPipeline /\ ReadyIsFresh)
<1>1. IInv => BusFollowsPipeline /\ ReadyIsFresh
  BY DEF IInv, TransactionInv, BusFollowsPipeline, ReadyIsFresh
<1> QED BY <1>1, InductiveInvariant, PTL

(* The memory's static cycle counter never carries over from one access to
   the next (memory.c:78). *)
THEOREM LatencyStaysInStep == Spec => []LatencyInStep
<1>1. IInv => LatencyInStep
  BY DEF IInv, TransactionInv, LatencyInStep
<1> QED BY <1>1, InductiveInvariant, PTL

(* What is decoded is the word at the address fetched from, and what a load
   writes to its register is the word at its address, for every program,
   including one that rewrites itself (cpu.c:212, cpu.c:334). *)
THEOREM MemoryIsRead == Spec => [](FetchedFromMemory /\ LoadedFromMemory)
<1>1. IInv => FetchedFromMemory /\ LoadedFromMemory
  BY DEF IInv
<1> QED BY <1>1, InductiveInvariant, PTL

(* Once the timer has overflowed, its IRQ is in the queue in every state in
   which the CPU still has its controller; the only step that takes it out of a
   running computer is a RETURNI, which loses the controller (timer.c:104,
   cpu_ops.c:81, :112). *)
THEOREM OverflowStaysQueued == Spec => []TimerRequestQueued
<1>1. IInv => TimerRequestQueued
  BY DEF IInv, RequestInv, TimerRequestQueued, disconnected
<1> QED BY <1>1, InductiveInvariant, PTL

(* A request leaves the queue at its head only, and only when the CPU takes an
   interrupt or a RETURNI swallows the request and loses the controller: no
   request disappears from a program that goes on (cpu_ops.c:81, :95, :112). *)
THEOREM RequestsAreKept == Spec => RequestsKept
<1> DEFINE Kept ==
      \/ \E irq_number \in IRQ :
           interrupt_requests' = Append(interrupt_requests, irq_number)
      \/ /\ interrupt_requests' = Tail(interrupt_requests)
         /\ \/ interrupt_taken'
            \/ /\ pipeline_stage = "EXECUTE" /\ opcode_is("RETURNI")
               /\ disconnected'
<1>1. IInv /\ [Next]_vars =>
        [interrupt_requests' # interrupt_requests => Kept]_vars
  <2> SUFFICES ASSUME IInv, [Next]_vars,
                      interrupt_requests' # interrupt_requests
               PROVE  Kept
    OBVIOUS
  <2>0. /\ cpu \in CpuState /\ timer \in TimerState
        /\ QueueOK(interrupt_requests)
    BY DEF IInv, TypeOK, CpuTypeOK, QueueOK
  <2>1. ASSUME NEW irq \in IRQ, request_interrupt(irq)
        PROVE  Kept
    BY <2>1 DEF request_interrupt
  <2>2. CASE clock_timer
    <3>1. PICK irq \in IRQ : request_interrupt(irq)
      <4>1. update_timer_overflow_status(tick(timer)).IRQ_number \in IRQ
        BY <2>0
        DEF TimerState, update_timer_overflow_status, tick, prescale_tick,
            count_up
      <4> QED
        BY <2>2, <4>1 DEF clock_timer, timer_cycle, update_interrupt_status
    <3> QED BY <2>1, <3>1
  <2>3. CASE clock_cpu /\ interrupt
    BY <2>0, <2>3
    DEF interrupt, machine, enter_interrupt_mode, get_interrupt_source,
        interrupt_taken, CpuState
  <2>4. CASE clock_cpu /\ execute
    <3>1. /\ operation /\ pipeline_stage = "EXECUTE" /\ running
          /\ cpu.decoded \in Instruction /\ cpu.connected
          /\ backup_cpu = zeroed_cpu
      BY <2>4
      DEF execute, clock_cpu, clocks, IInv, PipelineInv, BackupInv, disconnected
    <3>2. CASE cpu_rfi
      <4>1. PICK irq \in IRQ :
              /\ get_interrupt_source(irq)
              /\ cpu' = [IF irq \in {IRQ_0, IRQ_128} THEN cpu ELSE backup_cpu
                          EXCEPT !.interrupt_in_process = FALSE,
                                 !.instruction_finished = TRUE]
        BY <3>2
        DEF cpu_rfi, exit_interrupt_mode,
            is_operating_system_scheduler_interrupt
      <4>2. /\ interrupt_requests # << >> /\ irq = Head(interrupt_requests)
            /\ interrupt_requests' = Tail(interrupt_requests)
        BY <4>1 DEF get_interrupt_source, interrupt_requested
      <4>3. irq = IRQ_1
        <5>1. /\ 1 \in DOMAIN interrupt_requests
              /\ Head(interrupt_requests) = interrupt_requests[1]
          BY <2>0, <4>2, LenProperties, HeadTailProperties DEF QueueOK
        <5> QED BY <3>1, <4>2, <5>1 DEF IInv, PendingInv
      <4>4. IRQ_1 \notin {IRQ_0, IRQ_128}
        BY IrqAssumption DEF IRQ_0, IRQ_1, IRQ_128, IrqAssumption
      <4>5. ~cpu'.connected
        <5>1. zeroed_cpu \in CpuState /\ ~zeroed_cpu.connected
          BY SmallWords DEF zeroed_cpu, CpuState
        <5> QED BY <3>1, <4>1, <4>3, <4>4, <5>1 DEF CpuState
      <4> QED BY <3>1, <3>2, <4>2, <4>5 DEF cpu_rfi, disconnected
    <3>3. CASE cpu_swi
      <4>1. IRQ_128 + (cpu.registers[cpu.decoded.destination_reg1] % IRQ_128)
              \in IRQ
        <5>1. cpu.registers[cpu.decoded.destination_reg1] \in Int
          BY <2>0, <3>1 DEF CpuState, Instruction, Word
        <5> QED
          BY <5>1, IrqAssumption DEF IrqAssumption, IRQ_128, IRQ
      <4> QED BY <2>1, <3>3, <4>1 DEF cpu_swi
    <3>4. CASE ~cpu_rfi /\ ~cpu_swi
      BY <3>1, <3>4
      DEF operation, cpu_and, cpu_or, cpu_not, cpu_xor, cpu_add, cpu_sub,
          ALU_result, cpu_load_pc_relative, cpu_load_base_plus_offset,
          cpu_load_effective_address, load_result, cpu_jump_pc_relative,
          cpu_jump_base_plus_offset, cpu_branch, cpu_call, cpu_callr,
          transfer, cpu_nop
    <3> QED BY <3>2, <3>3, <3>4
  <2> QED
    BY <2>2, <2>3, <2>4
    DEF Next, computer_single_step, clock_cpu, cpu_cycle, null_controller,
        fetch1, fetch2, decode, memory1, memory2, machine, clock_bus,
        clock_memory, clock_graphics, stopped, vars
<1> QED BY <1>1, InductiveInvariant, PTL DEF Spec, RequestsKept

(* A store that leaves MEMORY2 has put its register's word at its address
   (cpu.c:326-352, memory.c:89, graphics.c:191). *)
THEOREM StoresLand == Spec => StoreLanded
<1> DEFINE Landed ==
      LET stored == cpu.registers[cpu.decoded.destination_reg1]
      IN  CASE DeviceAt(cpu.MAR) = "MEMORY_SELECTED" ->
                 cpu.MAR \in Location /\ system_memory[cpu.MAR] = stored
            [] DeviceAt(cpu.MAR) = "GRAPHICS_SELECTED" ->
                 frame_buffer[cpu.MAR - GRAPHICS_REGION_START] = stored
            [] OTHER -> FALSE
<1>1. IInv /\ [Next]_vars =>
        [store_in_progress /\ pipeline_stage' = "INTERRUPT" => Landed]_vars
  <2> SUFFICES ASSUME IInv, [Next]_vars, store_in_progress,
                      pipeline_stage' = "INTERRUPT"
               PROVE  Landed
    OBVIOUS
  <2>1. pipeline_stage = "MEMORY2" /\ waiting /\ clock_cpu
    BY DEF store_in_progress, waiting, Next, computer_single_step, clock_bus,
           clock_memory, clock_graphics, clock_timer, stopped, vars
  <2>2. running /\ bus.device_ready
    BY <2>1
    DEF clock_cpu, clocks, cpu_cycle, interrupt, null_controller, fetch1,
        fetch2, decode, memory1, memory2, execute
  <2>3. /\ bus.bus_mode = "DATA_WRITE"
        /\ bus.data_lines = cpu.registers[cpu.decoded.destination_reg1]
    BY <2>1 DEF IInv, PipelineInv, store_in_progress, is_load_instruction
  <2>4. DeviceAt(cpu.MAR) \in {"MEMORY_SELECTED", "GRAPHICS_SELECTED"}
    BY <2>1, <2>2 DEF IInv, AnswerInv, DeviceAt
  <2>5. Landed
    BY <2>1, <2>2, <2>3, <2>4 DEF IInv, AnswerInv
  <2> QED BY <2>5
<1> QED BY <1>1, InductiveInvariant, PTL DEF Spec, StoreLanded

(* Nothing but a store in its MEMORY2 stage changes the memory or the frame
   buffer, and only at the address and to the word of that store, for every
   program and memory map (memory.c:89, graphics.c:191). *)
THEOREM NothingElseWrites == Spec => OnlyStoresWrite
<1> DEFINE Stored ==
      LET stored == cpu.registers[cpu.decoded.destination_reg1]
      IN  IF DeviceAt(cpu.MAR) = "GRAPHICS_SELECTED"
          THEN /\ frame_buffer' = [frame_buffer EXCEPT
                    ![cpu.MAR - GRAPHICS_REGION_START] = stored]
               /\ UNCHANGED system_memory
          ELSE /\ system_memory' = [system_memory EXCEPT ![cpu.MAR] = stored]
               /\ UNCHANGED frame_buffer
<1>1. IInv /\ [Next]_vars =>
        [system_memory' # system_memory \/ frame_buffer' # frame_buffer
           => store_in_progress /\ Stored]_vars
  <2> SUFFICES ASSUME IInv, [Next]_vars,
                      system_memory' # system_memory
                        \/ frame_buffer' # frame_buffer
               PROVE  store_in_progress /\ Stored
    OBVIOUS
  <2>1. ASSUME bus.bus_active, bus.bus_mode = "DATA_WRITE"
        PROVE  /\ store_in_progress /\ bus.address_lines = cpu.MAR
               /\ bus.data_lines = cpu.registers[cpu.decoded.destination_reg1]
    BY <2>1
    DEF IInv, TransactionInv, PipelineInv, waiting, store_in_progress,
        is_load_instruction
  <2>2. bus.bus_active /\ phase # "bus" =>
          bus.selected_device = DeviceAt(bus.address_lines)
    BY DEF IInv, TransactionInv
  <2>3. CASE clock_memory
    <3>1. /\ memory_selected /\ bus.bus_mode = "DATA_WRITE"
          /\ system_memory' =
               [system_memory EXCEPT ![bus.address_lines] = bus.data_lines]
          /\ UNCHANGED frame_buffer /\ phase = "memory"
      BY <2>3
      DEF clock_memory, clocks, memory_cycle, memory_ignores, memory_waits,
          memory_writes, memory_reads
    <3>2. DeviceAt(cpu.MAR) = "MEMORY_SELECTED"
      BY <2>1, <2>2, <3>1 DEF memory_selected
    <3> QED BY <2>1, <3>1, <3>2 DEF memory_selected
  <2>4. CASE clock_graphics
    <3>1. /\ graphics_selected /\ bus.bus_mode = "DATA_WRITE"
          /\ graphics_update(bus.address_lines, bus.data_lines)
          /\ UNCHANGED system_memory /\ phase = "graphics"
      BY <2>4 DEF clock_graphics, clocks, graphics_cycle
    <3>2. DeviceAt(cpu.MAR) = "GRAPHICS_SELECTED"
      BY <2>1, <2>2, <3>1 DEF graphics_selected
    <3> QED BY <2>1, <3>1, <3>2 DEF graphics_selected, graphics_update
  <2> QED
    BY <2>3, <2>4
    DEF Next, computer_single_step, clock_cpu, clock_bus, clock_timer,
        stopped, vars
<1> QED BY <1>1, InductiveInvariant, PTL DEF Spec, OnlyStoresWrite
=============================================================================
