--------------------------- MODULE LatencyProofs ---------------------------
(***************************************************************************)
(* How soon an interrupt is taken and how many requests there can be, for  *)
(* every program, memory map, memory latency and timer period.             *)
(***************************************************************************)
EXTENDS Latency, ComputerProofs

(* A request adds at most one entry to the queue, a source takes one. *)
LEMMA RequestCounted ==
  ASSUME QueueOK(interrupt_requests), NEW irq \in IRQ, request_interrupt(irq)
  PROVE  Len(interrupt_requests') <= Len(interrupt_requests) + 1
BY AppendProperties, LenProperties DEF QueueOK, request_interrupt

(* A source never adds a request. *)
LEMMA SourceCounted ==
  ASSUME QueueOK(interrupt_requests), NEW irq \in IRQ,
         get_interrupt_source(irq)
  PROVE  Len(interrupt_requests') <= Len(interrupt_requests)
BY HeadTailProperties, LenProperties
DEF QueueOK, get_interrupt_source, interrupt_requested

(* The potential is bounded, whatever the stage. *)
LEMMA CyclesBounded ==
  ASSUME TypeOK
  PROVE  /\ stage_cycles \in Nat /\ cycles_left \in Nat
         /\ cycles_left <= MAX_LATENCY
<1>1. cycle_count \in 0 .. MAX_CYCLES /\ MAX_CYCLES \in Nat
      /\ pipeline_stage \in Stage
  BY MemoryAssumption
  DEF TypeOK, CpuTypeOK, MemoryTypeOK, MemoryAssumption
<1>2. stage_cycles \in 0 .. MAX_LATENCY
  BY <1>1 DEF stage_cycles, Stage, MAX_LATENCY
<1>3. unanswered => stage_cycles <= MAX_CYCLES + 5
  BY <1>1 DEF unanswered, waiting, stage_cycles
<1> QED BY <1>1, <1>2, <1>3 DEF cycles_left, MAX_LATENCY

(* It is a number in every state, and so after every step. *)
LEMMA CyclesTyped == TypeOK => cycles_left \in Nat
BY CyclesBounded

LEMMA CyclesNext ==
  ASSUME IInv, [Next]_vars
  PROVE  cycles_left' \in Nat
<1>1. (TypeOK => cycles_left \in Nat)'
  BY CyclesTyped, PTL
<1>2. TypeOK'
  BY StepInv DEF IInv
<1> QED BY <1>1, <1>2

(* A CPU that waits for the keyboard goes on waiting: nothing answers. *)
LEMMA StuckStays ==
  ASSUME IInv, on_keyboard, [Next]_vars
  PROVE  on_keyboard'
<1>1. waiting /\ ~bus.device_ready /\ bus.address_lines = cpu.MAR
  BY DEF on_keyboard, IInv, AnswerInv, TransactionInv
<1>2. CASE clock_cpu
  <2>1. cpu_cycle /\ cpu \in CpuState
    BY <1>2 DEF clock_cpu, IInv, TypeOK, CpuTypeOK
  <2>2. UNCHANGED pipeline_stage /\ cpu'.MAR = cpu.MAR
    BY <1>1, <2>1
    DEF cpu_cycle, interrupt, null_controller, fetch1, fetch2, decode,
        memory1, memory2, execute, waiting, CpuState
  <2> QED BY <2>2 DEF on_keyboard, waiting
<1>3. CASE UNCHANGED <<cpu, pipeline_stage>>
  BY <1>3 DEF on_keyboard, waiting
<1> QED
  BY <1>2, <1>3
  DEF Next, computer_single_step, clock_bus, clock_memory, clock_graphics,
      clock_timer, stopped, vars

(* The tick of a timer without a prescaler, and its overflow. *)
LEMMA PlainTick ==
  ASSUME TypeOK, timer.prescale_value = 0
  PROVE  /\ tick(timer).timer_value =
              IF timer.timer_value = TIMER_VALUES - 1 THEN 0
              ELSE timer.timer_value + 1
         /\ tick(timer).prescale_value = 0
         /\ tick(timer).control_bits = timer.control_bits
         /\ tick(timer).IRQ_number = timer.IRQ_number
         /\ timer_overflows => tick(timer).timer_value = 0
<1>1. timer \in TimerState /\ timer.timer_value \in 0 .. TIMER_VALUES - 1
  BY DEF TypeOK, TimerState, Count
<1>2. tick(timer) = count_up(timer)
  BY DEF tick, prescaling_enabled, MIN_PRESCALE_VALUE
<1>3. (timer.timer_value + 1) % TIMER_VALUES =
        IF timer.timer_value = TIMER_VALUES - 1 THEN 0
        ELSE timer.timer_value + 1
  BY <1>1, TimerAssumption DEF TimerAssumption
<1>4. tick(timer).timer_value = (timer.timer_value + 1) % TIMER_VALUES
  BY <1>1, <1>2 DEF count_up, TimerState
<1>5. timer_overflows => tick(timer).timer_value = 0
  BY <1>1, <1>3, <1>4 DEF timer_overflows
<1> QED BY <1>1, <1>2, <1>3, <1>4, <1>5 DEF count_up, TimerState

(* The second overflow is a whole period after the first. *)
LEMMA OneOverflow ==
  ASSUME TimedInv, running, phase = "timer", ~on_keyboard, overflowed
  PROVE  /\ ~timer_overflows
         /\ tick(timer).timer_value = timer.timer_value + 1
         /\ timer.timer_value + cycles_left <= MAX_LATENCY - 1
<1>1. timer.timer_value + cycles_left <= MAX_LATENCY - 1
  BY DEF TimedInv, LatencyInv, device_to_come
<1>2. /\ cycles_left \in Nat /\ timer.timer_value \in Nat
      /\ MAX_LATENCY \in Nat /\ MAX_LATENCY < TIMER_VALUES
  BY CyclesBounded, LatencyAssumption, MemoryAssumption
  DEF TimedInv, IInv, TypeOK, TimerState, Count, LatencyAssumption,
      MemoryAssumption, MAX_LATENCY
<1>3. tick(timer).timer_value = timer.timer_value + 1
  BY <1>1, <1>2, PlainTick, TimerAssumption
  DEF TimedInv, IInv, TimerAssumption
<1> QED BY <1>1, <1>2, <1>3 DEF timer_overflows

(* Nothing turns the prescaler on. *)
LEMMA StepPrescale ==
  ASSUME TimedInv, [Next]_vars
  PROVE  timer'.prescale_value = 0
<1>1. CASE clock_timer
  <2>1. timer \in TimerState /\ tick(timer).prescale_value = 0
    BY PlainTick DEF TimedInv, IInv, TypeOK
  <2>2. update_timer_overflow_status(tick(timer)).prescale_value = 0
    BY <2>1 DEF update_timer_overflow_status
  <2> QED
    BY <1>1, <2>1, <2>2 DEF clock_timer, timer_cycle, TimedInv
<1> QED
  BY <1>1
  DEF Next, computer_single_step, clock_cpu, clock_bus, clock_memory,
      clock_graphics, stopped, vars, TimedInv
-----------------------------------------------------------------------------
(* One iteration of the loop after the other. *)

(* A stage brings the next first stage nearer by its cycle, unless a device
   is to do so in the same iteration. *)
LEMMA CpuProgress ==
  ASSUME IInv, clock_cpu, pipeline_stage # "INTERRUPT"
  PROVE  \/ cycles_left' <= cycles_left - 1
         \/ cycles_left' = cycles_left /\ device_to_come'
<1>0. phase = "cpu" /\ phase' = "bus" /\ UNCHANGED cycle_count
  BY DEF clock_cpu, clocks
<1>2. /\ cycle_count \in 0 .. MAX_CYCLES /\ MAX_CYCLES \in Nat
      /\ bus \in Bus
      /\ bus.bus_active <=> waiting
      /\ ~waiting => cycle_count = 0 /\ ~bus.device_ready
  BY <1>0, MemoryAssumption
  DEF IInv, TypeOK, MemoryTypeOK, TransactionInv, MemoryAssumption
<1>4. CASE fetch1
  <2>1. /\ pipeline_stage = "FETCH1" /\ pipeline_stage' = "FETCH2"
        /\ ~bus'.device_ready
    BY <1>2, <1>4
    DEF fetch1, waiting, bus_enable, bus_set_address_lines,
        bus_set_read_operation, Bus
  <2>2. cycles_left = MAX_LATENCY
    BY <1>2, <2>1
    DEF cycles_left, stage_cycles, unanswered, waiting, MAX_LATENCY
  <2>3. cycles_left' = MAX_LATENCY /\ device_to_come'
    BY <1>0, <1>2, <2>1
    DEF cycles_left, stage_cycles, unanswered, waiting, device_to_come,
        MAX_LATENCY
  <2> QED BY <2>2, <2>3
<1>5. CASE fetch2 \/ memory2
  <2>1. CASE ~bus.device_ready
    <3>1. UNCHANGED <<pipeline_stage, bus>>
      BY <1>5, <2>1 DEF fetch2, memory2
    <3>2. cycles_left' = cycles_left /\ device_to_come'
      BY <1>0, <1>5, <2>1, <3>1
      DEF cycles_left, stage_cycles, unanswered, waiting, device_to_come,
          fetch2, memory2
    <3> QED BY <3>2
  <2>2. CASE bus.device_ready /\ fetch2
    <3>1. pipeline_stage = "FETCH2" /\ pipeline_stage' = "DECODE"
      BY <2>2 DEF fetch2
    <3>2. cycles_left = MAX_CYCLES + 5 /\ cycles_left' = MAX_CYCLES + 4
      BY <1>2, <2>2, <3>1 DEF cycles_left, stage_cycles, unanswered, waiting
    <3> QED BY <1>2, <3>2
  <2>3. CASE bus.device_ready /\ memory2
    <3>1. /\ pipeline_stage = "MEMORY2"
          /\ pipeline_stage' \in {"EXECUTE", "INTERRUPT"}
      BY <2>3 DEF memory2
    <3>2. cycles_left = 2 /\ cycles_left' \in {0, 1}
      BY <2>3, <3>1 DEF cycles_left, stage_cycles, unanswered, waiting
    <3> QED BY <3>2
  <2> QED BY <1>5, <2>1, <2>2, <2>3
<1>6. CASE decode
  <2>1. /\ pipeline_stage = "DECODE"
        /\ pipeline_stage' \in {"MEMORY1", "EXECUTE"}
    BY <1>6 DEF decode
  <2>2. /\ cycles_left = MAX_CYCLES + 4
        /\ cycles_left' \in {MAX_CYCLES + 3, 1}
    BY <1>2, <2>1 DEF cycles_left, stage_cycles, unanswered, waiting
  <2> QED BY <1>2, <2>2
<1>7. CASE memory1
  <2>1. /\ pipeline_stage = "MEMORY1" /\ pipeline_stage' = "MEMORY2"
        /\ ~bus'.device_ready
    BY <1>2, <1>7
    DEF memory1, waiting, bus_enable, bus_set_address_lines,
        bus_set_read_operation, bus_set_write_operation, bus_set_data_lines,
        Bus
  <2>2. cycles_left = MAX_CYCLES + 3
    BY <1>2, <2>1 DEF cycles_left, stage_cycles, unanswered, waiting
  <2>3. cycles_left' = MAX_CYCLES + 3 /\ device_to_come'
    BY <1>0, <1>2, <2>1
    DEF cycles_left, stage_cycles, unanswered, waiting, device_to_come
  <2> QED BY <2>2, <2>3
<1>8. CASE execute
  <2>1. pipeline_stage = "EXECUTE" /\ pipeline_stage' = "INTERRUPT"
    BY <1>8 DEF execute
  <2>2. cycles_left = 1 /\ cycles_left' = 0
    BY <2>1 DEF cycles_left, stage_cycles, unanswered, waiting
  <2> QED BY <2>2
<1> QED
  BY <1>4, <1>5, <1>6, <1>7, <1>8
  DEF clock_cpu, cpu_cycle, interrupt, null_controller

(* After an overflow the CPU does not pass its first stage. *)
LEMMA CpuStepLatency ==
  ASSUME TimedInv, clock_cpu
  PROVE  LatencyInv'
<1> SUFFICES ASSUME running', overflowed', ~on_keyboard'
             PROVE  timer'.timer_value + cycles_left'
                      <= IF device_to_come' THEN MAX_LATENCY
                         ELSE MAX_LATENCY - 1
  BY DEF LatencyInv, clock_cpu, clocks
<1>0. /\ running /\ overflowed /\ ~on_keyboard /\ phase = "cpu"
      /\ UNCHANGED timer
  BY StuckStays DEF clock_cpu, clocks, overflowed, Next, TimedInv
<1>1. timer.timer_value + cycles_left <= MAX_LATENCY
  BY <1>0 DEF TimedInv, LatencyInv
<1>2. /\ timer.timer_value \in Nat /\ MAX_LATENCY \in Nat
      /\ cycles_left \in Nat /\ cycles_left' \in Nat
  BY CyclesBounded, CyclesNext, MemoryAssumption
  DEF TimedInv, IInv, TypeOK, TimerState, Count, MemoryAssumption,
      MAX_LATENCY, Next
<1>3. CASE pipeline_stage = "INTERRUPT"
  <2>1. \/ interrupt_requests # << >> /\ ~cpu.interrupt_in_process
        \/ ~cpu.connected
    BY <1>0
    DEF TimedInv, IInv, RequestInv, timer_request_queued, BackupInv,
        disconnected, overflowed
  <2> QED
    BY <1>0, <1>3, <2>1
    DEF clock_cpu, cpu_cycle, interrupt, null_controller, fetch1, fetch2,
        decode, memory1, memory2, execute, enter_interrupt_mode,
        interrupt_requested, running
<1>4. CASE pipeline_stage # "INTERRUPT"
  BY <1>0, <1>1, <1>2, <1>4, CpuProgress DEF TimedInv
<1> QED BY <1>3, <1>4

(* A device that answers ends the wait, one that counts shortens it. *)
LEMMA DeviceProgress ==
  ASSUME IInv, ~on_keyboard, clock_bus \/ clock_memory \/ clock_graphics
  PROVE  \/ cycles_left' <= cycles_left - 1 /\ device_to_come
         \/ cycles_left' = cycles_left /\ (device_to_come' <=> device_to_come)
<1>0. UNCHANGED <<cpu, pipeline_stage>>
  BY DEF clock_bus, clock_memory, clock_graphics
<1>1. /\ cycle_count \in 0 .. MAX_CYCLES /\ MAX_CYCLES \in Nat
      /\ bus \in Bus
      /\ stage_cycles \in Nat /\ stage_cycles' = stage_cycles
      /\ waiting' <=> waiting
      /\ TransactionInv
  <2>1. stage_cycles \in Nat /\ TransactionInv
    BY CyclesBounded DEF IInv
  <2>2. stage_cycles' = stage_cycles /\ (waiting' <=> waiting)
    BY <1>0 DEF stage_cycles, waiting
  <2> QED
    BY <2>1, <2>2, MemoryAssumption
    DEF IInv, TypeOK, MemoryTypeOK, MemoryAssumption
<1>4. CASE clock_bus
  <2>1. unanswered' <=> unanswered
    BY <1>1, <1>4
    DEF clock_bus, bus_cycle, unanswered, TransactionInv, Bus
  <2>2. cycles_left' = cycles_left /\ (device_to_come' <=> device_to_come)
    BY <1>1, <1>4, <2>1 DEF clock_bus, clocks, cycles_left, device_to_come
  <2> QED BY <2>2
<1>5. CASE clock_memory
  <2>0. phase = "memory" /\ phase' = "graphics"
    BY <1>5 DEF clock_memory, clocks
  <2>1. CASE ~waiting
    <3>1. ~unanswered /\ ~unanswered'
      BY <1>1, <2>1 DEF unanswered
    <3>2. cycles_left' = cycles_left /\ ~device_to_come /\ ~device_to_come'
      BY <1>1, <3>1 DEF cycles_left, device_to_come
    <3> QED BY <3>2
  <2>2. CASE waiting
    <3>1. /\ unanswered /\ device_to_come
          /\ bus.bus_active /\ bus.selected_device = DeviceAt(cpu.MAR)
      BY <1>1, <2>0, <2>2 DEF unanswered, TransactionInv, device_to_come
    <3>2. CASE memory_ignores
      <4>1. DeviceAt(cpu.MAR) = "GRAPHICS_SELECTED"
        BY <2>2, <3>1, <3>2
        DEF memory_ignores, memory_selected, on_keyboard, DeviceAt
      <4>2. UNCHANGED <<bus, cycle_count>>
        BY <3>2 DEF memory_ignores
      <4>3. cycles_left' = cycles_left /\ device_to_come'
        BY <1>0, <1>1, <2>0, <3>1, <4>1, <4>2
        DEF cycles_left, unanswered, device_to_come
      <4> QED BY <3>1, <4>3
    <3>3. CASE memory_waits
      <4>1. cycle_count' = cycle_count + 1 /\ UNCHANGED bus
        BY <3>3 DEF memory_waits
      <4>2. cycles_left' = cycles_left - 1
        BY <1>1, <3>1, <4>1 DEF cycles_left, unanswered
      <4>3. cycles_left' <= cycles_left - 1
        BY <1>1, <4>1, <4>2 DEF cycles_left
      <4> QED BY <3>1, <4>3
    <3>4. CASE memory_writes \/ memory_reads
      <4>1. cycle_count = MAX_CYCLES /\ bus'.device_ready
        BY <1>1, <3>4
        DEF memory_writes, memory_reads, bus_set_device_ready,
            bus_set_data_lines, Bus
      <4>2. cycles_left' <= cycles_left - 1
        BY <1>1, <3>1, <4>1 DEF cycles_left, unanswered
      <4> QED BY <3>1, <4>2
    <3> QED BY <1>5, <3>2, <3>3, <3>4 DEF clock_memory, memory_cycle
  <2> QED BY <2>1, <2>2
<1>6. CASE clock_graphics
  <2>0. /\ phase = "graphics" /\ phase' = "timer" /\ ~device_to_come'
        /\ UNCHANGED cycle_count
    BY <1>6 DEF clock_graphics, clocks, device_to_come
  <2>1. CASE ~device_to_come
    <3>1. \/ UNCHANGED bus
          \/ waiting /\ bus.device_ready /\ bus' = bus_set_device_ready(bus)
      BY <1>1, <1>6, <2>0, <2>1
      DEF clock_graphics, graphics_cycle, graphics_selected, device_to_come,
          unanswered, TransactionInv
    <3>2. unanswered' <=> unanswered
      BY <1>1, <3>1 DEF unanswered, bus_set_device_ready, Bus
    <3>3. cycles_left' = cycles_left
      BY <1>1, <2>0, <3>2 DEF cycles_left
    <3> QED BY <2>0, <2>1, <3>3
  <2>2. CASE device_to_come
    <3>1. unanswered /\ DeviceAt(cpu.MAR) = "GRAPHICS_SELECTED"
      BY <2>0, <2>2 DEF device_to_come
    <3>2. graphics_selected
      BY <1>1, <2>0, <3>1 DEF graphics_selected, TransactionInv, unanswered
    <3>3. bus'.device_ready
      BY <1>1, <1>6, <3>2
      DEF clock_graphics, graphics_cycle, bus_set_device_ready, Bus
    <3>4. cycles_left' <= cycles_left - 1
      BY <1>1, <3>1, <3>3 DEF cycles_left, unanswered
    <3> QED BY <2>2, <3>4
  <2> QED BY <2>1, <2>2
<1> QED BY <1>4, <1>5, <1>6

(* What a device takes off the wait is what its cycle of the loop costs. *)
LEMMA DeviceStepLatency ==
  ASSUME TimedInv, clock_bus \/ clock_memory \/ clock_graphics
  PROVE  LatencyInv'
<1> SUFFICES ASSUME running', overflowed', ~on_keyboard'
             PROVE  timer'.timer_value + cycles_left'
                      <= IF device_to_come' THEN MAX_LATENCY
                         ELSE MAX_LATENCY - 1
  BY DEF LatencyInv, clock_bus, clock_memory, clock_graphics, clocks
<1>0. /\ running /\ overflowed /\ ~on_keyboard /\ UNCHANGED timer
      /\ phase \in {"bus", "memory", "graphics"}
  BY DEF clock_bus, clock_memory, clock_graphics, clocks, overflowed,
         on_keyboard, waiting
<1>1. timer.timer_value + cycles_left
        <= IF device_to_come THEN MAX_LATENCY ELSE MAX_LATENCY - 1
  BY <1>0 DEF TimedInv, LatencyInv
<1>2. /\ timer.timer_value \in Nat /\ MAX_LATENCY \in Nat
      /\ cycles_left \in Nat /\ cycles_left' \in Nat
  BY CyclesBounded, CyclesNext, MemoryAssumption
  DEF TimedInv, IInv, TypeOK, TimerState, Count, MemoryAssumption,
      MAX_LATENCY, Next
<1> QED BY <1>0, <1>1, <1>2, DeviceProgress DEF TimedInv

(* The tick is paid for by the iteration's progress. *)
LEMMA TimerStepLatency ==
  ASSUME TimedInv, clock_timer
  PROVE  LatencyInv'
<1> SUFFICES ASSUME running', overflowed', ~on_keyboard'
             PROVE  timer'.timer_value + cycles_left' <= MAX_LATENCY
  BY DEF LatencyInv, clock_timer, clocks
<1>0. /\ running /\ ~on_keyboard /\ phase = "timer"
      /\ cycles_left' = cycles_left
  BY DEF clock_timer, clocks, on_keyboard, waiting, cycles_left,
         stage_cycles, unanswered
<1>1. /\ timer \in TimerState /\ timer.timer_value \in Nat
      /\ cycles_left \in Nat /\ cycles_left <= MAX_LATENCY
      /\ MAX_LATENCY \in Nat
  BY CyclesBounded, MemoryAssumption
  DEF TimedInv, IInv, TypeOK, TimerState, Count, MAX_LATENCY, MemoryAssumption
<1>2. CASE overflowed
  <2>1. /\ ~timer_overflows
        /\ tick(timer).timer_value = timer.timer_value + 1
        /\ timer.timer_value + cycles_left <= MAX_LATENCY - 1
    BY <1>0, <1>2, OneOverflow
  <2>2. timer'.timer_value \in {timer.timer_value, timer.timer_value + 1}
    BY <2>1 DEF clock_timer, timer_cycle
  <2> QED BY <1>0, <1>1, <2>1, <2>2
<1>3. CASE ~overflowed
  <2>1. timer_overflows
        /\ timer' = update_timer_overflow_status(tick(timer))
    BY <1>3, PlainTick DEF clock_timer, timer_cycle, overflowed, TimedInv, IInv
  <2>2. tick(timer).timer_value = 0
    BY <2>1, PlainTick DEF TimedInv, IInv
  <2>3. timer'.timer_value = 0
    BY <2>1, <2>2 DEF update_timer_overflow_status
  <2> QED BY <1>0, <1>1, <2>3
<1> QED BY <1>2, <1>3

(* Every step keeps the bound. *)
LEMMA StepLatency ==
  ASSUME TimedInv, [Next]_vars
  PROVE  LatencyInv'
<1>1. CASE computer_single_step
  BY <1>1
  DEF computer_single_step, clocks, TimedInv, LatencyInv, overflowed,
      on_keyboard, waiting, cycles_left, stage_cycles, unanswered,
      device_to_come, running
<1>2. CASE UNCHANGED vars
  BY <1>2
  DEF vars, TimedInv, LatencyInv, overflowed, on_keyboard, waiting,
      cycles_left, stage_cycles, unanswered, device_to_come, running
<1> QED
  BY <1>1, <1>2, CpuStepLatency, DeviceStepLatency, TimerStepLatency
  DEF Next, stopped

(* A timer that did not overflow did not go back. *)
LEMMA StepStart ==
  ASSUME TimedInv, [Next]_vars
  PROVE  StartInv'
<1>0. StartInv /\ IInv /\ timer \in TimerState
  BY DEF TimedInv, IInv, TypeOK
<1>1. CASE clock_timer
  <2>1. CASE UNCHANGED timer
    BY <1>0, <2>1 DEF StartInv, overflowed
  <2>2. CASE ~timer_overflows /\ timer' = tick(timer)
    <3>1. overflowed' <=> overflowed
      BY <2>2, PlainTick DEF overflowed, TimedInv, IInv
    <3>2. timer.timer_value <= timer'.timer_value
      BY <1>0, <2>2, PlainTick, TimerAssumption
      DEF TimedInv, IInv, TimerState, Count, TimerAssumption, timer_overflows
    <3>3. timer'.timer_value \in Int /\ timer.timer_value \in Int
      BY <1>0, <2>2, PlainTick, TimerAssumption
      DEF TimedInv, IInv, TimerState, Count, TimerAssumption
    <3>4. \A start \in TIMER_STARTS : start \in Int
      BY TimerAssumption DEF TimerAssumption
    <3> QED BY <1>0, <3>1, <3>2, <3>3, <3>4 DEF StartInv
  <2>3. CASE timer' = update_timer_overflow_status(tick(timer))
    <3>1. tick(timer) \in [control_bits : SUBSET ControlBit, IRQ_number : IRQ,
                           prescale_value : Count, prescale_counter : Count,
                           timer_value : Int]
      BY <1>0, TimerAssumption
      DEF tick, prescale_tick, count_up, TimerState, Count, TimerAssumption,
          prescaling_enabled, MIN_PRESCALE_VALUE, TimedInv
    <3>2. overflowed'
      BY <2>3, <3>1 DEF overflowed, update_timer_overflow_status
    <3> QED BY <3>2 DEF StartInv
  <2> QED BY <1>1, <2>1, <2>2, <2>3 DEF clock_timer, timer_cycle
<1>2. CASE UNCHANGED timer
  BY <1>0, <1>2 DEF StartInv, overflowed
<1> QED
  BY <1>1, <1>2
  DEF Next, computer_single_step, clock_cpu, clock_bus, clock_memory,
      clock_graphics, stopped, vars
-----------------------------------------------------------------------------
(* The requests in the queue. *)

(* Every step keeps the number of requests. *)
LEMMA StepCount ==
  ASSUME TimedInv, [Next]_vars
  PROVE  RequestCount'
<1> SUFFICES ASSUME ~on_keyboard' PROVE RequestCount'
  BY DEF RequestCount
<1> DEFINE q == interrupt_requests
<1>0. /\ ~on_keyboard /\ QueueOK(q) /\ IInv /\ Len(q) \in Nat
      /\ q = << >> => Len(q) = 0
  BY StuckStays, LenProperties DEF TimedInv, IInv, TypeOK, QueueOK
<1>1. /\ Len(q) <= 2
      /\ running /\ pipeline_stage # "INTERRUPT" => Len(q) <= 1
      /\ running /\ ~overflowed =>
           Len(q) <= 1 /\ (pipeline_stage # "INTERRUPT" => q = << >>)
  BY <1>0 DEF TimedInv, RequestCount
<1>2. CASE clock_cpu
  <2>0. running /\ (overflowed' <=> overflowed)
    BY <1>2 DEF clock_cpu, clocks, overflowed
  <2>1. CASE interrupt
    <3>1. CASE enter_interrupt_mode
      <4>1. Len(q') <= Len(q) /\ ~running'
        BY <1>0, <3>1, SourceCounted DEF enter_interrupt_mode, running
      <4>2. Len(q') \in Nat
        BY <1>0, <3>1, SourceType, LenProperties
        DEF enter_interrupt_mode, QueueOK
      <4> QED BY <1>0, <1>1, <4>1, <4>2 DEF RequestCount
    <3>2. CASE ~enter_interrupt_mode
      <4>1. q = << >> /\ UNCHANGED interrupt_requests
        BY <1>0, <2>0, <2>1, <3>2
        DEF interrupt, machine, interrupt_requested, IInv,
            BackupInv, disconnected
      <4> QED BY <1>0, <4>1 DEF RequestCount
    <3> QED BY <3>1, <3>2
  <2>2. CASE null_controller
    <3>1. UNCHANGED interrupt_requests /\ ~running'
      BY <2>2 DEF null_controller, running
    <3> QED BY <1>1, <3>1 DEF RequestCount
  <2>3. CASE fetch1 \/ fetch2 \/ decode \/ memory1 \/ memory2
    <3>1. pipeline_stage # "INTERRUPT" /\ UNCHANGED interrupt_requests
      BY <2>3 DEF fetch1, fetch2, decode, memory1, memory2, machine
    <3> QED BY <1>0, <1>1, <2>0, <3>1 DEF RequestCount
  <2>4. CASE execute
    <3>1. /\ operation /\ pipeline_stage = "EXECUTE"
          /\ pipeline_stage' = "INTERRUPT"
          /\ cpu.decoded \in Instruction /\ cpu \in CpuState
      BY <1>0, <2>4 DEF execute, IInv, PipelineInv, TypeOK, CpuTypeOK
    <3>2. Len(q') <= Len(q) + 1 /\ Len(q') \in Nat
      <4>1. CASE cpu_rfi
        BY <1>0, <4>1, SourceCounted, SourceType, LenProperties
        DEF cpu_rfi, exit_interrupt_mode, QueueOK
      <4>2. CASE cpu_swi
        <5>1. IRQ_128 + (cpu.registers[cpu.decoded.destination_reg1] % IRQ_128)
                \in IRQ
          <6>1. cpu.registers[cpu.decoded.destination_reg1] \in Int
            BY <3>1 DEF CpuState, Instruction, Word
          <6> QED BY <6>1, IrqAssumption DEF IrqAssumption, IRQ_128, IRQ
        <5> QED
          BY <1>0, <4>2, <5>1, RequestCounted, RequestType, LenProperties
          DEF cpu_swi, QueueOK
      <4>3. CASE ~cpu_rfi /\ ~cpu_swi
        <5>1. UNCHANGED interrupt_requests
          BY <3>1, <4>3
          DEF operation, cpu_and, cpu_or, cpu_not, cpu_xor, cpu_add, cpu_sub,
              ALU_result, cpu_load_pc_relative, cpu_load_base_plus_offset,
              cpu_load_effective_address, load_result, cpu_jump_pc_relative,
              cpu_jump_base_plus_offset, cpu_branch, cpu_call, cpu_callr,
              transfer, cpu_nop
        <5> QED BY <1>0, <5>1
      <4> QED BY <4>1, <4>2, <4>3
    <3> QED BY <1>0, <1>1, <2>0, <3>1, <3>2 DEF RequestCount
  <2> QED BY <1>2, <2>1, <2>2, <2>3, <2>4 DEF clock_cpu, cpu_cycle
<1>3. CASE clock_timer
  <2>0. running /\ UNCHANGED <<pipeline_stage, process>> /\ phase = "timer"
    BY <1>3 DEF clock_timer, clocks
  <2>1. CASE UNCHANGED interrupt_requests /\ timer' \in {timer, tick(timer)}
    <3>1. overflowed' <=> overflowed
      BY <2>1, PlainTick DEF overflowed, TimedInv, IInv
    <3> QED BY <1>0, <1>1, <2>0, <2>1, <3>1 DEF RequestCount, running
  <2>2. CASE timer_overflows
    <3>1. ~overflowed
      BY <1>0, <2>0, <2>2, OneOverflow
    <3>2. \/ UNCHANGED <<interrupt_requests, timer>>
          \/ /\ timer' = update_timer_overflow_status(tick(timer))
             /\ update_interrupt_status(timer')
      BY <1>3, <2>2 DEF clock_timer, timer_cycle
    <3>3. CASE UNCHANGED <<interrupt_requests, timer>>
      BY <1>0, <1>1, <2>0, <3>3 DEF RequestCount, running, overflowed
    <3>4. CASE /\ timer' = update_timer_overflow_status(tick(timer))
               /\ update_interrupt_status(timer')
      <4>1. overflowed' /\ timer'.IRQ_number \in IRQ
        <5>1. timer \in TimerState /\ tick(timer) \in TimerState
          <6>1. /\ timer \in TimerState /\ tick(timer) = count_up(timer)
                /\ tick(timer).timer_value \in Count
            BY PlainTick, TimerAssumption
            DEF TimedInv, IInv, TypeOK, tick, prescaling_enabled,
                MIN_PRESCALE_VALUE, TimerState, Count, TimerAssumption
          <6> QED BY <6>1 DEF count_up, TimerState
        <5> QED
          BY <3>4, <5>1
          DEF overflowed, update_timer_overflow_status, TimerState
      <4>2. Len(q') <= Len(q) + 1 /\ Len(q') \in Nat
        BY <1>0, <3>4, <4>1, RequestCounted, RequestType, LenProperties
        DEF update_interrupt_status, QueueOK
      <4> QED BY <1>0, <1>1, <2>0, <3>1, <4>1, <4>2 DEF RequestCount, running
    <3> QED BY <3>2, <3>3, <3>4
  <2> QED BY <1>3, <2>1, <2>2 DEF clock_timer, timer_cycle
<1>4. CASE /\ UNCHANGED <<pipeline_stage, interrupt_requests, timer>>
           /\ running' => running
  BY <1>0, <1>1, <1>4 DEF RequestCount, overflowed
<1> QED
  BY <1>2, <1>3, <1>4
  DEF Next, computer_single_step, clock_bus, clock_memory, clock_graphics,
      clocks, running, stopped, vars
-----------------------------------------------------------------------------
(* What follows, for every value of the constants. *)

(* The time an interrupt waits and the number of requests are bounded
   together: each bound needs the other (timer.c:96, cpu.c:202). *)
THEOREM TimedInvariant == Spec => []TimedInv
<1>1. Init => TimedInv
  <2> SUFFICES ASSUME Init PROVE TimedInv
    OBVIOUS
  <2>1. /\ timer.prescale_value = 0 /\ ~overflowed
        /\ interrupt_requests = << >>
    BY DEF Init, make_timer, overflowed
  <2>2. Len(interrupt_requests) = 0
    BY <2>1
  <2>3. StartInv
    <3>1. PICK start \in TIMER_STARTS : timer.timer_value = start
      BY DEF Init, make_timer
    <3>2. start \in Int
      BY TimerAssumption DEF TimerAssumption
    <3> QED BY <3>1, <3>2 DEF StartInv
  <2> QED
    BY <2>1, <2>2, <2>3, InitialInv DEF TimedInv, LatencyInv, RequestCount
<1>2. TimedInv /\ [Next]_vars => TimedInv'
  BY StepInv, StepLatency, StepCount, StepStart, StepPrescale DEF TimedInv
<1> QED BY <1>1, <1>2, PTL DEF Spec

(* MAX_LATENCY ticks after an overflow at most, the CPU has taken the
   interrupt; if not, it waits for the keyboard, a RETURNI has disconnected it,
   or an access past the array has ended the process.  That the flag is not set
   means that no overflow was missed (cpu.c:202, timer.c:96). *)
THEOREM InterruptInTime == Spec => []TakenInTime
<1>1. TimedInv => TakenInTime
  <2> SUFFICES ASSUME TimedInv, ~on_keyboard PROVE TakenInTime
    BY DEF TakenInTime
  <2>1. /\ cycles_left \in Nat /\ MAX_LATENCY \in Nat
        /\ timer.timer_value \in Nat
    BY CyclesBounded, MemoryAssumption
    DEF TimedInv, IInv, TypeOK, TimerState, Count, MAX_LATENCY,
        MemoryAssumption
  <2>2. CASE ~running
    BY <2>2 DEF TimedInv, IInv, EndInv, TakenInTime
  <2>3. CASE running /\ overflowed
    BY <2>1, <2>3 DEF TimedInv, LatencyInv, TakenInTime
  <2>4. CASE running /\ ~overflowed
    BY <2>4 DEF TimedInv, StartInv, TakenInTime
  <2> QED BY <2>2, <2>3, <2>4
<1> QED BY <1>1, TimedInvariant, PTL

(* The queue never holds more than a software interrupt and an overflow, so
   that none of its 256 places is ever wanting (interrupt_controller.c:54). *)
THEOREM QueueNeverFull == Spec => []RequestsFit
<1>1. TimedInv => RequestsFit
  BY DEF TimedInv, RequestCount, RequestsFit
<1> QED BY <1>1, TimedInvariant, PTL
=============================================================================
