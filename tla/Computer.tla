------------------------------ MODULE Computer ------------------------------
(***************************************************************************)
(* src/computer.c: the parts of the computer and the loop that clocks      *)
(* them.  computer_single_step gives the CPU, the bus, the memory, the     *)
(* display and the timer one cycle each, in this order and in one thread,  *)
(* until the CPU reports a finished instruction; computer_run calls it     *)
(* again.  The keyboard is on the bus but gets no cycle.                   *)
(***************************************************************************)
EXTENDS Cpu, Memory, Graphics, Timer

CONSTANT PROGRAMS  \* the memory contents computer_load_program may leave

ASSUME ProgramAssumption == PROGRAMS \subseteq [Location -> Word]

VARIABLE phase  \* the part to be clocked next, or "returned": between calls

Phase == {"cpu", "bus", "memory", "graphics", "timer", "returned"}

vars == <<cpu, pipeline_stage, backup_cpu, bus, system_memory, cycle_count,
          frame_buffer, interrupt_requests, timer, process, phase>>

\* build_computer and computer_load_program
Init ==
  /\ CpuInit
  /\ bus = make_memory_bus
  /\ system_memory \in PROGRAMS /\ cycle_count = 0
  /\ frame_buffer = [p \in Pixel |-> 0]
  /\ interrupt_requests = << >>
  /\ \E start \in TIMER_STARTS : timer = make_timer(IRQ_1, start)
  /\ process = "running" /\ phase = "returned"

\* What a phase hands on to the next one, unless the process has ended in it.
clocks(part, next) == running /\ phase = part /\ phase' = next

computer_single_step ==
  /\ clocks("returned", "cpu")
  /\ UNCHANGED <<cpu, pipeline_stage, backup_cpu, bus, system_memory,
                 cycle_count, frame_buffer, interrupt_requests, timer, process>>

clock_cpu ==
  /\ clocks("cpu", "bus")
  /\ cpu_cycle
  /\ UNCHANGED <<system_memory, cycle_count, frame_buffer, timer>>

clock_bus ==
  /\ clocks("bus", "memory")
  /\ bus_cycle
  /\ UNCHANGED <<cpu, pipeline_stage, backup_cpu, system_memory, cycle_count,
                 frame_buffer, interrupt_requests, timer, process>>

clock_memory ==
  /\ clocks("memory", "graphics")
  /\ memory_cycle
  /\ UNCHANGED <<cpu, pipeline_stage, backup_cpu, frame_buffer,
                 interrupt_requests, timer>>

clock_graphics ==
  /\ clocks("graphics", "timer")
  /\ graphics_cycle
  /\ UNCHANGED <<cpu, pipeline_stage, backup_cpu, system_memory, cycle_count,
                 interrupt_requests, timer, process>>

cpu_completed_instruction == cpu.instruction_finished

\* Variant: a single step of the clock, not of the program.
clock_timer_once ==
  /\ clocks("timer", "returned")
  /\ timer_cycle
  /\ UNCHANGED <<cpu, pipeline_stage, backup_cpu, bus, system_memory,
                 cycle_count, frame_buffer, process>>

\* The timer's cycle ends the iteration, and the loop tests its condition.
clock_timer ==
  /\ clocks("timer", IF cpu_completed_instruction THEN "returned" ELSE "cpu")
  /\ timer_cycle
  /\ UNCHANGED <<cpu, pipeline_stage, backup_cpu, bus, system_memory,
                 cycle_count, frame_buffer, process>>

stopped == ~running /\ UNCHANGED vars

Next ==
  \/ computer_single_step \/ clock_cpu \/ clock_bus \/ clock_memory
  \/ clock_graphics \/ clock_timer \/ stopped

\* One thread runs the loop and never blocks in it.
Fairness == WF_vars(Next)

Spec == Init /\ [][Next]_vars /\ Fairness
-----------------------------------------------------------------------------
(* What the computer promises *)

\* Every variable keeps its type; in particular no register, bus line or
\* queue entry leaves its width (cpu_private.h:22, memory_bus.c:23).
TypeOK ==
  /\ CpuTypeOK /\ MemoryTypeOK
  /\ bus \in Bus
  /\ frame_buffer \in [Pixel -> Word]
  /\ interrupt_requests \in Seq(IRQ)
  /\ Len(interrupt_requests) <= MAX_NUM_IRQS
  /\ timer \in TimerState
  /\ process \in Fates /\ phase \in Phase

\* The CPU has a transaction open on the bus; on_keyboard: one that will
\* never be answered.
waiting == pipeline_stage \in {"FETCH2", "MEMORY2"}
on_keyboard == waiting /\ DeviceAt(cpu.MAR) = "KEYBOARD_SELECTED"

\* The bus is driven exactly while the CPU waits in FETCH2 or MEMORY2 for an
\* answer: no stage leaves a transaction open behind it (cpu.c:212-237,
\* :308-358).
BusFollowsPipeline == bus.bus_active <=> waiting

\* When the CPU looks at the ready signal it is never the one of an earlier
\* transaction, although bus_clear_device_ready raises it (memory_bus.c:47):
\* the signal is up only during a transaction, and only after its device has
\* had its cycle.
ReadyIsFresh ==
  /\ phase = "cpu" /\ bus.device_ready => waiting
  /\ phase \in {"memory", "bus"} /\ waiting => ~bus.device_ready

\* The memory's static cycle counter belongs to the access in progress and is
\* back at zero before the next one, so every access waits equally long
\* (memory.c:79).
LatencyInStep ==
  cycle_count > 0 =>
    waiting /\ bus.selected_device = "MEMORY_SELECTED" /\ ~bus.device_ready

\* The instruction about to be decoded is the word at the address fetched
\* from, and the PC has moved one past it (cpu.c:212-237).
FetchedFromMemory ==
  pipeline_stage = "DECODE" =>
    /\ cpu.PC = Add(cpu.MAR, 1)
    /\ DeviceAt(cpu.MAR) = "MEMORY_SELECTED" /\ cpu.MAR \in Location =>
         cpu.IR = system_memory[cpu.MAR]

\* A load writes to its register what memory holds at its address, whatever
\* the bus carried before (cpu.c:341-345, cpu_ops.c:234-242).
LoadedFromMemory ==
  /\ pipeline_stage = "EXECUTE"
  /\ cpu.decoded.opcode \in {"LOAD", "LOADR"}
  /\ DeviceAt(cpu.MAR) = "MEMORY_SELECTED" /\ cpu.MAR \in Location
  => cpu.MDR = system_memory[cpu.MAR]

store_in_progress ==
  /\ pipeline_stage = "MEMORY2" /\ cpu.decoded.opcode \in {"STORE", "STORER"}

\* A store leaves MEMORY2 only once the word of its source register is at its
\* address, in the memory or in the frame buffer (cpu.c:326-352).
StoreLanded ==
  [][store_in_progress /\ pipeline_stage' = "INTERRUPT" =>
       LET stored == cpu.registers[cpu.decoded.destination_reg1]
       IN  CASE DeviceAt(cpu.MAR) = "MEMORY_SELECTED" ->
                  cpu.MAR \in Location /\ system_memory[cpu.MAR] = stored
             [] DeviceAt(cpu.MAR) = "GRAPHICS_SELECTED" ->
                  frame_buffer[cpu.MAR - GRAPHICS_REGION_START] = stored
             [] OTHER -> FALSE]_vars

\* Nothing but a store in MEMORY2 changes the memory or the frame buffer, and
\* it changes only the location it addresses, to the word it stores: a write
\* mode left on the bus by one transaction never hits the next (memory.c:89,
\* graphics.c:191).
OnlyStoresWrite ==
  [][system_memory' # system_memory \/ frame_buffer' # frame_buffer
     => /\ store_in_progress
        /\ LET stored == cpu.registers[cpu.decoded.destination_reg1]
           IN  IF DeviceAt(cpu.MAR) = "GRAPHICS_SELECTED"
               THEN /\ frame_buffer' = [frame_buffer EXCEPT
                         ![cpu.MAR - GRAPHICS_REGION_START] = stored]
                    /\ UNCHANGED system_memory
               ELSE /\ system_memory' =
                         [system_memory EXCEPT ![cpu.MAR] = stored]
                    /\ UNCHANGED frame_buffer]_vars

\* The timer's request is in the queue.
timer_request_queued ==
  \E i \in DOMAIN interrupt_requests :
    interrupt_requests[i] = timer.IRQ_number

\* A RETURNI outside an interrupt has restored the backup that nobody made: a
\* CPU without a controller, which ends the process at its next stage.
disconnected == ~cpu.connected

\* The timer's overflow is not forgotten: its IRQ stays in the queue until the
\* CPU takes an interrupt, through TRAPs and resets.  The exception is a
\* RETURNI, which takes it out and leaves a disconnected CPU (timer.c:105,
\* cpu_ops.c:81, :112).
TimerRequestQueued ==
  running /\ "TIMER_INTERRUPT_FLAG" \in timer.control_bits
    => timer_request_queued \/ disconnected

\* The first stage has entered interrupt mode, which ends the process.
interrupt_taken == process = "exited" /\ cpu.interrupt_in_process

\* Requests leave the queue in the order they came, and for two ends only: the
\* CPU takes an interrupt, or a RETURNI swallows the request.  No RETURNI
\* swallows one and lets the program go on without it (cpu_ops.c:81, :95,
\* :112).
RequestsKept ==
  [][interrupt_requests' # interrupt_requests
     => \/ \E irq_number \in IRQ :
             interrupt_requests' = Append(interrupt_requests, irq_number)
        \/ /\ interrupt_requests' = Tail(interrupt_requests)
           /\ \/ interrupt_taken'
              \/ /\ pipeline_stage = "EXECUTE" /\ opcode_is("RETURNI")
                 /\ disconnected']_vars

\* An instruction adds at most a software interrupt and an overflow, so the
\* queue is never full and no request is dropped (interrupt_controller.c:54),
\* unless the CPU is stuck on the keyboard.
RequestsFit ==
  Len(interrupt_requests) <= 2 \/ on_keyboard

\* The process has ended in an access of the CPU to an address that the map
\* gives to the RAM and the array does not have.
ended_off_the_array ==
  /\ process \in {"crashed", "undefined"} /\ waiting
  /\ DeviceAt(cpu.MAR) = "MEMORY_SELECTED" /\ cpu.MAR \notin Location

\* The timer's last value before its overflow leads to an interrupt: the
\* overflow is seen and requested, and the CPU reaches its first stage and
\* takes it.  Three things may come in between: the CPU is stuck on the
\* keyboard, a RETURNI has disconnected it, or the process ends at an address
\* past the array (timer.c:96, :105, cpu.c:202).
OverflowIsTaken ==
  running /\ timer.timer_value = TIMER_VALUES - 1
    ~> interrupt_taken \/ on_keyboard \/ disconnected \/ ended_off_the_array
-----------------------------------------------------------------------------
(* The strengthening under which the promises above are inductive *)

\* What is on the bus and in the memory's counter, phase by phase.
TransactionInv ==
  /\ bus.bus_active <=> waiting
  /\ ~waiting /\ phase # "bus" =>
       ~bus.device_ready /\ bus.selected_device = "NO_DEVICE_SELECTED"
  /\ waiting => bus.address_lines = cpu.MAR
  /\ waiting /\ phase \in {"bus", "memory"} => ~bus.device_ready
  /\ waiting /\ phase # "bus" =>
       bus.selected_device = DeviceAt(bus.address_lines)
  /\ cycle_count > 0 =>
       /\ waiting /\ ~bus.device_ready
       /\ bus.selected_device = "MEMORY_SELECTED"
       /\ DeviceAt(bus.address_lines) = "MEMORY_SELECTED"

\* What the stage says of the latched instruction and of the bus's mode.
PipelineInv ==
  /\ pipeline_stage \in {"MEMORY1", "MEMORY2", "EXECUTE"} =>
       cpu.decoded \in Instruction
  /\ pipeline_stage \in {"MEMORY1", "MEMORY2"} =>
       cpu.decoded.opcode \in {"LOAD", "LOADR", "STORE", "STORER"}
  /\ pipeline_stage \in {"FETCH2", "DECODE"} => cpu.PC = Add(cpu.MAR, 1)
  /\ pipeline_stage = "FETCH2" => bus.bus_mode = "DATA_READ"
  /\ pipeline_stage = "MEMORY2" =>
       IF is_load_instruction(cpu.decoded.opcode)
       THEN bus.bus_mode = "DATA_READ"
       ELSE /\ bus.bus_mode = "DATA_WRITE"
            /\ bus.data_lines = cpu.registers[cpu.decoded.destination_reg1]

\* What a raised ready signal says: the addressed device holds the word that
\* is on the data lines.
AnswerInv ==
  waiting /\ bus.device_ready =>
    /\ DeviceAt(cpu.MAR) # "KEYBOARD_SELECTED"
    /\ DeviceAt(cpu.MAR) = "MEMORY_SELECTED" =>
         /\ cpu.MAR \in Location => system_memory[cpu.MAR] = bus.data_lines
         /\ bus.bus_mode = "DATA_WRITE" /\ running => cpu.MAR \in Location
    /\ DeviceAt(cpu.MAR) = "GRAPHICS_SELECTED" /\ bus.bus_mode = "DATA_WRITE" =>
         frame_buffer[cpu.MAR - GRAPHICS_REGION_START] = bus.data_lines

\* The committed enter_interrupt_mode ends in a debugging exit, so that a CPU
\* that runs was never in an interrupt and has no backup (cpu_ops.c:95-120).
BackupInv ==
  running =>
    /\ backup_cpu = zeroed_cpu /\ ~cpu.interrupt_in_process
    /\ disconnected => pipeline_stage = "INTERRUPT" /\ cpu.PC = 0

\* What the process may have ended by.
EndInv ==
  \/ running \/ interrupt_taken \/ ended_off_the_array
  \/ process = "crashed" /\ disconnected

\* Before the timer has overflowed at most one software interrupt is queued,
\* and only until the next first stage; afterwards the timer's IRQ is.
RequestInv ==
  /\ timer.IRQ_number = IRQ_1
  /\ "TIMER_INTERRUPT_ENABLE" \in timer.control_bits
  /\ running /\ cpu.connected =>
       IF "TIMER_INTERRUPT_FLAG" \in timer.control_bits
       THEN timer_request_queued
       ELSE /\ Len(interrupt_requests) <= 1
            /\ pipeline_stage # "INTERRUPT" => interrupt_requests = << >>

\* Outside the first stage no request but the timer's waits.
PendingInv ==
  running /\ pipeline_stage # "INTERRUPT" =>
    \A i \in DOMAIN interrupt_requests : interrupt_requests[i] = IRQ_1

IInv == /\ TypeOK /\ TransactionInv /\ PipelineInv /\ AnswerInv
        /\ FetchedFromMemory /\ LoadedFromMemory
        /\ BackupInv /\ EndInv /\ RequestInv /\ PendingInv
-----------------------------------------------------------------------------
(* What comments of the source say and the code does not do *)

\* "tells us whether we've completed the instruction yet" (cpu_private.h:65):
\* the cycle that completes a store reports it like any other.
CompletionReported ==
  [][pipeline_stage # "INTERRUPT" /\ pipeline_stage' = "INTERRUPT"
       => cpu_completed_instruction']_vars

\* "The CPU will interact with the keyboard hardware via special memory-mapped
\* registers" (keyboard.c:10): an access to them is answered.
KeyboardAnswers == on_keyboard ~> (~on_keyboard \/ ~running)

\* "Precondition: interrupt_requested() must be true in order for this function
\* to work" (interrupt_controller.c:65): the CPU executes no RETURNI, which
\* asks for the source, without a request.
SourcePrecondition ==
  phase = "cpu" /\ pipeline_stage = "EXECUTE"
    /\ cpu.decoded.opcode = "RETURNI" => interrupt_requested

\* "the overflow interrupt has occured, so we need to signal the processor"
\* (timer.c:109): the signal waits until the processor takes an interrupt.
OverflowSignalled ==
  running /\ "TIMER_INTERRUPT_FLAG" \in timer.control_bits
    => timer_request_queued
=============================================================================
