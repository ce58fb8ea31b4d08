--------------------------- MODULE SessionProofs ---------------------------
(***************************************************************************)
(* Sessions, for every value of the constants and every sequence of        *)
(* programs: what the computer promises survives resets and loads.         *)
(***************************************************************************)
EXTENDS Session, IsaProofs

(* A reset and a load leave words in the memory. *)
LEMMA LoadedMemory ==
  ASSUME TypeOK, computer_load_program
  PROVE  system_memory' \in [Location -> Word]
<1>1. PICK program \in LOADS :
        system_memory' =
          [l \in Location |-> IF l < Len(program) THEN program[l + 1]
                              ELSE system_memory[l]]
  BY DEF computer_load_program
<1>2. program \in Seq(Word)
  BY SessionAssumption DEF SessionAssumption
<1>3. ASSUME NEW l \in Location, l < Len(program)
      PROVE  program[l + 1] \in Word
  <2>1. l \in Nat /\ l + 1 \in 1 .. Len(program)
    BY <1>2, <1>3, MemoryAssumption, LenProperties
    DEF Location, MemoryAssumption
  <2> QED BY <1>2, <2>1, ElementOfSeq
<1>4. system_memory \in [Location -> Word]
  BY DEF TypeOK, MemoryTypeOK
<1> QED BY <1>1, <1>3, <1>4

(* What a reset does not clear it leaves as it was. *)
LEMMA ResetMemory ==
  ASSUME TypeOK, memory_reset
  PROVE  /\ system_memory' \in [Location -> Word]
         /\ \A l \in Location : system_memory'[l] \in {0, system_memory[l]}
BY SmallWords DEF TypeOK, MemoryTypeOK, memory_reset

(* What a reset makes of the CPU. *)
LEMMA ResetCpu ==
  ASSUME TypeOK, cpu_reset
  PROVE  /\ cpu' \in CpuState
         /\ cpu'.registers = [r \in Reg |-> 0] /\ cpu'.PC = 0 /\ cpu'.CCR = {}
         /\ cpu'.connected = cpu.connected
         /\ cpu'.interrupt_in_process = cpu.interrupt_in_process
         /\ cpu'.instruction_finished = cpu.instruction_finished
BY SmallWords DEF TypeOK, CpuTypeOK, CpuState, cpu_reset, build_cpu, zeroed_cpu
-----------------------------------------------------------------------------
(* Between two instructions nothing is in flight, so that a change of the
   memory and of the registers disturbs no promise. *)
LEMMA BetweenInv ==
  ASSUME SessionInv, computer_reset \/ computer_load_program
  PROVE  SessionInv'
<1> USE DEF SessionInv, IInv
<1>1. /\ pipeline_stage = "INTERRUPT" /\ pipeline_stage' = "INTERRUPT"
      /\ ~waiting /\ ~waiting' /\ running /\ phase = "returned"
      /\ UNCHANGED <<backup_cpu, bus, cycle_count, interrupt_requests, timer,
                     process, phase>>
  BY DEF ReturnsBetween, computer_reset, computer_load_program, waiting
<1>2. /\ cpu' \in CpuState /\ cpu'.connected = cpu.connected
      /\ cpu'.interrupt_in_process = cpu.interrupt_in_process
      /\ cpu'.PC = cpu.PC \/ cpu'.PC = 0
  BY ResetCpu DEF computer_reset, computer_load_program, TypeOK, CpuTypeOK
<1>3. TypeOK'
  <2>1. system_memory' \in [Location -> Word]
    BY LoadedMemory, ResetMemory DEF computer_reset
  <2>2. frame_buffer' \in [Pixel -> Word]
    BY SmallWords
    DEF computer_reset, computer_load_program, graphics_reset, TypeOK
  <2> QED
    BY <1>1, <1>2, <2>1, <2>2 DEF TypeOK, CpuTypeOK, MemoryTypeOK
<1>4. TransactionInv'
  BY <1>1 DEF TransactionInv
<1>5. PipelineInv' /\ AnswerInv' /\ FetchedFromMemory' /\ LoadedFromMemory'
  BY <1>1 DEF PipelineInv, AnswerInv, FetchedFromMemory, LoadedFromMemory
<1>6. BackupInv' /\ EndInv'
  BY <1>1, <1>2 DEF BackupInv, EndInv, disconnected, running
<1>7. RequestInv' /\ PendingInv'
  BY <1>1, <1>2 DEF RequestInv, PendingInv, timer_request_queued, running
<1>8. InFlightInv' /\ ReturnsBetween'
  BY <1>1 DEF InFlightInv, ReturnsBetween
<1> QED BY <1>3, <1>4, <1>5, <1>6, <1>7, <1>8

(* A step returns after EXECUTE, and EXECUTE goes on to the first stage. *)
LEMMA StepReturns ==
  ASSUME TypeOK, ReturnsBetween, [Next]_vars
  PROVE  ReturnsBetween'
<1>1. CASE clock_cpu
  <2>0. phase' = "bus"
    BY <1>1 DEF clock_cpu, clocks
  <2>1. CASE interrupt \/ null_controller \/ execute
    <3>1. CASE pipeline_stage' = "INTERRUPT"
      BY <3>1 DEF ReturnsBetween
    <3>2. CASE pipeline_stage' = "FETCH1"
      BY <2>0, <2>1, <3>2
      DEF interrupt, null_controller, execute, enter_interrupt_mode, TypeOK,
          CpuTypeOK, CpuState, ReturnsBetween
    <3> QED
      BY <2>1, <3>1, <3>2
      DEF interrupt, null_controller, execute, enter_interrupt_mode
  <2>2. CASE fetch1 \/ fetch2 \/ decode \/ memory1 \/ memory2
    <3>1. ~cpu'.instruction_finished
      BY <2>2
      DEF fetch1, fetch2, decode, memory1, memory2, TypeOK, CpuTypeOK, CpuState
    <3> QED BY <2>0, <3>1 DEF ReturnsBetween
  <2> QED BY <1>1, <2>1, <2>2 DEF clock_cpu, cpu_cycle
<1>2. CASE computer_single_step \/ clock_bus \/ clock_memory \/ clock_graphics
  BY <1>2
  DEF computer_single_step, clock_bus, clock_memory, clock_graphics, clocks,
      ReturnsBetween
<1>3. CASE clock_timer
  BY <1>3 DEF clock_timer, clocks, cpu_completed_instruction, ReturnsBetween
<1>4. CASE UNCHANGED vars
  BY <1>4 DEF vars, ReturnsBetween
<1> QED BY <1>1, <1>2, <1>3, <1>4 DEF Next, stopped

(* A session starts with a new computer. *)
LEMMA InitialSession == Init => SessionInv
<1>1. Init => ReturnsBetween
  BY DEF Init, CpuInit, ReturnsBetween
<1> QED BY <1>1, InitialInv, InitialIsa DEF SessionInv

(* The computer's own steps and the client's keep the invariant. *)
LEMMA StepSession == SessionInv /\ [SessionNext]_vars => SessionInv'
<1> SUFFICES ASSUME SessionInv, [SessionNext]_vars PROVE SessionInv'
  OBVIOUS
<1>1. CASE [Next]_vars
  <2>1. IInv' /\ InFlightInv'
    BY <1>1, StepInv, StepInFlight DEF SessionInv
  <2>2. ReturnsBetween'
    BY <1>1, StepReturns DEF SessionInv, IInv
  <2> QED BY <2>1, <2>2 DEF SessionInv
<1>2. CASE computer_reset \/ computer_load_program
  BY <1>2, BetweenInv
<1> QED BY <1>1, <1>2 DEF SessionNext
-----------------------------------------------------------------------------
(* The promises of a session. *)

(* Every promise of the computer survives resets and loads, and a step
   returns between two instructions only (computer.c:99-136). *)
THEOREM SessionInvariant == SessionSpec => []SessionInv
BY InitialSession, StepSession, PTL DEF SessionSpec

(* A reset leaves both the timer's flag and the queue, so that the flag and the
   request still go together after it, or the CPU has lost its controller
   (computer.c:99-107, timer.c:105). *)
THEOREM ResetKeepsRequests == SessionSpec => []TimerRequestQueued
<1>1. SessionInv => TimerRequestQueued
  BY DEF SessionInv, IInv, RequestInv, TimerRequestQueued, disconnected
<1> QED BY <1>1, SessionInvariant, PTL

(* A reset hands the next program a pipeline, a bus and a memory counter as
   new, although it touches none of them (computer.c:99-107). *)
THEOREM ResetsAreClean == SessionSpec => ResetIsClean
<1>1. ASSUME SessionInv, computer_reset
      PROVE  /\ pipeline_stage' = "INTERRUPT" /\ backup_cpu' = zeroed_cpu
             /\ ~cpu'.interrupt_in_process
             /\ ~bus'.bus_active /\ ~bus'.device_ready
             /\ bus'.selected_device = "NO_DEVICE_SELECTED"
             /\ cycle_count' = 0
  <2>1. /\ pipeline_stage = "INTERRUPT" /\ ~waiting /\ running
        /\ phase = "returned"
        /\ UNCHANGED <<pipeline_stage, backup_cpu, bus, cycle_count>>
    BY <1>1 DEF SessionInv, ReturnsBetween, computer_reset, waiting
  <2>2. /\ backup_cpu = zeroed_cpu /\ ~cpu.interrupt_in_process
        /\ cpu'.interrupt_in_process = cpu.interrupt_in_process
    BY <1>1, <2>1, ResetCpu
    DEF SessionInv, IInv, BackupInv, computer_reset
  <2>3. /\ ~bus.bus_active /\ ~bus.device_ready
        /\ bus.selected_device = "NO_DEVICE_SELECTED"
    BY <1>1, <2>1 DEF SessionInv, IInv, TransactionInv
  <2>4. cycle_count = 0
    BY <1>1, <2>1, MemoryAssumption
    DEF SessionInv, IInv, TransactionInv, TypeOK, MemoryTypeOK,
        MemoryAssumption
  <2> QED BY <2>1, <2>2, <2>3, <2>4
<1>2. SessionInv => [computer_reset =>
         /\ pipeline_stage' = "INTERRUPT" /\ backup_cpu' = zeroed_cpu
         /\ ~cpu'.interrupt_in_process
         /\ ~bus'.bus_active /\ ~bus'.device_ready
         /\ bus'.selected_device = "NO_DEVICE_SELECTED"
         /\ cycle_count' = 0]_vars
  BY <1>1
<1> QED BY <1>2, SessionInvariant, PTL DEF SessionSpec, ResetIsClean

(* A reset is the programmer's machine started anew, and a load changes its
   memory and nothing else. *)
LEMMA BetweenIsa ==
  ASSUME SessionInv, computer_reset \/ computer_load_program
  PROVE  I!Restart \/ I!Load_program
<1> USE DEF SessionInv, IInv
<1>1. /\ pipeline_stage = "INTERRUPT" /\ pipeline_stage' = "INTERRUPT"
      /\ UNCHANGED <<interrupt_requests, process>>
  BY DEF ReturnsBetween, computer_reset, computer_load_program
<1>2. system_memory' \in [I!Location -> I!Word]
  BY LoadedMemory, ResetMemory, SameMap DEF computer_reset
<1>3. ~in_flight /\ ~in_flight' /\ isa_PC = cpu.PC /\ isa_PC' = cpu'.PC
  BY <1>1 DEF in_flight, isa_PC
<1>4. cpu'.connected = cpu.connected
  BY ResetCpu DEF computer_reset, computer_load_program
<1>5. UNCHANGED <<isa_process, isa_interrupted>>
  BY <1>1, <1>4 DEF isa_process, isa_interrupted, running
<1>6. CASE computer_reset
  <2>1. cpu'.registers = [r \in Reg |-> 0] /\ cpu'.PC = 0 /\ cpu'.CCR = {}
    BY <1>6, ResetCpu DEF computer_reset
  <2>2. frame_buffer' = [p \in I!Pixel |-> 0]
    BY <1>6, SameMap DEF computer_reset, graphics_reset
  <2>3. \A l \in I!Location : system_memory'[l] \in {0, system_memory[l]}
    BY <1>6, ResetMemory, SameMap DEF computer_reset
  <2> QED BY <1>2, <1>3, <1>5, <2>1, <2>2, <2>3 DEF I!Restart
<1>7. CASE computer_load_program
  BY <1>2, <1>3, <1>5, <1>7 DEF computer_load_program, I!Load_program
<1> QED BY <1>6, <1>7

(* Whatever is reset and loaded between two steps, the computer runs whole
   instructions in program order, and finishes none of one program in the next,
   on whatever words a reset has left in the memory (computer.c:99-136). *)
THEOREM SessionImplementsIsa == SessionSpec => SessionRefinesIsa
<1>1. Init => I!Init
  BY InitialIsa
<1>2. SessionInv /\ [SessionNext]_vars
        => [I!Next \/ I!Restart \/ I!Load_program]_(I!vars)
  BY StepIsa, BetweenIsa DEF SessionInv, SessionNext
<1> QED
  BY <1>1, <1>2, SessionInvariant, PTL DEF SessionSpec, SessionRefinesIsa
=============================================================================
