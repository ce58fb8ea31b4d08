----------------------------- MODULE ComputerIsa -----------------------------
(***************************************************************************)
(* The computer implements its instruction set: seen at the moments at     *)
(* which instructions take effect, the pipeline, the bus and the devices'  *)
(* cycles are one atomic step per instruction.                             *)
(***************************************************************************)
EXTENDS Computer

\* A store has its effect when its device answers, every other instruction in
\* EXECUTE.
store_answered == store_in_progress /\ bus.device_ready

\* A fetched instruction that has not had its effect yet.
in_flight ==
  /\ pipeline_stage \in {"FETCH2", "DECODE", "MEMORY1", "MEMORY2", "EXECUTE"}
  /\ ~store_answered

\* The address of the next instruction to have an effect.
isa_PC == IF in_flight THEN Subtract(cpu.PC, 1) ELSE cpu.PC

\* A CPU that has lost its controller will not live through its next stage.
isa_process == IF running /\ ~cpu.connected THEN "crashed" ELSE process

\* Requests are looked at in the first stage.
isa_interrupted ==
  /\ isa_process = "running" /\ pipeline_stage = "INTERRUPT"
  /\ interrupt_requests # << >>

I == INSTANCE Isa WITH registers <- cpu.registers, PC <- isa_PC,
                       CCR <- cpu.CCR, interrupted <- isa_interrupted,
                       process <- isa_process

\* The pipelined computer does what the instruction set says: whatever memory,
\* frame buffer and registers look like after any step, they look like that
\* after whole instructions executed in program order, each on the results of
\* the one before (cpu.c:360, cpu_ops.c:382).
RefinesIsa == I!Init /\ [][I!Next]_(I!vars)

\* And it gets on: an instruction that does not touch the keyboard is finished,
\* and a request between instructions is taken (computer.c:122).
IsaProgress == I!Fairness

\* The instruction in flight is the word the memory holds at its address, even
\* after its operand's address has replaced it in MAR (cpu.c:239).
InFlightInv ==
  /\ pipeline_stage \in {"DECODE", "MEMORY1", "MEMORY2", "EXECUTE"}
       /\ ~store_answered => I!Reads(isa_PC, cpu.IR)
  /\ pipeline_stage \in {"MEMORY1", "MEMORY2", "EXECUTE"} =>
       cpu.decoded = Decode[cpu.IR]
  /\ pipeline_stage = "EXECUTE" => cpu.decoded.opcode \notin {"STORE", "STORER"}
  /\ pipeline_stage = "MEMORY2" => cpu.MAR = effective_address(cpu.decoded)
  /\ pipeline_stage = "EXECUTE" /\ cpu.decoded.opcode \in {"LOAD", "LOADR"} =>
       cpu.MAR = effective_address(cpu.decoded) /\ I!Reads(cpu.MAR, cpu.MDR)
=============================================================================
