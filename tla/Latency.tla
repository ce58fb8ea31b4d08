------------------------------ MODULE Latency ------------------------------
(***************************************************************************)
(* How long the CPU takes to look at an interrupt, in cycles of the clock: *)
(* it does so once per instruction (cpu.c:202), and an instruction reads   *)
(* the memory at most twice.                                               *)
(***************************************************************************)
EXTENDS Computer

\* The cycles of the longest instruction after its first stage.
MAX_LATENCY == 2 * MAX_CYCLES + 6

\* The timer's period is far longer than an instruction (2^32).
ASSUME LatencyAssumption == MAX_LATENCY < TIMER_VALUES

overflowed == "TIMER_INTERRUPT_FLAG" \in timer.control_bits

\* The cycles from a stage to the first stage of the next instruction, not
\* counting the wait of the access it has open.
stage_cycles ==
  CASE pipeline_stage = "INTERRUPT" -> 0
    [] pipeline_stage = "EXECUTE" -> 1
    [] pipeline_stage = "MEMORY2" -> 2
    [] pipeline_stage = "MEMORY1" -> MAX_CYCLES + 3
    [] pipeline_stage = "DECODE" -> MAX_CYCLES + 4
    [] pipeline_stage = "FETCH2" -> MAX_CYCLES + 5
    [] pipeline_stage = "FETCH1" -> MAX_LATENCY

unanswered == waiting /\ ~bus.device_ready

cycles_left ==
  stage_cycles + IF unanswered THEN MAX_CYCLES + 1 - cycle_count ELSE 0

\* The device addressed has its cycle of this iteration still to come.
device_to_come ==
  /\ unanswered
  /\ \/ phase \in {"bus", "memory"}
     \/ phase = "graphics" /\ DeviceAt(cpu.MAR) = "GRAPHICS_SELECTED"

\* An iteration of the loop brings the next first stage one cycle nearer, and
\* its last part is the timer's tick.
LatencyInv ==
  running /\ overflowed /\ ~on_keyboard =>
    timer.timer_value + cycles_left
      <= IF phase \in {"cpu", "returned"} \/ device_to_come
         THEN MAX_LATENCY ELSE MAX_LATENCY - 1

\* One software interrupt and one overflow.
RequestCount ==
  on_keyboard \/
    /\ Len(interrupt_requests) <= 2
    /\ running /\ pipeline_stage # "INTERRUPT" => Len(interrupt_requests) <= 1
    /\ running /\ ~overflowed =>
         /\ Len(interrupt_requests) <= 1
         /\ pipeline_stage # "INTERRUPT" => interrupt_requests = << >>

\* A timer that has not overflowed has not gone below its start.
StartInv ==
  ~overflowed => \E start \in TIMER_STARTS : start <= timer.timer_value

TimedInv ==
  /\ IInv /\ LatencyInv /\ RequestCount /\ StartInv
  /\ timer.prescale_value = 0

\* An overflow is seen and acted on within an instruction: the timer has not
\* overflowed yet, or it did so at most MAX_LATENCY ticks ago, or the CPU has
\* taken the interrupt.  The exceptions are those of OverflowIsTaken (cpu.c:202,
\* timer.c:96).
TakenInTime ==
  \/ /\ running /\ ~overflowed
     /\ \E start \in TIMER_STARTS : start <= timer.timer_value
  \/ running /\ overflowed /\ timer.timer_value <= MAX_LATENCY
  \/ interrupt_taken \/ on_keyboard \/ disconnected \/ ended_off_the_array
=============================================================================
