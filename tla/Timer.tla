------------------------------- MODULE Timer -------------------------------
(***************************************************************************)
(* src/timer.c: the free-running system timer.  An overflow sets the flag  *)
(* and, when its interrupt is enabled, requests the timer's IRQ.           *)
(***************************************************************************)
EXTENDS InterruptController

CONSTANTS
  TIMER_VALUES,  \* the number of values of the timer's uint32_t (2^32)
  TIMER_STARTS   \* what it may start from (UINT32_MAX - 10*CPU_FREQUENCY)

ASSUME TimerAssumption ==
  /\ TIMER_VALUES \in Nat /\ TIMER_VALUES > 1
  /\ TIMER_STARTS \subseteq 0 .. TIMER_VALUES - 1

VARIABLE timer

Count == 0 .. TIMER_VALUES - 1

ControlBit == {"TIMER_ON", "TIMER_INTERRUPT_ENABLE", "TIMER_INTERRUPT_FLAG"}

TimerState == [control_bits : SUBSET ControlBit, IRQ_number : IRQ,
               prescale_value : Count, prescale_counter : Count,
               timer_value : Count]

MIN_PRESCALE_VALUE == 2

make_timer(irq, start) ==
  [control_bits |-> {"TIMER_ON", "TIMER_INTERRUPT_ENABLE"},
   IRQ_number |-> irq, prescale_value |-> 0, prescale_counter |-> 0,
   timer_value |-> start]

prescaling_enabled(t) == MIN_PRESCALE_VALUE <= t.prescale_value

count_up(t) == [t EXCEPT !.timer_value = (@ + 1) % TIMER_VALUES]

prescale_tick(t) ==
  IF t.prescale_counter < t.prescale_value
  THEN [t EXCEPT !.prescale_counter = @ + 1]
  ELSE [count_up(t) EXCEPT !.prescale_counter = 1]

tick(t) == IF prescaling_enabled(t) THEN prescale_tick(t) ELSE count_up(t)

update_timer_overflow_status(t) ==
  [t EXCEPT !.control_bits = @ \cup {"TIMER_INTERRUPT_FLAG"}]

\* Variant: called before update_timer_overflow_status.
update_interrupt_status_first(t) ==
  IF {"TIMER_INTERRUPT_ENABLE", "TIMER_INTERRUPT_FLAG"}
       \subseteq timer.control_bits
  THEN request_interrupt(t.IRQ_number)
  ELSE UNCHANGED interrupt_requests

update_interrupt_status(t) ==
  IF {"TIMER_INTERRUPT_ENABLE", "TIMER_INTERRUPT_FLAG"} \subseteq t.control_bits
  THEN request_interrupt(t.IRQ_number)
  ELSE UNCHANGED interrupt_requests

\* Variant: compared in a type in which the sum does not wrap.
timer_overflows_unwrapped == timer.timer_value + 1 < timer.timer_value

timer_overflows == tick(timer).timer_value < timer.timer_value

timer_cycle ==
  IF "TIMER_ON" \notin timer.control_bits
  THEN UNCHANGED <<timer, interrupt_requests>>
  ELSE \/ /\ ~timer_overflows
          /\ timer' = tick(timer)
          /\ UNCHANGED interrupt_requests
       \/ /\ timer_overflows
          /\ LET overflowed == update_timer_overflow_status(tick(timer))
             IN  timer' = overflowed /\ update_interrupt_status(overflowed)
=============================================================================
