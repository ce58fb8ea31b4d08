------------------------ MODULE InterruptController ------------------------
(***************************************************************************)
(* src/interrupt_controller.c: the IRQ numbers waiting for the CPU, in a   *)
(* queue of MAX_NUM_IRQS places.  The queue is the sequence that           *)
(* CircularQueue is shown to implement.                                    *)
(***************************************************************************)
EXTENDS Integers, Sequences

CONSTANT MAX_NUM_IRQS  \* 256

ASSUME IrqAssumption == MAX_NUM_IRQS \in Nat /\ MAX_NUM_IRQS >= 4

VARIABLE interrupt_requests

IRQ == 0 .. MAX_NUM_IRQS - 1

IRQ_0 == 0
IRQ_1 == 1

\* Half of the numbers are the software interrupts', which start here.
IRQ_128 == MAX_NUM_IRQS \div 2

\* What queue_put answers is dropped: a request to a full queue is lost.
request_interrupt(irq_number) ==
  interrupt_requests' =
    IF Len(interrupt_requests) < MAX_NUM_IRQS
    THEN Append(interrupt_requests, irq_number)
    ELSE interrupt_requests

\* Variant: !queue_is_empty written as queue_is_full.
interrupt_queue_full == Len(interrupt_requests) = MAX_NUM_IRQS

interrupt_requested == interrupt_requests # << >>

\* The caller must have seen interrupt_requested; if it has not, the number
\* returned is an unassigned byte.
get_interrupt_source(irq_number) ==
  \/ /\ interrupt_requested
     /\ irq_number = Head(interrupt_requests)
     /\ interrupt_requests' = Tail(interrupt_requests)
  \/ /\ ~interrupt_requested
     /\ UNCHANGED interrupt_requests
=============================================================================
