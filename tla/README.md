# zcpu-sim in TLA+

zcpu-sim simulates a small computer: a 32-bit CPU that takes one pipeline stage
per cycle, a memory bus, a RAM, a frame buffer, a keyboard, a timer and an
interrupt controller.  One thread runs everything.  `computer_single_step`
(src/computer.c) calls each part's `*_cycle` function in a fixed order and
repeats until the CPU reports a finished instruction; the parts communicate
through the lines of the bus struct and the controller's request queue.  Around
it are `computer_run`, which draws the screen and takes the keyboard's events
between two instructions, a set of macros that assemble programs, and a driver
with one program.  The modules here model all of that, TLC checks them on
scaled-down instances, and TLAPS proves the safety properties for every size,
among them that the pipelined computer implements its instruction set and that
the driver's program, run on it, draws what it draws.

Paths such as `cpu.c:222` are the repository's `src/cpu.c`, line 222.

## The system

| Component | State | Operations | What makes it correct |
|---|---|---|---|
| CPU (cpu.c, cpu_ops.c) | registers, PC, CCR, IR, MDR, MAR, latched fields, process status, `pipeline_stage`, `backup_cpu` | one stage per `cpu_cycle`; 17 operations; entry to and exit from interrupt mode | fetches and loads get the memory's word, stores put theirs; the bus is driven only while waiting; interrupts are taken between instructions |
| Memory bus (memory_bus.c) | address, data, mode, selected device, ready, active | setters called by CPU and devices; `bus_cycle` decodes the address | one transaction at a time; a ready signal belongs to its own transaction |
| Memory (memory.c) | the word array, a `static cycle_count` | `memory_cycle` waits, then reads or writes and answers | only stores write; every access waits equally long; every access is answered |
| Graphics (graphics.c) | the frame buffer | `graphics_cycle` takes writes, answers reads without data | as above |
| Keyboard (keyboard.c) | `keycode` | `keyboard_cycle` (no caller), `input` (SDL events) | an access is answered (it is not); only an order to stop stops |
| Timer (timer.c) | control bits, counter, prescaler | `timer_cycle` counts, on overflow sets a flag and requests an IRQ | an overflow is not lost and is acted on |
| Interrupt controller (interrupt_controller.c) | queue of IRQ numbers, vector base | request, test, take | no request is dropped; a source is only taken after the test |
| Queue (queue.c) | array, head, tail, count | create, put, get, size queries | a bounded FIFO |
| Computer (computer.c) | the parts, the loop, the time of the last frame, `simulation_running` | build, reset, load, single step, run | programs run as the instruction set says; a single step is one instruction and returns; a reset leaves nothing behind; told to stop, it stops |
| Assembler (preprocessor_assembler.h, bit_twiddling.h) and `decode` | none | a macro per instruction; fields and sign extension | what is written is what is decoded |
| Driver (main.c) | one program | build, load, run | the program draws its box and halts |
| GPIO (gpio.c) | one register | a stub without a caller | |

**Interactions.**  The CPU writes address, mode and data on the bus, devices
write data and ready, and `bus_cycle` writes the selected device: all in one
struct, sampled in the order CPU, bus, memory, graphics, timer.  Timer and TRAP
put requests into the queue; the CPU's first stage and RETURNI take them out.
`computer_run` shares the frame buffer with the computer and
`simulation_running` with the keyboard's `input`.

**Hard behaviours.**  There is no concurrency, but a transaction spans
several iterations in which five parts read state the others left: stale ready
signals, stale bus modes and a counter that survives its access are the typical
mistakes.  Self-modifying programs, addresses outside the array, accesses nobody
answers, and queue entries taken by an operation that only meant to look at them
are hard to reach with the repository's tests, which run one instruction at a
time.  So are a reset or a load after half of another program, a tick counter
that wraps, and an order to stop that meets an instruction that never returns.  PROJECT.json lists each hazard at its line.

## The modules

| Module | Models | State and actions |
|---|---|---|
| `Process` | width of a word, fate of the process | `process`: running, exited (`exit`), crashed (null or wild read), undefined (a write outside the array: nothing is said of what follows) |
| `MemoryMap` | memory_map.h, the decoding of `bus_cycle` | regions, `DeviceAt` |
| `Instructions` | opcode_list.h, the latched fields of cpu_private.h, condition codes | the record an instruction word decodes to |
| `MemoryBus` | memory_bus.c | `bus`; one operator per setter, `bus_cycle` |
| `Memory` | memory.c | `system_memory`, `cycle_count`; `memory_cycle` as ignores / waits / writes / reads |
| `Graphics` | graphics.c | `frame_buffer`; `graphics_cycle` |
| `InterruptController` | interrupt_controller.c | `interrupt_requests`, a sequence |
| `Timer` | timer.c | `timer`; `timer_cycle` with prescaling |
| `Cpu` | cpu.c, cpu_ops.c | `cpu`, `pipeline_stage`, `backup_cpu`; an action per stage, an operator per function of `instruction_table` |
| `Computer` | computer.c | composes the above; `phase` says which part is clocked next, `Init` is `build_computer` and `computer_load_program`; the properties and the inductive invariant |
| `Isa` | what cpu_ops.c does to the programmer's machine | abstract specification: registers, PC, flags, memory, one atomic step per instruction |
| `ComputerIsa` | | the refinement mapping from `Computer` to `Isa` |
| `Latency` | | how soon an interrupt is taken: the potential `cycles_left` |
| `Session` | computer.h used as an interface | `Computer` with `computer_reset` and `computer_load_program` between steps |
| `Assembler` | preprocessor_assembler.h, bit_twiddling.h | a word as the set of its bits; formats and mnemonics |
| `Decoder` | the first half of `decode`, `sign_extend`, `get_instruction` | `decoded` |
| `Encoding` | a line of a program, written and decoded | `written`, `IR`; an action per format |
| `Driver` | main.c | its program as macros, decoded with `Decoder`, run on `Computer`; what its registers and the frame buffer hold at each instruction, seen through `ComputerIsa`; how many instructions are left, and with `Latency` how many cycles |
| `Keyboard` | keyboard.c's `input` and SDL's event queue | `events`, `keycode`, `simulation_running` |
| `RunLoop` | `computer_run`, `graphics_draw`, `quit_simulation` | `at` in the loop, ticks, frame buffer and screen; time passes in every step |
| `CircularQueue` | queue.c | the struct's fields, `reply` = what the last call returned |
| `BoundedFifo` | what queue.h promises | abstract specification, implemented by `CircularQueue` |
| `MCComputer`, `MCSession`, `MCEncoding`, `MCDriver` | | instances for TLC |
| `ComputerProofs`, `IsaProofs`, `LatencyProofs`, `SessionProofs`, `EncodingProofs`, `DriverProofs`, `RunLoopProofs`, `CircularQueueProofs` | | theorems |

`Computer` keeps the requests as a sequence, which is what `CircularQueue` is
proved to implement.  One step of `Computer` is one part's cycle, a whole C
function with every call it makes, so an iteration of the loop is five steps.
Three kinds of data are abstracted:

* `Decode` maps an instruction word to the fields `decode` latches.  In
  `Computer` it is any such map, and the theorems hold for each of them; which
  bits it takes is the subject of `Encoding`, and `Driver` puts the two together:
  there `Decode` is `decoded` of `Decoder`.
* `BitAnd`, `BitOr`, `BitXor` are any functions from pairs of words to words.
* A read outside the array returns any word or crashes; `queue_get` on an empty
  queue returns any byte (the C code leaves the field unassigned).

`Isa` lets a device ask for an interrupt at any moment between two instructions,
so it says what programs do and not when they are interrupted.  `ComputerIsa`
gives a non-store its effect in EXECUTE and a store its effect when its device
takes the word; until then the PC of `Isa` is still the instruction's.  A CPU
that RETURNI has robbed of its pointers is already crashed to `Isa`.

`RunLoop` is not composed with `Computer`: an instruction changes the picture in
any way, ends the process or does not return, which are the three things
`Computer` shows an instruction to do.  Its clock advances while the loop is in
one of its steps; `elapsed`, the time since the last frame, is kept beside the
counter that wraps, and is what `FramesApart` speaks about.

`CpuState.connected` stands for the bus, controller and opcode pointers: they
are set by `make_cpu` and `init_cpu`, and lost when RETURNI copies the zeroed
`backup_cpu` over the CPU (cpu_ops.c:92).

Definitions marked *Variant* are mistakes of the kind the code invites (a
missing reset, an off-by-one, two calls in the other order).  No specification
uses them; with any of them in place of the definition after it, the property it
was written for fails, which is how we know the runs are able to see it.

## The runs

`MCComputer` scales the machine down: 4-bit words; registers 0, 1 and 30; an
address space of sixteen with boot ROM 0..7, vector table 8..9, frame buffer
10..11, keyboard 12 and "RAM" 13..15; an array of six words, so that addresses
past it exist inside the boot ROM, in the vector table and at the top; a latency
of one cycle as in the code; IRQ numbers 0..3 (device IRQs 0 and 1, software
from 2) and a queue of four; a timer of 32 values.  Every address class, wrap of
a word, wrap of the timer, software and device interrupt occurs.  A program is
three instructions, a jump to itself and two words of data.  Nothing cuts the
state space: the graph is finite and explored completely.

| Run | Question | States |
|---|---|---|
| `data` | 210 programs of ALU operations, loads, stores and LOADA, into memory, frame buffer, keyboard, past the array and over themselves: the protocol (`TypeOK`, `BusFollowsPipeline`, `ReadyIsFresh`, `LatencyInStep`), the words (`FetchedFromMemory`, `LoadedFromMemory`, `StoreLanded`, `OnlyStoresWrite`), that the computer implements the instruction set (`RefinesIsa`) and that it gets on with each instruction off the keyboard (`IsaProgress`) | about 122 000 |
| `control` | 212 programs with branches, calls, TRAP and RETURNI, from four timer phases, so that the overflow meets each kind of instruction: `RefinesIsa` again; what becomes of requests (`TimerRequestQueued`, `RequestsKept`, `RequestsFit`); that no overflow is missed and each is taken, at last (`OverflowIsTaken`) and within a number of ticks (`TakenInTime`); and the inductive invariants `IInv`, `InFlightInv`, `TimedInv` | about 137 000 |
| `session` | four programs over eight words, loaded and reset in any order between steps; a reset clears two of the eight words, so remains of other programs run too; a timer of 64 values overflows in the middle: `SessionInv`, `TimerRequestQueued`, `ResetIsClean`, `SessionRefinesIsa` | 498 294 |
| `queue` | `CircularQueue` with four slots and byte values 0..4 implements `BoundedFifo`; every slot is reused with every fill level | 47 501 |
| `encoding` | every macro, on 32-bit words, with four register numbers and, for each of the five field widths, the numbers on both sides of both bounds, and some far outside: `FieldsRecovered`, `NumbersRecovered` | 6 185 |
| `driver` | the committed program with a screen of 6 by 5, a box of 3 by 2, and up to three words read from behind the array, each two values: `OnlyInstructionsRun`, `DrawsInsideBox`, `PictureAtHalt`, `BoxFinished`, from two timer values, the second 378 cycles before the last value, the latest that `DriverInTime` allows; and the inductive invariants `ProgramInv` and `DeadlineInv` | 61 088 |
| `run_loop` | two events of every kind (a key with q's low bits among them), a tick counter of eight values that wraps several times, steps of up to two milliseconds and one that never returns: `TypeOK`, `LastPictureShown`, `FramesApart`, `StopsOnlyWhenTold`, `StopsWhenTold` | 74 544 |

`driver` keeps the program's structure and every offset; only the sizes of
screen and box, which are operands, are smaller.  `run_loop` follows time no
further than `LONG` milliseconds after the last frame; only a loop that is stuck
gets there.

The remaining runs each show one place where the code does not do what a comment,
header or test says.  They are expected to fail:

| Run | Said | Done |
|---|---|---|
| `doc_completion` | "tells us whether we've completed the instruction yet" (cpu_private.h:65) | stores never report it, so a single step runs the next instruction too |
| `doc_keyboard` | the CPU interacts with the keyboard through memory-mapped registers (keyboard.c:10) | the keyboard is never clocked; the single step hangs |
| `doc_source` | "Precondition: interrupt_requested() must be true" (interrupt_controller.c:65) | RETURNI asks without a request |
| `doc_request` | "the overflow interrupt has occured, so we need to signal the processor" (timer.c:109) | a RETURNI between the overflow and the next first stage takes the request out and disconnects the CPU: the overflow is never taken |
| `doc_box` | the program draws a square (main.c:48) | `BRP(-8)` is one short of the STORER: the first column is missing from the second row on |

Eight more disagreements follow from a line or two and have no run:
`enter_interrupt_mode` ends the process (cpu_ops.c:105) before the CPU can use the
IRQ number "to determine which interrupt service routine to jump to"
(interrupt_controller.c:14); the map has RAM up to 0xFFFFFFFF (memory_map.h:20) but
the array 1024 words, and an access past it is outside the array; the shift macros
are among those to "write your asm programs" with (preprocessor_assembler.h:67) but
their opcodes are NOPs (cpu_ops.c:385); a computer "complete with all subsystems" is
"initialized/reset" (computer.c:77) but `memory_reset` clears a quarter of the
memory (memory.c:43);
`bus_clear_device_ready` sets the signal that "the cpu must clear"
(memory_bus.h:19), which is harmless only because the next `bus_cycle` of the
disabled bus clears it (`ReadyIsFresh`); the timer "is turned off, and has its
interrupts masked when first created" (timer.c:64) but is on and unmasked, and its
overflow ends the process after ten simulated seconds; the program runs "until told
to stop" (computer.c:138) except while an instruction waits for the keyboard; and
`queue_get_size` answers 0 for the 256 places of the interrupt controller, where
queue_tests.cpp:55 expects the capacity.

**Exceptions.**  To take an interrupt means `interrupt_taken`: the process has
exited in `enter_interrupt_mode` with the CPU in its interrupt.  Three things keep
an overflow from it, and the properties name them where they apply:

* `on_keyboard`, a CPU stuck on the keyboard: the timer goes on, the queue fills
  and requests are dropped (`RequestsFit`, `TakenInTime`, `OverflowIsTaken`,
  `IsaProgress`);
* `disconnected`: a RETURNI outside an interrupt has restored the empty backup,
  and with it null pointers.  If the overflow was waiting, the RETURNI has also
  taken out its request.  The process crashes in the next first stage
  (`TimerRequestQueued`, `TakenInTime`, `OverflowIsTaken`); `RequestsKept` says that
  nothing else takes a request out unserved, and `doc_request` shows it happen;
* `ended_off_the_array`: an access to an address past the array has ended the
  process first (`TakenInTime`, `OverflowIsTaken`).

`StoreLanded` speaks of the stores that finish: one past the array ends in the write
itself.  `SessionRefinesIsa` lets a reset clear any of the words and write no others,
so words of an earlier program may be executed: it says that the computer runs
whatever it finds, not that a reset leaves nothing to find.

**Fairness.**  `Computer!Spec` assumes `WF_vars(Next)` and nothing else: one
thread runs the loop, no call in it blocks, so as long as a step is possible one
is taken.  There is no scheduling choice that a stronger assumption could hide.
`OverflowIsTaken` and `IsaProgress` rest on it.  `IsaProgress` is the fairness of
the abstract `Isa`, a property of `Computer`: an instruction that can be executed
is, or an interrupt is taken.  `RunLoop!Spec` assumes `WF_vars(computer_run)`,
for the same reason, and `WF_vars(millisecond)`: time goes on; it is free to pass
in any step of the loop.  Nothing is assumed of the window: events come or do
not.  `stopped` makes the end of the computer's process a stuttering step, so
deadlock is checked in all its runs; only the run of `RunLoop`, which really
exits, does without.

## What is proved

The proofs assume only the named ASSUMEs: positive sizes, a memory map that fits
into a word, `Decode` yielding instructions, a queue of at least four places,
programs that are contents of the array; for `Latency` a timer period longer
than an instruction (2^32 against eight cycles), for `Session` a memory of a
multiple of four words, for `RunLoop` a tick counter that does not wrap within a
frame and two steps, for `Driver` that its program is the one loaded, that it
fits the memory below the frame buffer (23 words of 1024 and of 4096), that the
screen is the frame buffer, and that its numbers fit the fields they are written
to: a screen of less than 2^14 columns (640) and a frame buffer that starts below
2^15 (4352), and that the program's longest time fits before the timer's overflow
(`DriverInTime`: 40 508 instructions of at most nine cycles are 364 572, and
`make_timer` leaves 250 000 000).  Widths, sizes, latency, encoding, programs and timer start
are otherwise arbitrary, including the real ones.

`ComputerProofs` proves `Spec => []IInv` and from it `TypeOK`,
`BusFollowsPipeline`, `ReadyIsFresh`, `LatencyInStep`, `FetchedFromMemory`,
`LoadedFromMemory`, `TimerRequestQueued` and the three action properties
`StoreLanded`, `OnlyStoresWrite` and `RequestsKept`.  `IInv` adds to them:

* `TransactionInv`: what bus and counter hold in each phase of an iteration.
  `ReadyIsFresh` alone is not inductive: it needs that outside a transaction no
  device is selected, that inside one the selected device is the one addressed,
  and that the address is still MAR.
* `PipelineInv`: which instructions reach which stage, and the bus's mode and
  data there.  This is what excludes a store's mode during a fetch.
* `AnswerInv`: what an answered ready signal says (the word on the data lines is
  the word in the device), which carries `FetchedFromMemory` and `LoadedFromMemory`
  over the stage where the CPU takes the answer.
* `RequestInv`: before the first overflow at most one request (a TRAP's) is
  queued, and only until the next first stage, so a RETURNI finds an empty
  queue; afterwards the timer's IRQ is queued as long as the CPU has its
  controller.
* `PendingInv`: outside the first stage only the timer's IRQ waits, so a request
  that a RETURNI finds is never the scheduler's, and taking it costs the CPU its
  controller.  `RequestsKept` rests on it.
* `BackupInv`: with the debugging exit in place a CPU that runs was never in an
  interrupt and has an empty backup, so a RETURNI can only disconnect it, and then
  it runs no further stage.
* `EndInv`: the ways in which the process may have ended, which `TakenInTime` needs.

Each conjunct has a lemma `Step...` with one step per action.  Lemmas about the
operators (`WordClosed`, `BusType`, `RequestAdds`, `SourceKeeps`) come first.

`IsaProofs` proves `Spec => RefinesIsa`.  The pipeline keeps an instruction in
pieces, so `IInv` is not enough: `InFlightInv` says that from DECODE on IR is the
word at the address of the instruction in flight, also after MAR holds the
operand's address, that the latched fields are its decoding, and that MAR and MDR
are the operand's address and value.  It is inductive together with `IInv`,
because only an answered store writes memory and no other instruction is in
flight then.  `StepIsa` has a case for each stage: EXECUTE (`ExecuteTakesEffect`)
and the device that answers a store (`StoreTakesEffect`) are a step of `Isa`, a
read past the array that crashes is one (`ReadCrashes`), everything else a
stutter, a request that becomes visible or the taking of an interrupt.

`LatencyProofs` proves `TakenInTime` and `RequestsFit` from `TimedInv`.
`StartInv`, a timer without its flag has not gone below its start, is what shows
that no overflow is missed; the bound on the time after one is a potential
argument: the timer's value plus the cycles left to the next first stage (the
stage's, and what the open access still has to wait) is bounded by the length of
the longest instruction, and every iteration takes one from the one and gives it
to the other.  That the second overflow is too far away to matter
needs the bound; that no third request fits between needs the count.  The bound
is tight: TLC finds it reached.

`SessionProofs` extends both to a client that resets and loads: `ReturnsBetween`
(a step returns only in the first stage, because only EXECUTE finishes an
instruction) makes a reset start a program on a clean pipeline though it touches
neither pipeline nor bus.  Its memory is another matter: what `memory_reset` leaves
is there to be executed.  A reset does not clear the request of an overflow,
which is then taken before the next program's next instruction, and does not
reconnect a CPU that a RETURNI has cut off.

`EncodingProofs` proves that whatever register numbers and fitting numbers a macro
is given, `decode` gives them back: `FieldRead` for one field whose place no other
reaches into, `SignExtended`, and a lemma per format.  Words are sets of bits
there, so shifts and masks are set expressions.  `NumbersAreRecovered` says the
same of integers, and of numbers that do not fit too: `decode` gives the one
number of the field's range that agrees with the written one modulo the field's
size.  An integer is the sum of a word's four bytes, the top one less 256 if the
sign is set; a field of any of the five widths cuts one byte (`CutByte`), and
`ExtendedNumber` compares the two sums, of which only that byte and those above it
differ.  `IntRoundTrip`, that an int comes back from its bits, is for
`DriverProofs`.

`DriverProofs` proves what the program in main.c does, for every screen and box
that fit.  The program is one of the programs of `Computer`, so the argument
needs no pipeline: by `ImplementsIsa` every step of the computer is a stutter, an
instruction or an interrupt of `Isa`, and `ProgramInv` speaks only of what `Isa`
sees.  The words it executes are those that main.c writes, because the macros'
words decode to what was written (`DecodedAdd`, `DecodedStore` and the rest, from
`EncodingProofs`).  `ProgramInv` has four parts:

* `ControlInv`: the next instruction is one of the program, the program in memory
  is still as it was loaded, and the link register holds the way back.
* `LoadedInv`: what the initialization has put into the registers.
* `LoopInv`: the position is the one of the current row and column, which are
  read off the counters; each counter is in the range its place in the loop
  allows; and the condition codes before a branch are those of its counter.  The
  two cases of `first_drawn_column` are here: the branch for a new row leads past
  the store.
* `PictureInv`: the frame buffer is white exactly at the pixels of the rows and
  columns finished so far.

None is inductive without the others: that the branch leaves a loop at the right
time needs the codes, that the store stays in the frame buffer, and with it in
memory untouched, needs the position and the counters, and that the next word is
an instruction needs memory untouched.  A lemma `StepN` per address shows that
the instruction there keeps the invariant, from lemmas on what each kind of
instruction does (`AddStep`, `LoadStep`, `StoreStep`, ...); the geometry
(`CellInside`: every cell of the box is on the screen) is the only nonlinear
arithmetic.  `NoReadCrashes` excludes the step of `Isa` that a read past the
array allows.  `OnlyInstructionsRun`, `DrawsInsideBox` and `PictureAtHalt` follow.

It also proves `BoxFinished`: whenever the process has ended, the picture is
complete and the CPU is at HCF.  Safety is enough for that, because the timer's
overflow is what ends the process, and the timer counts in every iteration of the
loop.  The inductive invariant is `DeadlineInv`: until the overflow, the timer's
value, the cycles left to the next first stage (`cycles_left` of `Latency`) and
those of all instructions that come after (`instructions_left`, read off the
program counter and the two counters, each with the cycles of the longest) stay
below the timer's period.  The argument has four parts:

* each `StepN` shows, besides `ProgramInv`, that its instruction brings HCF nearer
  by at least one (`steps_on`); `StepAhead` carries this to the cycles of the
  pipeline, where an instruction counts as begun from FETCH1 until its effect
  (`InFlightUntilEffect`);
* within an instruction every iteration takes a cycle off `cycles_left`
  (`CpuProgress`, `DeviceProgress`, which also carry the bound of
  `LatencyProofs`), and a first stage takes the next instruction's cycles off the
  rest;
* that needs every access answered: `NotOnKeyboard` shows that fetches and loads
  go to memory and the store to the frame buffer, since the instruction in flight
  is the program's at its address (`LatchedInstruction`) and `ProgramInv` gives
  its operand;
* and nothing else may end the process: no instruction asks for an interrupt
  (`NoRequest`), and of the ways a step can end it only an interrupt is possible
  (`OnlyInterruptEnds`), so the other conjuncts of `DeadlineInv`, an empty queue
  before the overflow and HCF after it, are kept with the bound.

The bound alone is not inductive: a request would stop the CPU before the overflow,
and the overflow itself needs the bound to find the CPU at HCF.  `cycles` counts every
instruction as long as the longest, so the bound is not tight.

`RunLoopProofs` proves the loop's safety properties: `ClockInv`, that what the wrapping
counter says of the last frame is never more than the time that has passed, and
`PictureInv`, that the picture on the screen is the one in the frame buffer from
the frame to the end.

`CircularQueueProofs` proves for every capacity that the tail follows the head by
the number of elements and, with the lemmas `PutAppends` and `GetTakesHead` about
the stored values as a sequence, that every step of the circular buffer is a step
of the FIFO.

Model-checked only: the liveness properties (`OverflowIsTaken`, `IsaProgress`,
`StopsWhenTold`), since ENABLED and fairness are out of this prover's reach, and
the disagreements.  Every invariant and every safety action property that a
passing run checks is a theorem.

## Not modelled

* `prescale_tick` is in `Timer`, but no run reaches it: `make_timer` turns
  prescaling off and the timer's registers are not on the bus.
* SDL itself: setting up and closing the window (with its exits on failure) and
  what `SDL_RenderPresent` does; the event queue and the tick counter are modelled
  from how the code uses them.
* `keyboard_cycle` and `gpio.c`: they have no caller, no state of the program is
  one they have acted on.
* The branch of `run` in main.c for a fixed number of steps, which is never
  taken; dumps, the counters of cycles that are only printed, and destructors.
* Failing allocations: `calloc`'s answers are not looked at in most places, and
  all of them happen before the first cycle.

## Plan

1. *Done*: `Computer` and its parts, `CircularQueue`, their runs and proofs.
2. *Done*: `Isa`, the refinement, `Latency`, `Session`, `Encoding`, `Driver`,
   `RunLoop`, their runs and proofs.
3. *Done*: the driver's program proved on top of `Isa` (`DriverProofs`), the
   integers of `Encoding`.
4. *Done*: `BoxFinished` as a theorem, by the potential `DeadlineInv`.
5. When the debugging `exit(-1)` of `enter_interrupt_mode` goes: `Isa` with
   service routines (the PC set from the vector table, backup, nesting), and
   `BackupInv` replaced by the balance of entries and exits.  The second
   `get_interrupt_source` at cpu_ops.c:107 is the first thing such a model will show.
6. When `keyboard_cycle` is called: its action in `Computer`, `KeyboardAnswers` as
   a passing property, and the exceptions for `on_keyboard` removed.
