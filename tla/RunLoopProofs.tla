--------------------------- MODULE RunLoopProofs ---------------------------
(***************************************************************************)
(* The run loop for every width of the tick counter, frame rate, keyboard  *)
(* and program.                                                            *)
(***************************************************************************)
EXTENDS RunLoop, SequenceTheorems, TLAPS

(* The unsigned difference of two ticks, without the modulus. *)
since(new, old) == IF old <= new THEN new - old ELSE new - old + TICKS

(* It is what the unsigned subtraction computes. *)
LEMMA UnsignedDifference ==
  ASSUME NEW new \in 0 .. TICKS - 1, NEW old \in 0 .. TICKS - 1
  PROVE  (new - old) % TICKS = since(new, old)
BY RunLoopAssumption DEF RunLoopAssumption, since

(* The tick counter after one more millisecond. *)
LEMMA NextTick ==
  ASSUME NEW t \in 0 .. TICKS - 1
  PROVE  (t + 1) % TICKS = IF t = TICKS - 1 THEN 0 ELSE t + 1
BY RunLoopAssumption DEF RunLoopAssumption

(* The tick counter may lose turns but never gains any: what it says of the
   last frame is at most the time that has passed. *)
ClockInv == since(ticks, old_frame_time) <= elapsed

(* From the frame to the end of input's loop the picture does not change, and
   the loop is left at once when it is told to stop. *)
PictureInv ==
  /\ at = "input" => screen = frame_buffer
  /\ ~simulation_running =>
       screen = frame_buffer /\ at \in {"single_step", "exited"}

LoopInv == TypeOK /\ ClockInv /\ PictureInv

(* A round of input leaves the queue events and the register a key code. *)
LEMMA InputType ==
  ASSUME TypeOK, input
  PROVE  /\ events' \in Seq(SDL_Event) /\ arrived' = arrived
         /\ keycode' \in 0 .. KEYCODES - 1 /\ simulation_running' \in BOOLEAN
<1>1. Head(events) \in SDL_Event /\ Tail(events) \in Seq(SDL_Event)
  BY HeadTailProperties DEF TypeOK, input
<1>2. ASSUME NEW e \in SDL_Event, e.type = "SDL_KEYDOWN"
      PROVE  e.sym % KEYCODES \in 0 .. KEYCODES - 1
  <2>1. e.sym \in Nat /\ KEYCODES \in Nat \ {0}
    BY <1>2, KeyboardAssumption DEF KeyboardAssumption, SDL_Event
  <2> QED BY <2>1
<1> QED BY <1>1, <1>2 DEF TypeOK, input, tells_to_stop

(* The loop starts with the invariant. *)
LEMMA InitialLoop == Init => LoopInv
<1> SUFFICES ASSUME Init PROVE LoopInv
  OBVIOUS
<1>1. events \in Seq(SDL_Event) /\ arrived \in Nat
      /\ keycode \in 0 .. KEYCODES - 1 /\ simulation_running = TRUE
  BY KeyboardAssumption, EmptySeq
  DEF Init, create_keyboard, KeyboardAssumption
<1>2. at = "single_step" /\ ticks \in 0 .. TICKS - 1 /\ elapsed = ticks
      /\ old_frame_time = 0 /\ step_time = 0
  BY DEF Init
<1>3. TypeOK
  BY <1>1, <1>2, RunLoopAssumption
  DEF Init, RunLoopAssumption, TypeOK, Place
<1>4. ClockInv
  BY <1>2, RunLoopAssumption DEF RunLoopAssumption, ClockInv, since
<1> QED BY <1>1, <1>2, <1>3, <1>4 DEF LoopInv, PictureInv

(* Every step of the loop, of the clock and of the window keeps it. *)
LEMMA StepLoop == LoopInv /\ [Next]_vars => LoopInv'
<1> SUFFICES ASSUME LoopInv, [Next]_vars PROVE LoopInv'
  OBVIOUS
<1> USE RunLoopAssumption DEF LoopInv, RunLoopAssumption
<1>1. CASE single_step
  BY <1>1
  DEF single_step, goes, keyboard, clock, TypeOK, Place, ClockInv, PictureInv
<1>2. CASE draw_frame
  <2>1. since(ticks, ticks) = 0
    BY DEF TypeOK, since
  <2> QED
    BY <1>2, <2>1
    DEF draw_frame, graphics_draw, goes, keyboard, TypeOK, Place, ClockInv,
        PictureInv
<1>3. CASE no_frame
  BY <1>3
  DEF no_frame, goes, keyboard, clock, TypeOK, Place, ClockInv, PictureInv
<1>4. CASE take_event
  <2>1. UNCHANGED <<clock, frame_buffer, screen>> /\ step_time' = 0
        /\ at = "input"
        /\ at' = IF simulation_running' THEN "input" ELSE "single_step"
    BY <1>4 DEF take_event
  <2>2. TypeOK'
    BY <1>4, <2>1, InputType DEF take_event, TypeOK, Place, clock
  <2>3. ClockInv' /\ PictureInv'
    BY <2>1 DEF clock, ClockInv, PictureInv
  <2> QED BY <2>2, <2>3
<1>5. CASE no_event
  BY <1>5
  DEF no_event, goes, keyboard, clock, TypeOK, Place, ClockInv, PictureInv
<1>6. CASE quit_simulation
  BY <1>6
  DEF quit_simulation, goes, keyboard, clock, TypeOK, Place, ClockInv,
      PictureInv
<1>7. CASE millisecond
  <2>1. /\ ticks' = IF ticks = TICKS - 1 THEN 0 ELSE ticks + 1
        /\ elapsed' = elapsed + 1
        /\ UNCHANGED <<keyboard, at, old_frame_time, frame_buffer, screen>>
        /\ step_time' \in 0 .. STEP_TIME
    BY <1>7, NextTick DEF millisecond, TypeOK
  <2>2. TypeOK'
    BY <2>1 DEF TypeOK, keyboard
  <2>3. ClockInv'
    BY <2>1 DEF TypeOK, ClockInv, since
  <2>4. PictureInv'
    BY <2>1 DEF PictureInv, keyboard
  <2> QED BY <2>2, <2>3, <2>4
<1>8. CASE window
  <2>1. /\ events' \in Seq(SDL_Event) /\ arrived' \in Nat
        /\ UNCHANGED <<keycode, simulation_running>>
    BY <1>8, AppendProperties DEF window, event_arrives, TypeOK
  <2>2. UNCHANGED <<at, clock, step_time, frame_buffer, screen>>
    BY <1>8 DEF window
  <2> QED BY <2>1, <2>2 DEF clock, TypeOK, ClockInv, PictureInv
<1>9. CASE UNCHANGED vars
  BY <1>9 DEF vars, keyboard, TypeOK, ClockInv, PictureInv
<1> QED
  BY <1>1, <1>2, <1>3, <1>4, <1>5, <1>6, <1>7, <1>8, <1>9
  DEF Next, computer_run
-----------------------------------------------------------------------------
(* What the loop promises, for every value of the constants. *)

(* The clock never runs ahead of the time, and no instruction runs between a
   frame and the end of its events (computer.c:158-164). *)
THEOREM LoopInvariant == Spec => []LoopInv
BY InitialLoop, StepLoop, PTL DEF Spec

(* The loop's variables keep their types; the key's code its 16 bits
   (keyboard.c:71). *)
THEOREM LoopTypes == Spec => []TypeOK
<1>1. LoopInv => TypeOK
  BY DEF LoopInv
<1> QED BY <1>1, LoopInvariant, PTL

(* The simulation ends on the picture the program drew (computer.c:162). *)
THEOREM EndsOnThePicture == Spec => []LastPictureShown
<1>1. LoopInv => LastPictureShown
  BY DEF LoopInv, PictureInv, LastPictureShown
<1> QED BY <1>1, LoopInvariant, PTL

(* Frames keep their distance through every wrap of the tick counter, however
   long a step takes (computer.c:159). *)
THEOREM FramesKeepApart == Spec => FramesApart
<1>1. ASSUME LoopInv, [Next]_vars, at' = "input", at # "input"
      PROVE  MAX_TIME_BETWEEN_FRAMES_MILLISECONDS < elapsed
  <2>1. draw_frame
    BY <1>1
    DEF Next, computer_run, single_step, no_frame, take_event, no_event,
        quit_simulation, millisecond, window, goes, vars
  <2>2. MAX_TIME_BETWEEN_FRAMES_MILLISECONDS < since(ticks, old_frame_time)
    BY <1>1, <2>1, UnsignedDifference
    DEF draw_frame, graphics_draw, frame_due, LoopInv, TypeOK
  <2> QED
    BY <1>1, <2>2, RunLoopAssumption
    DEF LoopInv, TypeOK, ClockInv, since, RunLoopAssumption
<1>2. LoopInv /\ [Next]_vars
        => [at' = "input" /\ at # "input" =>
              MAX_TIME_BETWEEN_FRAMES_MILLISECONDS < elapsed]_vars
  BY <1>1
<1> QED BY <1>2, LoopInvariant, PTL DEF Spec, FramesApart

(* No key but q ends the simulation, whatever its low 16 bits are
   (keyboard.c:71). *)
THEOREM OnlyToldStops == Spec => StopsOnlyWhenTold
<1> DEFINE Told ==
      simulation_running /\ ~simulation_running' =>
        /\ at = "input" /\ events # << >>
        /\ \/ Head(events).type = "SDL_QUIT"
           \/ Head(events) = [type |-> "SDL_KEYDOWN", sym |-> SDLK_q]
<1>1. ASSUME LoopInv, [Next]_vars, simulation_running, ~simulation_running'
      PROVE  /\ at = "input" /\ events # << >>
             /\ \/ Head(events).type = "SDL_QUIT"
                \/ Head(events) = [type |-> "SDL_KEYDOWN", sym |-> SDLK_q]
  <2>1. take_event
    BY <1>1
    DEF Next, computer_run, single_step, draw_frame, graphics_draw, no_frame,
        no_event, quit_simulation, millisecond, window, event_arrives, goes, keyboard,
        vars
  <2>2. at = "input" /\ events # << >> /\ tells_to_stop(Head(events))
    BY <1>1, <2>1 DEF take_event, input
  <2>3. Head(events) \in SDL_Event
    BY <1>1, <2>2, HeadTailProperties DEF LoopInv, TypeOK
  <2>4. ASSUME NEW e \in SDL_Event, tells_to_stop(e)
        PROVE  \/ e.type = "SDL_QUIT"
               \/ e = [type |-> "SDL_KEYDOWN", sym |-> SDLK_q]
    BY <2>4 DEF SDL_Event, tells_to_stop
  <2> QED BY <2>2, <2>3, <2>4
<1>2. LoopInv /\ [Next]_vars => [Told]_vars
  BY <1>1
<1> QED BY <1>2, LoopInvariant, PTL DEF Spec, StopsOnlyWhenTold
=============================================================================
