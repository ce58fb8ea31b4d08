------------------------------ MODULE RunLoop ------------------------------
(***************************************************************************)
(* computer_run of src/computer.c: instruction after instruction, and      *)
(* between two of them, at most 60 times a second, the screen and the      *)
(* window's events.  What an instruction does is left to Computer; here it *)
(* changes the picture, ends the process or never returns.                 *)
(***************************************************************************)
EXTENDS Keyboard

CONSTANTS
  TICKS,      \* the number of values of SDL_GetTicks, milliseconds (2^32)
  MAX_TIME_BETWEEN_FRAMES_MILLISECONDS,  \* 1000 / MAX_FPS (16)
  STEP_TIME,  \* no step of the loop takes longer, unless it never returns
  LONG,       \* the time that is followed once it does not
  PICTURES    \* what the frame buffer may hold

ASSUME RunLoopAssumption ==
  /\ TICKS \in Nat \ {0} /\ MAX_TIME_BETWEEN_FRAMES_MILLISECONDS \in Nat
  /\ STEP_TIME \in Nat \ {0} /\ LONG \in Nat
  /\ MAX_TIME_BETWEEN_FRAMES_MILLISECONDS + 2 * STEP_TIME < TICKS

VARIABLES
  at,              \* where the loop is
  ticks,           \* SDL_GetTicks()
  old_frame_time,
  elapsed,         \* the milliseconds since the last frame, as they really are
  step_time,       \* and since the loop's last step
  frame_buffer, screen

vars == <<keyboard, at, ticks, old_frame_time, elapsed, step_time,
          frame_buffer, screen>>
clock == <<ticks, old_frame_time, elapsed>>

Place == {"single_step", "frame", "input", "exited", "stuck"}

Init ==
  /\ create_keyboard /\ simulation_running = TRUE
  /\ at = "single_step"
  /\ old_frame_time = 0
  /\ ticks \in 0 .. TICKS - 1 /\ elapsed = ticks /\ step_time = 0
  /\ frame_buffer \in PICTURES /\ screen \in PICTURES

goes(from, to) == at = from /\ at' = to /\ step_time' = 0

\* An access to the keyboard never returns, an interrupt ends the process.
single_step ==
  /\ simulation_running
  /\ \/ goes("single_step", "frame") /\ frame_buffer' \in PICTURES
     \/ goes("single_step", "stuck") /\ UNCHANGED frame_buffer
     \/ goes("single_step", "exited") /\ UNCHANGED frame_buffer
  /\ UNCHANGED <<keyboard, clock, screen>>

\* Variant: the times compared instead of their difference.
frame_due_by_order ==
  old_frame_time + MAX_TIME_BETWEEN_FRAMES_MILLISECONDS < ticks

\* The difference is unsigned, so that it survives the wrap of the ticks.
frame_due ==
  MAX_TIME_BETWEEN_FRAMES_MILLISECONDS < (ticks - old_frame_time) % TICKS

graphics_draw == screen' = frame_buffer

\* Variant: frames on a fixed schedule, which a long step falls behind.
draw_frame_catches_up ==
  /\ goes("frame", "input") /\ frame_due
  /\ old_frame_time' =
       (old_frame_time + MAX_TIME_BETWEEN_FRAMES_MILLISECONDS + 1) % TICKS
  /\ elapsed' = 0
  /\ graphics_draw
  /\ UNCHANGED <<keyboard, ticks, frame_buffer>>

draw_frame ==
  /\ goes("frame", "input") /\ frame_due
  /\ old_frame_time' = ticks /\ elapsed' = 0
  /\ graphics_draw
  /\ UNCHANGED <<keyboard, ticks, frame_buffer>>

\* Variant: the events taken "at every opportunity".
no_frame_but_input ==
  /\ goes("frame", "input") /\ ~frame_due
  /\ UNCHANGED <<keyboard, clock, frame_buffer, screen>>

no_frame ==
  /\ goes("frame", "single_step") /\ ~frame_due
  /\ UNCHANGED <<keyboard, clock, frame_buffer, screen>>

\* An event that tells to stop ends input's loop, as an empty queue does.
take_event ==
  /\ at = "input" /\ input
  /\ at' = IF simulation_running' THEN "input" ELSE "single_step"
  /\ step_time' = 0
  /\ UNCHANGED <<clock, frame_buffer, screen>>

no_event ==
  /\ events = << >>
  /\ goes("input", "single_step")
  /\ UNCHANGED <<keyboard, clock, frame_buffer, screen>>

\* computer_run returns, and quit_simulation exits.
quit_simulation ==
  /\ goes("single_step", "exited") /\ ~simulation_running
  /\ UNCHANGED <<keyboard, clock, frame_buffer, screen>>

computer_run ==
  \/ single_step \/ draw_frame \/ no_frame \/ take_event \/ no_event
  \/ quit_simulation

\* Time passes, while the loop is in one of its steps.
millisecond ==
  /\ at # "exited" /\ elapsed < LONG
  /\ step_time < STEP_TIME \/ at = "stuck"
  /\ step_time' = IF at = "stuck" THEN 0 ELSE step_time + 1
  /\ ticks' = (ticks + 1) % TICKS /\ elapsed' = elapsed + 1
  /\ UNCHANGED <<keyboard, at, old_frame_time, frame_buffer, screen>>

window ==
  /\ at # "exited" /\ event_arrives
  /\ UNCHANGED <<at, clock, step_time, frame_buffer, screen>>

Next == computer_run \/ millisecond \/ window

\* The loop runs whenever it can, and time does not stand still.
Spec == Init /\ [][Next]_vars /\ WF_vars(computer_run) /\ WF_vars(millisecond)
-----------------------------------------------------------------------------
TypeOK ==
  /\ events \in Seq(SDL_Event) /\ arrived \in Nat
  /\ keycode \in 0 .. KEYCODES - 1 /\ simulation_running \in BOOLEAN
  /\ at \in Place /\ ticks \in 0 .. TICKS - 1 /\ old_frame_time \in 0 .. TICKS - 1
  /\ elapsed \in Nat /\ step_time \in 0 .. STEP_TIME
  /\ frame_buffer \in PICTURES /\ screen \in PICTURES

\* Two frames are never closer than the rate allows, not even when the tick
\* counter wraps between them (computer.c:159).
FramesApart ==
  [][at' = "input" /\ at # "input" =>
       MAX_TIME_BETWEEN_FRAMES_MILLISECONDS < elapsed]_vars

\* The simulation ends on the picture the program drew: between the last frame
\* and the event that ends it no instruction runs (computer.c:162).
LastPictureShown == ~simulation_running => screen = frame_buffer

\* Nothing but a closed window or the key q ends the simulation, whatever else
\* has the low bits of q in the keyboard's register (keyboard.c:71).
StopsOnlyWhenTold ==
  [][simulation_running /\ ~simulation_running' =>
       /\ at = "input" /\ events # << >>
       /\ \/ Head(events).type = "SDL_QUIT"
          \/ Head(events) = [type |-> "SDL_KEYDOWN", sym |-> SDLK_q]]_vars

told == \E i \in DOMAIN events : tells_to_stop(events[i])

\* Told to stop it stops: no wrap of the tick counter and no burst of other
\* events keeps the event waiting for ever, only an instruction that does not
\* return (computer.c:148).
StopsWhenTold == told ~> at \in {"exited", "stuck"}
=============================================================================
