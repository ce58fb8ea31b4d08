------------------------------ MODULE Keyboard ------------------------------
(***************************************************************************)
(* src/keyboard.c: input, which takes the window's events from SDL's queue *)
(* and keeps the code of the last key.  keyboard_cycle, the keyboard's     *)
(* side of the bus, has no caller and is left out.                         *)
(***************************************************************************)
EXTENDS Integers, Sequences

CONSTANTS
  KEYS,      \* the 32 bit codes SDL gives the keys
  SDLK_q,
  KEYCODES,  \* the number of values of a uint16_t (2^16)
  MAX_EVENTS \* the events that are followed

ASSUME KeyboardAssumption ==
  /\ KEYS \subseteq Nat /\ SDLK_q \in KEYS
  /\ KEYCODES \in Nat \ {0} /\ MAX_EVENTS \in Nat

VARIABLES
  events,              \* SDL's queue
  arrived,             \* how many events the window had so far
  keycode,
  simulation_running   \* of computer.c, "a filthy hack"

keyboard == <<events, arrived, keycode, simulation_running>>

SDL_Event == [type : {"SDL_QUIT", "SDL_WINDOWEVENT"}, sym : {0}]
             \cup [type : {"SDL_KEYDOWN"}, sym : KEYS]

create_keyboard == events = << >> /\ arrived = 0 /\ keycode = 0

\* The user and the window system, at any time.
event_arrives ==
  /\ arrived < MAX_EVENTS /\ arrived' = arrived + 1
  /\ \E e \in SDL_Event : events' = Append(events, e)
  /\ UNCHANGED <<keycode, simulation_running>>

tells_to_stop(e) ==
  e.type = "SDL_QUIT" \/ (e.type = "SDL_KEYDOWN" /\ e.sym = SDLK_q)

\* Variant: the code compared as the register has it.
input_by_keycode ==
  /\ events # << >>
  /\ events' = Tail(events)
  /\ LET e == Head(events)
     IN  /\ keycode' = IF e.type = "SDL_KEYDOWN" THEN e.sym % KEYCODES
                       ELSE keycode
         /\ simulation_running' =
              ~(e.type = "SDL_QUIT"
                \/ (e.type = "SDL_KEYDOWN" /\ keycode' = SDLK_q % KEYCODES))
  /\ UNCHANGED arrived

\* Variant: a register as wide as SDL's codes.
input_wide ==
  /\ events # << >>
  /\ events' = Tail(events)
  /\ LET e == Head(events)
     IN  /\ keycode' = IF e.type = "SDL_KEYDOWN" THEN e.sym ELSE keycode
         /\ simulation_running' = ~tells_to_stop(e)
  /\ UNCHANGED arrived

\* One round of input's loop.
input ==
  /\ events # << >>
  /\ events' = Tail(events)
  /\ LET e == Head(events)
     IN  /\ keycode' = IF e.type = "SDL_KEYDOWN" THEN e.sym % KEYCODES
                       ELSE keycode
         /\ simulation_running' = ~tells_to_stop(e)
  /\ UNCHANGED arrived
=============================================================================
