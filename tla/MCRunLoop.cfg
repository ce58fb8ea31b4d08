CONSTANTS
  KEYS = {3, 7}
  SDLK_q = 3
  KEYCODES = 4
  MAX_EVENTS = 2
  TICKS = 8
  MAX_TIME_BETWEEN_FRAMES_MILLISECONDS = 2
  STEP_TIME = 2
  LONG = 16
  PICTURES = {0, 1}
SPECIFICATION Spec
CHECK_DEADLOCK FALSE
INVARIANTS TypeOK LastPictureShown
PROPERTIES FramesApart StopsOnlyWhenTold StopsWhenTold
