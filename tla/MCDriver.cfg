CONSTANTS
  WORDS = 128
  BOOT_ROM_SIZE = 32
  INTERRUPT_VECTOR_TABLE_SIZE = 4
  GRAPHICS_REGION_SIZE = 30
  KEYBOARD_REGION_SIZE = 2
  MEM_SIZE = 28
  MAX_CYCLES = 1
  MAX_NUM_IRQS = 4
  TIMER_VALUES = 4096
  TIMER_STARTS = {3000, 3717}
  Reg <- MCReg
  Decode <- DriverDecode
  NotDecoded = NotDecoded
  HALF = 16
  BitAnd <- MCBitAnd
  BitOr <- MCBitOr
  BitXor <- MCBitXor
  PROGRAMS <- DriverPrograms
  SCREEN_WIDTH = 6
  SCREEN_HEIGHT = 5
  BOX_WIDTH = 3
  BOX_HEIGHT = 2
  OVERREAD_LENGTH = 3
  OVERREAD = {0, 9}
SPECIFICATION Spec
INVARIANTS OnlyInstructionsRun DrawsInsideBox PictureAtHalt BoxFinished ProgramInv DeadlineInv
