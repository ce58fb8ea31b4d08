CONSTANTS
  WORDS = 16
  BOOT_ROM_SIZE = 8
  INTERRUPT_VECTOR_TABLE_SIZE = 2
  GRAPHICS_REGION_SIZE = 2
  KEYBOARD_REGION_SIZE = 1
  MEM_SIZE = 6
  MAX_CYCLES = 1
  MAX_NUM_IRQS = 4
  TIMER_VALUES = 32
  TIMER_STARTS = {1, 12, 15, 18}
  Reg <- MCReg
  Decode <- ControlDecode
  NotDecoded = NotDecoded
  HALF = 4
  BitAnd <- MCBitAnd
  BitOr <- MCBitOr
  BitXor <- MCBitXor
  PROGRAMS <- ControlPrograms
SPECIFICATION Spec
INVARIANTS
  IInv TimerRequestQueued RequestsFit InFlightInv
  TimedInv TakenInTime
PROPERTIES OverflowIsTaken RequestsKept RefinesIsa
