CONSTANTS
  QUEUE_SIZE = 4
  BYTE = 5
SPECIFICATION Spec
INVARIANT IndexInv
PROPERTY RefinesFifo
