----------------------------- MODULE MemoryMap -----------------------------
(***************************************************************************)
(* include/memory_map.h: which device serves an address, and what the      *)
(* devices hold.  The regions are constants, the layout is the header's.   *)
(***************************************************************************)
EXTENDS Process

CONSTANTS
  BOOT_ROM_SIZE,                \* 4096
  INTERRUPT_VECTOR_TABLE_SIZE,  \* 256
  GRAPHICS_REGION_SIZE,         \* 640 * 480
  KEYBOARD_REGION_SIZE,         \* 2
  MEM_SIZE                      \* NUM_MEM_LOCATIONS of computer.c (1024)

BOOT_ROM_END == BOOT_ROM_SIZE - 1
INTERRUPT_VECTOR_TABLE_START == BOOT_ROM_END + 1
INTERRUPT_VECTOR_TABLE_END ==
  INTERRUPT_VECTOR_TABLE_START + INTERRUPT_VECTOR_TABLE_SIZE - 1
GRAPHICS_REGION_START == INTERRUPT_VECTOR_TABLE_END + 1
GRAPHICS_REGION_END == GRAPHICS_REGION_START + GRAPHICS_REGION_SIZE - 1
KEYBOARD_REGION_START == GRAPHICS_REGION_END + 1
KEYBOARD_REGION_END == KEYBOARD_REGION_START + KEYBOARD_REGION_SIZE - 1

ASSUME MemoryMapAssumption ==
  /\ BOOT_ROM_SIZE \in Nat \ {0}
  /\ INTERRUPT_VECTOR_TABLE_SIZE \in Nat \ {0}
  /\ GRAPHICS_REGION_SIZE \in Nat \ {0}
  /\ KEYBOARD_REGION_SIZE \in Nat \ {0}
  /\ KEYBOARD_REGION_END \in Word

Device == {"NO_DEVICE_SELECTED", "MEMORY_SELECTED", "GRAPHICS_SELECTED",
           "KEYBOARD_SELECTED"}

\* The memory map.  The boot ROM, the vector table and everything past the
\* keyboard are all served by the one RAM array.
DeviceAt(address) ==
  IF address \in GRAPHICS_REGION_START .. GRAPHICS_REGION_END
  THEN "GRAPHICS_SELECTED"
  ELSE IF address \in KEYBOARD_REGION_START .. KEYBOARD_REGION_END
       THEN "KEYBOARD_SELECTED"
       ELSE "MEMORY_SELECTED"

\* The words of the RAM array and of the frame buffer.
Location == 0 .. MEM_SIZE - 1
Pixel == 0 .. GRAPHICS_REGION_SIZE - 1
=============================================================================
