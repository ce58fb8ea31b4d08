------------------------------- MODULE Memory -------------------------------
(***************************************************************************)
(* src/memory.c: the RAM on the bus.  The array has MEM_SIZE words, far    *)
(* fewer than the addresses the bus sends here, and memory_get/memory_set  *)
(* check nothing.                                                          *)
(***************************************************************************)
EXTENDS MemoryBus

CONSTANT MAX_CYCLES  \* the cycles an access waits before it is served (1)

ASSUME MemoryAssumption ==
  /\ MEM_SIZE \in Nat \ {0} /\ MEM_SIZE <= WORDS
  /\ MAX_CYCLES \in Nat

VARIABLES system_memory, cycle_count

MemoryTypeOK ==
  /\ system_memory \in [Location -> Word]
  /\ cycle_count \in 0 .. MAX_CYCLES

memory_selected ==
  bus.selected_device = "MEMORY_SELECTED" /\ bus.bus_active

\* Variant: the counter runs before the test of the selected device.
memory_ignores_but_counts ==
  /\ ~memory_selected
  /\ cycle_count' = (cycle_count + 1) % (MAX_CYCLES + 1)
  /\ UNCHANGED <<bus, system_memory, process>>

\* Another device is addressed, or none.
memory_ignores ==
  /\ ~memory_selected
  /\ UNCHANGED <<bus, system_memory, cycle_count, process>>

\* Variant: the ready signal is raised on the way out of every cycle.
memory_waits_ready ==
  /\ memory_selected /\ cycle_count < MAX_CYCLES
  /\ cycle_count' = cycle_count + 1
  /\ bus' = bus_set_device_ready(bus)
  /\ UNCHANGED <<system_memory, process>>

memory_waits ==
  /\ memory_selected /\ cycle_count < MAX_CYCLES
  /\ cycle_count' = cycle_count + 1
  /\ UNCHANGED <<bus, system_memory, process>>

memory_writes ==
  /\ memory_selected /\ cycle_count = MAX_CYCLES
  /\ cycle_count' = 0
  /\ bus.bus_mode = "DATA_WRITE"
  /\ \/ /\ bus.address_lines \in Location
        /\ system_memory' =
             [system_memory EXCEPT ![bus.address_lines] = bus.data_lines]
        /\ UNCHANGED process
     \/ /\ bus.address_lines \notin Location
        /\ process' = "undefined"
        /\ UNCHANGED system_memory
  /\ bus' = bus_set_device_ready(bus)

\* A read past the array finds whatever the heap holds there, or no page.
memory_reads ==
  /\ memory_selected /\ cycle_count = MAX_CYCLES
  /\ cycle_count' = 0
  /\ bus.bus_mode = "DATA_READ"
  /\ \E value \in Word :
       /\ bus.address_lines \in Location =>
            value = system_memory[bus.address_lines]
       /\ bus' = bus_set_device_ready(bus_set_data_lines(bus, value))
  /\ \/ UNCHANGED process
     \/ bus.address_lines \notin Location /\ process' = "crashed"
  /\ UNCHANGED system_memory

memory_cycle ==
  memory_ignores \/ memory_waits \/ memory_writes \/ memory_reads
=============================================================================
