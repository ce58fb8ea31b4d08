----------------------------- MODULE MemoryBus -----------------------------
(***************************************************************************)
(* src/memory_bus.c: the lines between the CPU and the memory mapped       *)
(* devices.  Each bus_* function of the module is an operator on the       *)
(* struct; bus_cycle is the step the computer's loop takes.                *)
(***************************************************************************)
EXTENDS MemoryMap

VARIABLE bus

BusMode == {"DATA_READ", "DATA_WRITE"}

Bus == [address_lines : Word, data_lines : Word, bus_mode : BusMode,
        selected_device : Device, device_ready : BOOLEAN,
        bus_active : BOOLEAN]

make_memory_bus ==
  [address_lines |-> 0, data_lines |-> 0, bus_mode |-> "DATA_READ",
   selected_device |-> "NO_DEVICE_SELECTED", device_ready |-> FALSE,
   bus_active |-> FALSE]

bus_set_device_ready(b) == [b EXCEPT !.device_ready = TRUE]

\* Despite its name and its comment the function sets the signal: only the
\* bus_cycle of a disabled bus takes it away again.
bus_clear_device_ready(b) == [b EXCEPT !.device_ready = TRUE]

bus_enable(b) == [b EXCEPT !.bus_active = TRUE]

\* Variant: the slip of bus_clear_device_ready made once more.
bus_disable_enables(b) == [b EXCEPT !.bus_active = TRUE]

bus_disable(b) == [b EXCEPT !.bus_active = FALSE]

\* Variant: a read that relies on the mode the bus already has.
bus_keeps_mode(b) == b

bus_set_read_operation(b) == [b EXCEPT !.bus_mode = "DATA_READ"]
bus_set_write_operation(b) == [b EXCEPT !.bus_mode = "DATA_WRITE"]

\* Variant: an enabled bus holds its address, and the CPU enables it first.
bus_latches_address(b, addr) ==
  IF b.bus_active THEN b ELSE [b EXCEPT !.address_lines = addr]

bus_set_address_lines(b, addr) == [b EXCEPT !.address_lines = addr]
bus_set_data_lines(b, data) == [b EXCEPT !.data_lines = data]

\* Variant: an inactive bus keeps the ready signal of its last transaction.
bus_cycle_keeps_ready ==
  bus' = [bus EXCEPT !.selected_device =
            IF bus.bus_active THEN DeviceAt(bus.address_lines)
            ELSE "NO_DEVICE_SELECTED"]

bus_cycle ==
  \/ /\ ~bus.bus_active
     /\ bus' = [bus EXCEPT !.selected_device = "NO_DEVICE_SELECTED",
                           !.device_ready = FALSE]
  \/ /\ bus.bus_active
     /\ bus' = [bus EXCEPT !.selected_device = DeviceAt(bus.address_lines)]
=============================================================================
