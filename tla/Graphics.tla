------------------------------ MODULE Graphics ------------------------------
(***************************************************************************)
(* src/graphics.c: the frame buffer on the bus.  It takes writes; a read   *)
(* is acknowledged with whatever is on the data lines.  Drawing it on the  *)
(* screen is not modelled.                                                 *)
(***************************************************************************)
EXTENDS MemoryBus

VARIABLE frame_buffer

\* Variant: the early return's || turned into &&.
graphics_selected_or_enabled ==
  bus.selected_device = "GRAPHICS_SELECTED" \/ bus.bus_active

graphics_selected ==
  bus.selected_device = "GRAPHICS_SELECTED" /\ bus.bus_active

graphics_update(pixel_address, RGBA_pixel) ==
  frame_buffer' =
    [frame_buffer EXCEPT ![pixel_address - GRAPHICS_REGION_START] = RGBA_pixel]

\* Variant: the ready signal its FIXME doubts is kept for writes only.
graphics_cycle_silent ==
  \/ /\ graphics_selected /\ bus.bus_mode = "DATA_WRITE"
     /\ graphics_update(bus.address_lines, bus.data_lines)
     /\ bus' = bus_set_device_ready(bus)
  \/ /\ ~graphics_selected \/ bus.bus_mode = "DATA_READ"
     /\ UNCHANGED <<bus, frame_buffer>>

\* Variant: it is kept for reads only.
graphics_cycle_unacknowledged ==
  \/ /\ ~graphics_selected
     /\ UNCHANGED <<bus, frame_buffer>>
  \/ /\ graphics_selected /\ bus.bus_mode = "DATA_WRITE"
     /\ graphics_update(bus.address_lines, bus.data_lines)
     /\ UNCHANGED bus
  \/ /\ graphics_selected /\ bus.bus_mode = "DATA_READ"
     /\ bus' = bus_set_device_ready(bus)
     /\ UNCHANGED frame_buffer

graphics_cycle ==
  \/ /\ ~graphics_selected
     /\ UNCHANGED <<bus, frame_buffer>>
  \/ /\ graphics_selected
     /\ bus.bus_mode = "DATA_WRITE"
     /\ graphics_update(bus.address_lines, bus.data_lines)
     /\ bus' = bus_set_device_ready(bus)
  \/ /\ graphics_selected
     /\ bus.bus_mode = "DATA_READ"
     /\ bus' = bus_set_device_ready(bus)
     /\ UNCHANGED frame_buffer
=============================================================================
