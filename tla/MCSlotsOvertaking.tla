------------------------- MODULE MCSlotsOvertaking -------------------------
(* Instances of SlotsOvertaking for TLC. *)
EXTENDS SlotsOvertaking, MCSlots

=============================================================================
