------------------------- MODULE MCSlotsRefinement -------------------------
(* Instances of SlotsRefinement for TLC. *)
EXTENDS SlotsRefinement, MCSlots

=============================================================================
