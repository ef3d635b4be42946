------------------------- MODULE MCEventSettlement -------------------------
(* EventSettlement for TLC. *)
EXTENDS EventSettlement, TLC

CONSTANTS r1, r2

\* A settlement or a reversal in one slot; in the other what it may meet.
TwoSlots == (r1 :> {"void", "update", "place", "close"}) @@ (r2 :> {"resolve", "reverse"})
=============================================================================
