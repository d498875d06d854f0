------------------------- MODULE MCRealtimeDelivery -------------------------
(* The instance of RealtimeDelivery for TLC: its constants are numbers.     *)
EXTENDS RealtimeDelivery
=============================================================================
