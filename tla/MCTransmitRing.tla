-------------------------- MODULE MCTransmitRing --------------------------
(* The transmit path on a ring that holds about one and a half frames. *)
EXTENDS TransmitRing
=============================================================================
