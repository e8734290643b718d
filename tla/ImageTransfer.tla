---------------------------- MODULE ImageTransfer ----------------------------
(***************************************************************************)
(* What an upload is for: one image at a time reaches the device, piece    *)
(* after piece, and is run only when it is complete.  Hosts, frames,       *)
(* retries and timeouts do not appear here.                                *)
(***************************************************************************)
EXTENDS Naturals, Sequences

CONSTANTS Images, Nothing

VARIABLES phase, source, data

vars == <<phase, source, data>>

NextPiece == [of |-> source, at |-> Len(data), enc |-> "inflated"]

Init == phase = "none" /\ source = Nothing /\ data = << >>

Begin(g) ==
  /\ phase = "none"
  /\ phase' = "loading"
  /\ source' = g
  /\ data' = << >>

Deliver ==
  /\ phase = "loading"
  /\ Len(data) < source.count
  /\ data' = Append(data, NextPiece)
  /\ phase' = IF Len(data) + 1 = source.count THEN "ready" ELSE "loading"
  /\ UNCHANGED source

Run == phase = "ready" /\ phase' = "running" /\ UNCHANGED <<source, data>>

Abandon == phase' = "none" /\ source' = Nothing /\ data' = << >>

Next == (\E g \in Images : Begin(g)) \/ Deliver \/ Run \/ Abandon

Spec == Init /\ [][Next]_vars
=============================================================================
