---------------------------- MODULE ServingLease ----------------------------
(***************************************************************************)
(* What the serving buffer of the sampler promises: one snapshot, used     *)
(* either by the publisher, who may replace it, or by one pull transfer,   *)
(* which reads it and never sees it change.                                *)
(***************************************************************************)
CONSTANT Snapshots

VARIABLES
  holder,   \* who uses the buffer: "none", "publisher" or "transfer"
  snapshot  \* its content

vars == <<holder, snapshot>>

Init == holder = "none" /\ snapshot \in Snapshots

Take(h) == holder = "none" /\ holder' = h /\ UNCHANGED snapshot

Publish ==
  /\ holder = "publisher"
  /\ holder' = "none"
  /\ snapshot' \in Snapshots

EndTransfer == holder = "transfer" /\ holder' = "none" /\ UNCHANGED snapshot

Next == Take("publisher") \/ Take("transfer") \/ Publish \/ EndTransfer

Spec == Init /\ [][Next]_vars
=============================================================================
