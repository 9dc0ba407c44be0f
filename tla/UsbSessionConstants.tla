------------------------- MODULE UsbSessionConstants -------------------------
(* The parameters of UsbSession, with what its proofs assume of them. *)
EXTENDS Naturals, FiniteSets

CONSTANTS
  Writers,    \* tasks that send framed records
  Loggers,    \* tasks that log
  MaxRequests,\* bound: frames of the host and timeouts
  MaxRecords, \* bound: records submitted
  MaxTexts    \* bound: log lines

ASSUME UsbSessionAssumption ==
  /\ IsFiniteSet(Writers) /\ IsFiniteSet(Loggers)
  /\ "rx" \notin Writers /\ "free" \notin Writers
  /\ {MaxRequests, MaxRecords, MaxTexts} \subseteq Nat
=============================================================================
