------------------------ MODULE RealtimeQueueConstants ------------------------
(* The parameters of RealtimeQueue, with what its proofs assume of them. *)
EXTENDS Naturals, FiniteSets

CONSTANTS
  Callers,         \* tasks that enqueue
  Depth,           \* EDGEZ_REALTIME_TX_QUEUE_DEPTH
  Low, Mid, High,  \* limits of worse paths: 4, 8 and 12
  VoiceAttempts,   \* EDGEZ_VOICE_TX_MAX_ATTEMPTS
  SpeedAttempts,   \* EDGEZ_SPEED_TX_MAX_ATTEMPTS
  MaxCalls         \* bound: frames submitted

ASSUME RealtimeQueueAssumption ==
  /\ IsFiniteSet(Callers) /\ Callers # {}
  /\ {Low, Mid, High, Depth} \subseteq Nat \ {0}
  /\ Low <= Mid /\ Mid <= High /\ High <= Depth
  /\ {VoiceAttempts, SpeedAttempts} \subseteq Nat \ {0}
  /\ MaxCalls \in Nat
=============================================================================
