------------------------------- MODULE MCMesh -------------------------------
(***************************************************************************)
(* The mesh side of a device for TLC: what it relays, the path and the     *)
(* lane of its realtime frames, and the neighbours it reports.  The        *)
(* modules share no variable; a behaviour runs the one of its turn.        *)
(***************************************************************************)
EXTENDS RealtimeQueue, TLC

CONSTANTS
  Peers, Ids, NoId, Hops, SeenSize, Nobody,
  Transfers, Shared, PinSize, PinTTL,
  Devices, LeafNodes, MaxPeers, HeardFor, LinkedFor, SameFor, ReportEvery, MaxNews

ASSUME MeshAssumption ==
  /\ NoId \notin Ids
  /\ Hops \subseteq Nat /\ 0 \in Hops
  /\ SeenSize \in Nat \ {0}
  /\ Nobody \notin Peers
  /\ IsFiniteSet(Transfers)
  /\ {PinSize, PinTTL} \subseteq Nat \ {0}
  /\ IsFiniteSet(Devices) /\ Nobody \notin Devices
  /\ MaxPeers \in Nat \ {0}
  /\ {HeardFor, LinkedFor, SameFor, ReportEvery, MaxNews} \subseteq Nat

VARIABLES
  turn,
  seen, replace, relayed, route,
  path, pins, waypoint, idle, sender,
  table, linked, notified, reported, job, news, report, noted

\* Two transfers to one device, the others to another one.
MCTarget ==
  LET near == CHOOSE p \in Peers : TRUE
      far  == CHOOSE p \in Peers : p # near
  IN  [t \in Transfers |-> IF t \in Shared THEN near ELSE far]

Relay  == INSTANCE MeshRelay
Speed  == INSTANCE SpeedPath WITH route <- path, Target <- MCTarget
Near   == INSTANCE Neighbours WITH Peers <- Devices, task <- job

relayVars  == <<seen, replace, relayed, route>>
speedVars  == <<path, pins, waypoint, idle, sender>>
nearVars   == <<table, linked, notified, reported, job, news, report, noted>>

MCInit ==
  /\ turn \in {"relay", "speed", "near", "voice"}
  /\ Init /\ Relay!Init /\ Speed!Init /\ Near!Init

\* Neighbours that are admitted are alike.
MCSymmetry == Permutations(Devices \ LeafNodes)

Turn(t) == turn = t /\ UNCHANGED turn

RelayTurn ==
  /\ Turn("relay") /\ Relay!Next
  /\ UNCHANGED <<vars, speedVars, nearVars>>
SpeedTurn ==
  /\ Turn("speed") /\ Speed!Next
  /\ UNCHANGED <<vars, relayVars, nearVars>>
NearTurn ==
  /\ Turn("near") /\ Near!Next
  /\ UNCHANGED <<vars, relayVars, speedVars>>
VoiceTurn ==
  /\ Turn("voice") /\ Next
  /\ UNCHANGED <<relayVars, speedVars, nearVars>>

MCNext == RelayTurn \/ SpeedTurn \/ NearTurn \/ VoiceTurn

MCSpec == MCInit /\ [][MCNext]_<<turn, vars, relayVars, speedVars, nearVars>>

-----------------------------------------------------------------------------
(* What the modules state. *)

NoWorseCopy      == Relay!NoWorseCopy
PathPinned       == Speed!PathPinned
ReportIsTrue     == Near!ReportIsTruthful /\ Near!HeardIsReported
=============================================================================
