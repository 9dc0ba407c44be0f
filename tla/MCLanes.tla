------------------------------ MODULE MCLanes ------------------------------
(***************************************************************************)
(* What a device sends out on its own, for TLC: the USB frame queue and    *)
(* the mobile lane to the phone, and the beacon to the mesh.  The modules  *)
(* share no variable, so that a product of their states would only repeat  *)
(* each of them; a behaviour runs the one of its turn.                     *)
(***************************************************************************)
EXTENDS FrameQueue

CONSTANTS
  LaneDepth, WireDepth,
  Tasks, Sleeps, MaxRequests

ASSUME LanesAssumption ==
  /\ Sleeps \subseteq BOOLEAN
  /\ MaxRequests \in Nat

VARIABLES
  turn,
  outbox, wire, stream, link, delivering, receiving, quiet,
  ram, profile, ie, radio, phone, sleeps, task, notice, job, request, untold

Mobile == INSTANCE MobileLane
            WITH Depth <- LaneDepth, lane <- outbox, task <- delivering, radio <- receiving
Beacon == INSTANCE DeviceBeacon

mobileVars == <<outbox, wire, stream, link, delivering, receiving, quiet>>
beaconVars == <<ram, profile, ie, radio, phone, sleeps, task, notice, job, request, untold>>

MCInit ==
  /\ turn \in {"queue", "mobile", "beacon"}
  /\ Init /\ Mobile!Init /\ Beacon!Init
  /\ turn # "beacon" => phone = FALSE /\ sleeps = (TRUE \in Sleeps)

Turn(t) == turn = t /\ UNCHANGED turn

QueueTurn ==
  Turn("queue") /\ Next /\ UNCHANGED <<mobileVars, beaconVars>>
MobileTurn ==
  Turn("mobile") /\ Mobile!Next /\ UNCHANGED <<vars, beaconVars>>
BeaconTurn ==
  Turn("beacon") /\ Beacon!Next /\ UNCHANGED <<vars, mobileVars>>

MCNext == QueueTurn \/ MobileTurn \/ BeaconTurn

MCSpec == MCInit /\ [][MCNext]_<<turn, vars, mobileVars, beaconVars>>

-----------------------------------------------------------------------------
(* What the modules state, each under the fairness of its own module. *)

RestIsCurrent == Beacon!RestIsCurrent

FairQueueMoves == turn = "queue" /\ Fairness => QueueMoves
LaneCalms      == turn = "mobile" /\ Mobile!Fairness => Mobile!LaneCalms
=============================================================================
