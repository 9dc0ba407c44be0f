------------------------------ MODULE MCConfig ------------------------------
(***************************************************************************)
(* What a device keeps, for TLC: its settings, its scripts and its         *)
(* firmware in flash, and the counters of what it tells an OpenMANET       *)
(* network.  The modules share no variable; a behaviour runs the one of    *)
(* its turn.  A second store has room for one script only, to be full.     *)
(***************************************************************************)
EXTENDS DeviceSettings, TLC

CONSTANTS Ids, Sizes, StoreMax, Images, Size, Factory, None,
  Talkers, Channels, MacEnd, Streams, Seqs, Stamps, MaxFrames, MaxMasks,
  Primaries, Clock, Minute, Numbers, MaxTicks, MaxRecords

\* Script ids are numbers, which the index is sorted by, an upload has chunks, the
\* counters have a width, and a minute is less than the clock holds.
ASSUME ConfigAssumption ==
  /\ Ids \subseteq Nat /\ IsFiniteSet(Ids)
  /\ Sizes \subseteq Nat \ {0} /\ Size \in Nat
  /\ Seqs \in Nat \ {0} /\ Stamps \in Nat \ {0}
  /\ Clock \in Nat \ {0} /\ Minute \in 0 .. Clock
  /\ Numbers \in Nat \ {0, 1}

VARIABLES
  turn,
  upload, index, loaded, flash, blob, change, hurt,
  slots, running, boot, transfer, secured, restarting, told,
  ssrc, sequence, timestamp, talker, packets, subscribed, heard, begun, masks, sent, upsets,
  now, last, published, number, fix, work, partial, ticks, since, numbers

Store  == INSTANCE ScriptStore WITH job <- change
Small  == INSTANCE ScriptStore WITH job <- change, StoreMax <- 1
Update == INSTANCE BleUpdate
Comms  == INSTANCE OpenManet WITH
  task <- talker, air <- packets, enabled <- subscribed
Place  == INSTANCE Alfred

storeVars  == <<upload, index, loaded, flash, blob, change, hurt>>
updateVars == <<slots, running, boot, transfer, secured, restarting, told>>
commsVars  == <<ssrc, sequence, timestamp, talker, packets, subscribed, heard, begun,
                masks, sent, upsets>>
placeVars  == <<now, last, published, number, fix, work, partial, ticks, since, numbers>>

MCInit ==
  /\ turn \in {"settings", "store", "small", "update", "comms", "place"}
  /\ Init /\ Store!Init /\ Update!Init /\ Comms!Init /\ Place!Init
  /\ turn # "place" => now = 0

Turn(t) == turn = t /\ UNCHANGED turn

SettingsTurn ==
  Turn("settings") /\ Next /\ UNCHANGED <<storeVars, updateVars, commsVars, placeVars>>
StoreTurn ==
  Turn("store") /\ Store!Next /\ UNCHANGED <<vars, updateVars, commsVars, placeVars>>
SmallTurn ==
  Turn("small") /\ Small!Next /\ UNCHANGED <<vars, updateVars, commsVars, placeVars>>
UpdateTurn ==
  Turn("update") /\ Update!Next /\ UNCHANGED <<vars, storeVars, commsVars, placeVars>>
CommsTurn ==
  Turn("comms") /\ Comms!Next /\ UNCHANGED <<vars, storeVars, updateVars, placeVars>>
PlaceTurn ==
  Turn("place") /\ Place!Next /\ UNCHANGED <<vars, storeVars, updateVars, commsVars>>

MCNext ==
  SettingsTurn \/ StoreTurn \/ SmallTurn \/ UpdateTurn \/ CommsTurn \/ PlaceTurn

MCSpec == MCInit /\ [][MCNext]_<<turn, vars, storeVars, updateVars, commsVars, placeVars>>

\* The tasks that serve phones run the same code.
AnyTask == Permutations(Tasks) \cup Permutations(Talkers)

-----------------------------------------------------------------------------
(* What the modules state. *)

StoreIntact == Store!StoreIntact
DeviceBoots == Update!DeviceBoots

\* what a receiver's player and the map of the network rely on
OpenManetKept == Comms!StreamSteady /\ Place!WrapsAreHarmless
=============================================================================
