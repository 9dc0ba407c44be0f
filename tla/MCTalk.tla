------------------------------- MODULE MCTalk -------------------------------
(***************************************************************************)
(* What phones and devices say to each other, for TLC: the reliable        *)
(* delivery of a message, the conversation of two devices and the dialogue *)
(* of a device with its phones.  The modules share no variable; a          *)
(* behaviour runs the one of its turn.                                     *)
(***************************************************************************)
EXTENDS MCReliableDelivery

CONSTANTS
  Nodes, Channels, Client, Host, Headless, Forwarding, MaxSays, MaxTurns,
  Asked, LaneSize, MaxAsks, MaxJoins, MaxReports

\* The requests of edgez_frame_protocol_handle_frame and of the Lua interface.
ASSUME TalkAssumption ==
  Asked \subseteq {"status", "init", "beacon", "no_beacon", "place", "no_place",
                  "settings", "script", "routes", "text", "unknown", "rpc"}

\* What is retried is over before the receiver forgets it: 5 s against two
\* waits of at most 1.2 s and what the task and the radio add.
ASSUME WindowAssumption ==
  \A t \in AckTimeouts : (MaxAttempts - 1) * (t + Slack) + MaxDelay <= DedupeWindow

VARIABLES
  turn,
  enabled, radio, aloft, stored, heardBy, says, turns,
  links, active, reports, host, cable, monitor, courier, lane,
  answers, lost, asked, apart, profiled, early, crossed, joins, wakes

Chat == INSTANCE Conversation WITH
  MaxSends <- MaxSays, air <- aloft, told <- heardBy, sends <- says
Desk == INSTANCE Requests WITH told <- answers

chatVars  == <<enabled, radio, aloft, stored, heardBy, says, turns>>
deskVars  == <<links, active, reports, host, cable, monitor, courier, lane,
               answers, lost, asked, apart, profiled, early, crossed, joins, wakes>>

MCInit ==
  /\ turn \in {"delivery", "chat", "desk"}
  /\ Init /\ Chat!Init /\ Desk!Init
  /\ turn # "delivery" => deviceMode = FALSE

Turn(t) == turn = t /\ UNCHANGED turn

DeliveryTurn ==
  Turn("delivery") /\ Next /\ UNCHANGED <<chatVars, deskVars>>
ChatTurn ==
  Turn("chat") /\ Chat!Next /\ UNCHANGED <<vars, deskVars>>
DeskTurn ==
  Turn("desk") /\ Desk!Next /\ UNCHANGED <<vars, chatVars>>

MCNext == DeliveryTurn \/ ChatTurn \/ DeskTurn

MCSpec == MCInit /\ [][MCNext]_<<turn, vars, chatVars, deskVars>>

-----------------------------------------------------------------------------
(* What the modules state. *)

\* What two devices say to each other reaches whom it is for, and what a phone
\* asks its device comes back to it.
TalkKept == Chat!ConversationKept /\ Desk!DialogueKept
=============================================================================
