---------------------------- MODULE Conversation ----------------------------
(***************************************************************************)
(* A message from one phone to the phones of other nodes: what a node      *)
(* accepts from its phone (halow_sync_bridge_handle_to_radio), how it puts *)
(* it on the air (send_mesh_payload_internal), which handler of the other  *)
(* node the BATMAN payload reaches (halow_event_task) and what its phone   *)
(* gets (halow_sync_bridge_handle_rx_frame).                               *)
(*                                                                         *)
(* BATMAN carries a broadcast to every node and a unicast to the node that *)
(* is, or stands for, its destination; the air may lose, repeat and        *)
(* reorder, so a retry is one more delivery.  The slots of the retry table *)
(* and the window of the duplicate filter are in ReliableDelivery; what is *)
(* relayed without BATMAN is in MeshRelay.                                 *)
(***************************************************************************)
EXTENDS Naturals

CONSTANTS
  Nodes, Channels,
  Client,     \* an address that is not a node's own, or a node's
  Host,       \* the node that BATMAN reaches for it
  Headless,   \* nodes in device mode
  Forwarding, \* nodes with forwarding enabled
  MaxSends,   \* bound: messages
  MaxTurns    \* bound: subscriptions, radios started and stopped

VARIABLES
  enabled,    \* per node: the public channels subscribed to
  radio,      \* nodes whose HaLow runs
  air,        \* messages sent
  stored,     \* messages held for a retry
  told,       \* what the phones were given: node, message, subscribed or not
  sends, turns

vars == <<enabled, radio, air, stored, told, sends, turns>>

Targets == Nodes \cup Channels \cup {Client, "all"}

Crowd(to) == to \in Channels \cup {"all"}
Terminal(to) == IF to = Client THEN Host ELSE to

-----------------------------------------------------------------------------
(* Kinds of packet.  A text is a text or a recorded voice message; a chunk *)
(* and a request are of the global buffer; a call is voice in packets; a   *)
(* receipt is the acknowledgement of the other phone, with the sequence 0; *)
(* an ack is the one of the other node.  Those are NetworkPackets behind a *)
(* prefix.  A raw voice frame has the prefix only, a report has none, and  *)
(* opaque is what another firmware sends.                                  *)

Exchange  == {"request", "chunk"} \* global_buffer_packet_is_sensor_exchange
Spoken    == {"text", "call"} \cup Exchange
FromPhone == Spoken \cup {"receipt"}
Decoded   == FromPhone \cup {"ack", "report"}

\* Mutant: a message to a public channel is one to a single node.
Single_NoChannel(kind, to) == kind \in Spoken /\ to # "all"

\* reliable_packet_is_direct_unicast
Single(kind, to) == kind \in Spoken /\ ~Crowd(to)

-----------------------------------------------------------------------------
(* The sender *)

Packet(n, kind, to) == [id |-> sends + 1, kind |-> kind, from |-> n, to |-> to,
                        open |-> to \in Channels => to \in enabled[n]]

\* send_mesh_payload_internal, while the radio runs.
Transmits(n, kind, to) ==
  /\ n \in radio
  /\ sends < MaxSends /\ sends' = sends + 1
  /\ air' = air \cup {Packet(n, kind, to)}

\* A receipt goes out whatever it is addressed to; a public channel takes
\* texts only, from a subscriber.  A call goes through the realtime queue.
\* What was sent, to one node, and is retried by nobody else, is held.
Accepts(n, kind, to) ==
  kind # "receipt" /\ to \in Channels => kind = "text" /\ to \in enabled[n]

Say(n, via, kind, to) ==
  /\ via = "forward" => n \in Forwarding
  /\ Accepts(n, kind, to)
  /\ Transmits(n, kind, to)
  /\ stored' = IF Single(kind, to) /\ kind \notin {"call"} \cup Exchange
               THEN stored \cup {Packet(n, kind, to)} ELSE stored
  /\ UNCHANGED <<enabled, radio, told, turns>>

\* handle_voice_to_radio sends raw voice to any address, report_task its
\* report with the ethertype of reports to all.
SayRaw(n, to) ==
  /\ Transmits(n, "raw", to)
  /\ UNCHANGED <<enabled, radio, stored, told, turns>>

Report(n) ==
  /\ Transmits(n, "report", "all")
  /\ UNCHANGED <<enabled, radio, stored, told, turns>>

\* A payload that is no NetworkPacket.
Opaque(n, to) ==
  /\ Transmits(n, "opaque", to)
  /\ UNCHANGED <<enabled, radio, stored, told, turns>>

GiveUp(m) ==
  /\ m \in stored
  /\ stored' = stored \ {m}
  /\ UNCHANGED <<enabled, radio, air, told, sends, turns>>

-----------------------------------------------------------------------------
(* The receiver: halow_event_task and handle_rx_frame *)

\* Mutant: the subscriptions of the receiver are not looked at.
Suppressed_Never(n, m) == FALSE

\* Raw voice is handed over before the subscriptions are looked at.
Suppressed(n, m) == m.kind # "raw" /\ m.to \in Channels /\ m.to \notin enabled[n]

\* An ack is consumed, and a request is served from the global buffer.
Consumed == {"ack", "request"}

\* The phone is given the rest: voice and calls on the realtime lane, chunks
\* as media, what is not a NetworkPacket as a beacon, the others as they are.
Tells(n, m) == m.kind \notin Consumed /\ ~Suppressed(n, m)

\* send_reliable_ack: not for what is retried elsewhere, not in device mode.
Acks(n, m) ==
  Single(m.kind, m.to) /\ m.kind \notin {"call"} \cup Exchange /\ n \notin Headless

AckOf(n, m) == [id |-> m.id, kind |-> "ack", from |-> n, to |-> m.from, open |-> TRUE]

Reaches(m, n) == n # m.from /\ (Crowd(m.to) \/ Terminal(m.to) = n)

Hear(n, m) ==
  /\ Reaches(m, n) /\ n \in radio
  /\ stored' = IF m.kind = "ack" THEN {s \in stored : s.id # m.id \/ s.from # n}
               ELSE stored
  /\ air' = IF Acks(n, m) THEN air \cup {AckOf(n, m)} ELSE air
  /\ told' = IF ~Tells(n, m) THEN told ELSE
       told \cup {[node |-> n, packet |-> m,
                   open |-> m.to \in Channels => m.to \in enabled[n]]}
  /\ UNCHANGED <<enabled, radio, sends, turns>>

-----------------------------------------------------------------------------

Turn == turns < MaxTurns /\ turns' = turns + 1

\* public_channel_mask_set, with the settings of the phone
Subscribe(n, channels) ==
  /\ Turn
  /\ enabled' = [enabled EXCEPT ![n] = channels]
  /\ UNCHANGED <<radio, air, stored, told, sends>>

RadioChanges(n) ==
  /\ Turn
  /\ radio' = IF n \in radio THEN radio \ {n} ELSE radio \cup {n}
  /\ UNCHANGED <<enabled, air, stored, told, sends>>

Init ==
  /\ enabled = [n \in Nodes |-> Channels]
  /\ radio = Nodes
  /\ air = {} /\ stored = {} /\ told = {}
  /\ sends = 0 /\ turns = 0

Next ==
  \/ \E n \in Nodes, via \in {"control", "forward"}, kind \in FromPhone, to \in Targets :
       Say(n, via, kind, to)
  \/ \E n \in Nodes, to \in Targets : SayRaw(n, to) \/ Opaque(n, to)
  \/ \E n \in Nodes : Report(n) \/ RadioChanges(n)
  \/ \E m \in stored : GiveUp(m)
  \/ \E n \in Nodes, m \in air : Hear(n, m)
  \/ \E n \in Nodes, channels \in SUBSET Channels : Subscribe(n, channels)

Spec == Init /\ [][Next]_vars

-----------------------------------------------------------------------------
(* Properties *)

\* What a phone is given is for its node, for a client behind it or for all;
\* a conversation in a public channel is between subscribers, at the time
\* the one sent and at the time the other received, however long the message
\* was under way.  Receipts are outside at the sender, raw voice at both.
HeardAsAddressed ==
  \A t \in told :
    /\ ~Crowd(t.packet.to) => t.node = Terminal(t.packet.to)
    /\ t.packet.kind \in Spoken => t.packet.open
    /\ t.packet.kind # "raw" => t.open

\* What one node holds for a retry and what the other acknowledges are the
\* same messages: what is held is acknowledged by the node whose phone gets
\* it (unless that is in device mode), and nothing else is, so that a message
\* to many is not answered by all of them.
AcksMatchRetries ==
  /\ \A m \in stored, t \in told :
       t.packet = m /\ t.node \notin Headless => AckOf(t.node, m) \in air
  /\ \A a \in air : a.kind = "ack" =>
       \E m \in air : AckOf(a.from, m) = a /\ ~Crowd(m.to) /\ m.kind = "text"

ConversationKept == HeardAsAddressed /\ AcksMatchRetries

TypeOK ==
  /\ enabled \in [Nodes -> SUBSET Channels]
  /\ radio \subseteq Nodes
  /\ stored \subseteq air
  /\ {m.kind : m \in air} \subseteq Decoded \cup {"raw", "opaque"}
=============================================================================
