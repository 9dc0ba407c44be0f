------------------------------ MODULE OpenManet ------------------------------
(***************************************************************************)
(* The bridge between the voice of a phone and the RTP streams of OpenMANET*)
(* (openmanet_comms.c).  A phone's frame of encoded voice, for a talkgroup *)
(* (a public channel) or for one peer, leaves in an RTP packet over        *)
(* IPv4 / UDP in a BATMAN payload; such a packet of another node goes to   *)
(* the phone with the stream it belongs to and its sequence number.        *)
(*                                                                         *)
(* The BLE host task and the USB dispatcher both send, and the sequence    *)
(* number, the timestamp and the stream's identifier are three static      *)
(* words that no lock guards.  The module has the sender, the air, which   *)
(* loses, repeats and reorders packets, and one receiver.                  *)
(***************************************************************************)
EXTENDS Naturals

CONSTANTS
  Talkers,    \* tasks that send
  Channels,   \* public channels
  MacEnd,     \* the last four bytes of the sender's MAC, as a number
  Streams,    \* what esp_random returns for a stream identifier
  Seqs,       \* sequence numbers are modulo this (2^16)
  Stamps,     \* timestamps are modulo this, in frames of 960 (2^32 / 960)
  MaxFrames,  \* bound: frames begun
  MaxMasks    \* bound: changes of the subscriptions

VARIABLES
  ssrc, sequence, timestamp, \* s_ssrc, s_sequence, s_timestamp
  task,      \* per talker: its point in send_phone_frame and what it holds
  air,       \* packets sent
  enabled,   \* channels subscribed to: at the sender, at the receiver
  heard,     \* packets the receiver gave to its phone
  begun, masks, \* bounds
  sent,      \* history: packets finished
  upsets     \* history: times a send began while another was under way

stream == <<ssrc, sequence, timestamp>>
vars   == <<stream, task, air, enabled, heard, begun, masks, sent, upsets>>

Sides == {"sender", "receiver"}
\* a frame for another peer is to the receiver one that it never hears
Places == Channels \cup {"peer"}
Zero    == 0

Idle == [at |-> "idle", to |-> "peer", id |-> 0, seq |-> 0, stamp |-> 0,
         ssrc |-> 0, alone |-> "yes", epoch |-> 0]

At(t, where) == task[t].at = where

-----------------------------------------------------------------------------
(* openmanet_comms_send_phone_frame *)

\* The task t goes on; the other statements of the step are in new.
Step(t, from, new) == At(t, from) /\ task' = [task EXCEPT ![t] = new]

Others(t) == {u \in Talkers \ {t} : ~At(u, "idle")}

\* A frame of the right form, for a channel subscribed to or for a peer with
\* a MAC of its own, while HaLow has a MAC.  Every other call is refused and
\* changes nothing.
Begin(t, to) ==
  /\ At(t, "idle") /\ begun < MaxFrames
  /\ to \in Channels => to \in enabled["sender"]
  /\ LET alone == IF Others(t) = {} THEN "yes" ELSE "no"
         epoch == upsets + (IF alone = "yes" THEN 0 ELSE 1)
     IN  /\ task' = [u \in Talkers |->
             IF u = t THEN [Idle EXCEPT !.at = "seed", !.to = to,
                                        !.alone = alone, !.epoch = epoch]
             ELSE [task[u] EXCEPT !.alone = IF At(u, "idle") THEN @ ELSE "no"]]
         /\ upsets' = epoch
  /\ begun' = begun + 1
  /\ UNCHANGED <<stream, air, enabled, heard, masks, sent>>

\* Mutant: every frame seeds the stream anew.
Seeded_Never == FALSE

\* An identifier of zero counts as none.
Seeded == ssrc # Zero

\* The first frame chooses the stream: from the MAC, at random when that
\* gives zero; then the two counters, at random.
Seed(t) ==
  /\ IF Seeded THEN Step(t, "seed", [task[t] EXCEPT !.at = "load"]) /\ UNCHANGED ssrc
     ELSE /\ Step(t, "seed", [task[t] EXCEPT !.at = "seed_counters"])
          /\ ssrc' \in IF MacEnd # Zero THEN {MacEnd} ELSE Streams
  /\ UNCHANGED <<sequence, timestamp, air, enabled, heard, begun, masks, sent, upsets>>

SeedCounters(t) ==
  /\ Step(t, "seed_counters", [task[t] EXCEPT !.at = "load"])
  /\ sequence' \in 0 .. Seqs - 1
  /\ timestamp' \in 0 .. Stamps - 1
  /\ UNCHANGED <<ssrc, air, enabled, heard, begun, masks, sent, upsets>>

\* ++s_sequence, for the IPv4 identification: a load and a store.
Load(t) ==
  /\ Step(t, "load", [task[t] EXCEPT !.at = "store", !.id = (sequence + 1) % Seqs])
  /\ UNCHANGED <<stream, air, enabled, heard, begun, masks, sent, upsets>>

Store(t) ==
  /\ Step(t, "store", [task[t] EXCEPT !.at = "header"])
  /\ sequence' = task[t].id
  /\ UNCHANGED <<ssrc, timestamp, air, enabled, heard, begun, masks, sent, upsets>>

\* The RTP header.  The number is read from memory again, or is still in a
\* register.
Header(t) ==
  /\ \E s \in {sequence, task[t].id} :
       Step(t, "header", [task[t] EXCEPT !.at = "stamp", !.seq = s,
                                         !.stamp = timestamp, !.ssrc = ssrc])
  /\ UNCHANGED <<stream, air, enabled, heard, begun, masks, sent, upsets>>

\* s_timestamp += 960, from memory or from a register; then the packet goes
\* to BATMAN, whose refusal is only returned: as a loss in the air.
Send(t) ==
  /\ At(t, "stamp")
  /\ \E s \in {timestamp, task[t].stamp} : timestamp' = (s + 1) % Stamps
  /\ sent' = sent + 1
  /\ air' = air \cup
       {[to |-> task[t].to, seq |-> task[t].seq, stamp |-> task[t].stamp,
         ssrc |-> task[t].ssrc, alone |-> task[t].alone,
         epoch |-> task[t].epoch, nth |-> sent']}
  /\ task' = [task EXCEPT ![t] = Idle]
  /\ UNCHANGED <<ssrc, sequence, enabled, heard, begun, masks, upsets>>

TalkerStep(t) ==
  Seed(t) \/ SeedCounters(t) \/ Load(t) \/ Store(t) \/ Header(t) \/ Send(t)

-----------------------------------------------------------------------------
(* The receiver *)

\* openmanet_comms_handle_frame: a talkgroup by its address and port, or any
\* packet for the peer port; a channel not subscribed to is dropped here.
Wanted(packet) ==
  \/ packet.to = "peer"
  \/ packet.to \in enabled["receiver"]

\* The phone is given the sender or the channel, the stream, the sequence
\* number and the voice.
Hear(packet) ==
  /\ Wanted(packet)
  /\ heard' = heard \cup {packet}
  /\ UNCHANGED <<stream, task, air, enabled, begun, masks, sent, upsets>>

\* Settings: public_channel_mask_set
Subscribe(d, channels) ==
  /\ masks < MaxMasks
  /\ masks' = masks + 1
  /\ enabled' = [enabled EXCEPT ![d] = channels]
  /\ UNCHANGED <<stream, task, air, heard, begun, sent, upsets>>

-----------------------------------------------------------------------------

Init ==
  /\ ssrc = Zero /\ sequence = 0 /\ timestamp = 0
  /\ task = [t \in Talkers |-> Idle]
  /\ air = {} /\ heard = {}
  /\ enabled = [d \in Sides |-> Channels]
  /\ begun = 0 /\ masks = 0 /\ sent = 0 /\ upsets = 0

Next ==
  \/ \E t \in Talkers, to \in Places : Begin(t, to)
  \/ \E t \in Talkers : TalkerStep(t)
  \/ \E packet \in air : Hear(packet)
  \/ \E d \in Sides, channels \in SUBSET Channels : Subscribe(d, channels)

Spec == Init /\ [][Next]_vars

-----------------------------------------------------------------------------
(* Properties *)

\* Sent one after the other, with no send that overlapped another between.
Undisturbed(f, g) ==
  /\ f.alone = "yes" /\ g.alone = "yes" /\ f.epoch = g.epoch
  /\ f.nth < g.nth /\ f.ssrc # Zero

\* A phone can put in order what it hears: two packets of a node that no
\* overlapping send of its two tasks separates belong to one stream, and
\* their numbers and timestamps differ by the packets sent between, whatever
\* the air lost or reordered and whatever an earlier overlap did to the
\* counters.  (An identifier that is zero by chance seeds the next packet
\* again.)
StreamSteady ==
  \A f, g \in heard : Undisturbed(f, g) =>
    LET steps == g.nth - f.nth IN
    /\ g.ssrc = f.ssrc
    /\ g.seq = (f.seq + steps) % Seqs
    /\ g.stamp = (f.stamp + steps) % Stamps

TypeOK ==
  /\ sequence \in 0 .. Seqs - 1 /\ timestamp \in 0 .. Stamps - 1
  /\ ssrc \in Streams \cup {Zero, MacEnd}
  /\ task \in [Talkers -> [at : {"idle", "seed", "seed_counters", "load", "store",
                                 "header", "stamp"},
                           to : Places, id : 0 .. Seqs - 1, seq : 0 .. Seqs - 1,
                           stamp : 0 .. Stamps - 1, ssrc : Streams \cup {Zero, MacEnd},
                           alone : {"yes", "no"}, epoch : 0 .. MaxFrames]]
  /\ heard \subseteq air
  /\ enabled \in [Sides -> SUBSET Channels]
=============================================================================
