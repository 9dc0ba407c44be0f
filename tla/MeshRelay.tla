----------------------------- MODULE MeshRelay -----------------------------
(***************************************************************************)
(* Relaying on an EdgeZ device (halow_sync_bridge.c): what the radio task  *)
(* does with a mesh frame that came straight over the air and is for       *)
(* another device.                                                         *)
(*                                                                         *)
(* The neighbours are the environment.  They deliver any frame, in any     *)
(* order and any number of times, which covers a medium that loses,        *)
(* duplicates and reorders; BATMAN changes its routes at any time.         *)
(*                                                                         *)
(* A frame that BATMAN delivered has reached its destination and is not    *)
(* relayed again (ReliableDelivery and GlobalBuffer have what becomes of   *)
(* it).                                                                    *)
(***************************************************************************)
EXTENDS Naturals, FiniteSets

CONSTANTS
  Peers,      \* neighbours, which are also the targets of frames
  Ids,        \* message keys: message id and sequence
  NoId,       \* the key of a message whose id is zero
  Hops,       \* hop counts a frame may carry
  SeenSize,   \* EDGEZ_SEEN_MESSAGE_TABLE_SIZE
  Nobody      \* no peer

VARIABLES
  seen,     \* s_seen_messages
  replace,  \* s_seen_message_replace_index
  route,    \* BATMAN's next hop to each device, or Nobody
  relayed   \* history: per message the hop of the copy relayed last, while
            \* the table remembers the message

seenVars == <<seen, replace, relayed>>
vars     == <<seenVars, route>>

Slots    == 0 .. SeenSize - 1

Free   == [slot |-> "free"]
Entry(id, hop) == [slot |-> "valid", id |-> id, best |-> hop]
NoHop  == [copy |-> "none"]
Copy(hop) == [copy |-> "relayed", hop |-> hop]

Holds(s, id) == seen[s].slot = "valid" /\ seen[s].id = id
Remembered(id) == \E s \in Slots : Holds(s, id)

\* batman_route_lookup: the next hop BATMAN knows; it follows its own routes
\* when it sends, so the frame does not carry it.
Routed(p) == route[p] # Nobody

-----------------------------------------------------------------------------
(* seen_message_drop_higher_hop *)

\* A best hop of 0 counts as unset.
Keeps(s, hop) == seen[s].best = 0 \/ hop <= seen[s].best

Remember(id, hop) ==
  /\ seen' = [seen EXCEPT ![replace] = Entry(id, hop)]
  /\ replace' = (replace + 1) % SeenSize

\* Mutant: the best hop is set once and never lowered.
Admits_KeepsFirst(id, hop) ==
  \/ id = NoId /\ UNCHANGED <<seen, replace>>
  \/ /\ id # NoId
     /\ \/ \E s \in Slots : Holds(s, id) /\ Keeps(s, hop) /\ UNCHANGED <<seen, replace>>
        \/ ~Remembered(id) /\ Remember(id, hop)

\* The copy goes on: the message has no key, or its best hop allows it, or
\* it is new and takes the place of the entry written longest ago.
Admits(id, hop) ==
  \/ id = NoId /\ UNCHANGED <<seen, replace>>
  \/ /\ id # NoId
     /\ \/ \E s \in Slots :
             /\ Holds(s, id) /\ Keeps(s, hop)
             /\ seen' = [seen EXCEPT ![s] = Entry(id, hop)]
             /\ UNCHANGED replace
        \/ ~Remembered(id) /\ Remember(id, hop)

-----------------------------------------------------------------------------
(* halow_sync_bridge_handle_rx_frame, for a frame that is not local and    *)
(* that BATMAN did not deliver.  max is the hop limit it carries.          *)

Bodies == {"message", "speed"}
Frames == [id : Ids, from : Peers, to : Peers, hop : Hops, max : Hops,
           body : Bodies]

\* The frame would go back to the neighbour it came from.
Reverses(f) == f.to = f.from \/ (Routed(f.to) /\ route[f.to] = f.from)

\* Speed frames of another version, with mode 4 or more or without a
\* transfer are dropped.
Malformed(f) == f.body = "speed" /\ f.max > 3

\* What the history keeps of the messages the table still knows.
Noted(id, hop) ==
  relayed' = [i \in Ids |->
    IF ~(\E s \in Slots : seen'[s].slot = "valid" /\ seen'[s].id = i) THEN NoHop
    ELSE IF i = id THEN Copy(hop) ELSE relayed[i]]

\* A frame with a route prefix carries its hop; a bare message counts as
\* hop 0 and its way back is not looked at.  The frame is handed to
\* halow_forward_mesh_payload, or a speed frame to voice_tx_enqueue, with one
\* hop more; a refusal changes nothing and nothing is tried again.
RelayPrefixed(f) ==
  /\ ~Malformed(f) /\ ~Reverses(f)
  /\ Admits(f.id, f.hop)
  /\ Noted(f.id, f.hop)
  /\ UNCHANGED route

RelayBare(f) ==
  /\ f.body = "message" /\ f.hop = 0
  /\ \E id \in {f.id, NoId} :
       /\ Admits(id, 0)
       /\ Noted(id, 0)
  /\ UNCHANGED route

DropPrefixed(f) ==
  /\ \/ Malformed(f) \/ Reverses(f)
     \/ \E s \in Slots : Holds(s, f.id) /\ ~Keeps(s, f.hop)
  /\ UNCHANGED vars

\* BATMAN's routing, from OGMs of the neighbours.
Reroute ==
  /\ \E p \in Peers, r \in Peers \cup {Nobody} : route' = [route EXCEPT ![p] = r]
  /\ UNCHANGED seenVars

-----------------------------------------------------------------------------
Init ==
  /\ seen = [s \in Slots |-> Free]
  /\ replace = 0
  /\ route = [p \in Peers |-> Nobody]
  /\ relayed = [i \in Ids |-> NoHop]

Next ==
  \/ \E f \in Frames : RelayPrefixed(f) \/ RelayBare(f) \/ DropPrefixed(f)
  \/ Reroute

Spec == Init /\ [][Next]_vars

-----------------------------------------------------------------------------
(* Properties *)

(* While the table remembers a message, no copy with a higher hop than the *)
(* one relayed before is relayed: late copies that went a long way round   *)
(* die out.  A copy that was relayed with hop 0 does not bind, the table   *)
(* takes its hop for unset.                                                *)
NoWorseCopy ==
  [][\A i \in Ids :
       /\ relayed[i].copy = "relayed" /\ relayed[i].hop # 0
       /\ relayed'[i].copy = "relayed"
       => relayed'[i].hop <= relayed[i].hop]_vars

=============================================================================
