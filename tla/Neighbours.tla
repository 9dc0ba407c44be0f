----------------------------- MODULE Neighbours -----------------------------
(***************************************************************************)
(* What an EdgeZ device knows of its neighbours and reports about them     *)
(* (halow_sync_bridge.c, prov.c): a small table of peers, written by the   *)
(* radio's event task and, for a report, also by the beacon task.          *)
(*                                                                         *)
(* Peers come and go, are heard by their beacons, by BATMAN or are linked. *)
(* Time passes in ticks; ages stop counting when they are past every       *)
(* window of the code.  Signal strengths are left out; of the sensor data   *)
(* of an entry only whose they are is kept.                                *)
(***************************************************************************)
EXTENDS Naturals, FiniteSets

CONSTANTS
  Peers,       \* other devices
  Nobody,      \* no device
  LeafNodes,   \* devices of type BEACON or SENSOR, which are not admitted
  MaxPeers,    \* EDGEZ_TOPOLOGY_MAX_PEERS
  HeardFor,    \* EDGEZ_TOPOLOGY_RECENT_MS, in ticks
  LinkedFor,   \* EDGEZ_TOPOLOGY_CONNECTED_MS
  SameFor,     \* window in which a beacon of the same peer is a duplicate
  ReportEvery, \* the beacon interval, which also spaces the reports
  MaxNews      \* bound: how often peers come, go or are heard

VARIABLES
  table,    \* s_topology_peers
  linked,   \* the peers the radio has a link with
  notified, \* the peer of the last beacon that was taken, and its age
  reported, \* the age of s_topology_report_last_broadcast_ms
  task,     \* where the two tasks stand between two sections
  news,     \* bound: what was heard so far
  report,   \* history: the list of peers made by the last step
  noted     \* history: per peer the ages of its last beacon, link and entry

vars == <<table, linked, notified, reported, task, news, report, noted>>

\* The event task of the radio takes beacons and BATMAN's news; the beacon task
\* makes a report before each beacon of its own.
Tasks == {"events", "beacon"}
Slots == 1 .. MaxPeers

\* An age stops counting when it is past what it is compared with.
Past          == IF HeardFor < LinkedFor THEN LinkedFor + 1 ELSE HeardFor + 1
Older(a, top) == IF a < top THEN a + 1 ELSE top
Aged(e) == [e EXCEPT !.seen = Older(@, Past), !.heard = Older(@, HeardFor + 1),
                     !.linked = Older(@, LinkedFor + 1)]
Free == [peer |-> Nobody, seen |-> Past, heard |-> HeardFor + 1,
         linked |-> LinkedFor + 1, data |-> Nobody]

Idle   == [at |-> "idle", peer |-> Nobody, todo |-> {}, moved |-> FALSE]
\* Between a beacon's own section and that of its data.
Senses(p) == [Idle EXCEPT !.at = "senses", !.peer = p]
\* Going through the peers the radio is linked with.
Links     == [Idle EXCEPT !.at = "links", !.todo = linked]

NoList    == [made |-> FALSE, peers |-> {}]
List(rs)  == [made |-> TRUE, peers |-> rs]

-----------------------------------------------------------------------------
(* topology_note_peer *)

First(S) == CHOOSE s \in S : \A r \in S : s <= r
Mine(tab, p) == {s \in Slots : tab[s].peer = p}

\* Mutant: in a full table always the first entry goes.
Place_FirstSlot(tab, p) ==
  IF Mine(tab, p) # {} THEN First(Mine(tab, p))
  ELSE IF Mine(tab, Nobody) # {} THEN First(Mine(tab, Nobody)) ELSE 1

\* The entry of the peer, else the first free one, else the one seen longest
\* ago, the first of them when several are equally old.
Place(tab, p) ==
  LET free == Mine(tab, Nobody) IN
    IF Mine(tab, p) # {} THEN First(Mine(tab, p))
    ELSE IF free # {} THEN First(free)
    ELSE First({s \in Slots : \A r \in Slots : tab[r].seen <= tab[s].seen})

\* Mutant: an entry that is taken over keeps what it says of its old peer.
Taken_NotCleared(e, p) == [e EXCEPT !.peer = p]

Taken(e, p) == IF e.peer = p THEN e ELSE [Free EXCEPT !.peer = p]

Heard(e, how)  == IF how = "beacon" THEN 0 ELSE e.heard
Linked(e, how) == IF how = "link" THEN 0 ELSE e.linked

Note(tab, p, how) ==
  LET s == Place(tab, p)
      e == Taken(tab[s], p)
  IN [tab EXCEPT ![s] = [peer |-> p, seen |-> 0, heard |-> Heard(e, how),
                         linked |-> Linked(e, how), data |-> e.data]]

\* topology_note_peer_sensor_data: a beacon replaces the data of its peer,
\* also by none.
Sensed(tab, p, data) ==
  [s \in Slots |-> IF s \in Mine(tab, p) THEN [tab[s] EXCEPT !.data = data] ELSE tab[s]]

\* The history does the same for each peer on its own.
Recorded(n, p, how) ==
  [n EXCEPT ![p] = [@ EXCEPT !.seen = 0, !.heard = Heard(n[p], how), !.linked = Linked(n[p], how)]]

Notes(p, how) == table' = Note(table, p, how) /\ noted' = Recorded(noted, p, how)

News == news < MaxNews /\ news' = news + 1

\* Only a direct neighbour counts as linked.
BatmanPeer(p) ==
  /\ task["events"] = Idle
  /\ News
  /\ \E how \in {"link", "far"} : Notes(p, how)
  /\ report' = NoList
  /\ UNCHANGED <<linked, notified, reported, task>>

-----------------------------------------------------------------------------
(* halow_sync_bridge_notify_beacon *)

Unnotified   == [peer |-> Nobody, age |-> SameFor]
Duplicate(p) == notified.peer = p /\ notified.age < SameFor

Beacon(p) ==
  /\ ~Duplicate(p)
  /\ News
  /\ notified' = [peer |-> p, age |-> 0]
  /\ Notes(p, "beacon")
  /\ task' = [task EXCEPT !["events"] = Senses(p)]
  /\ report' = NoList
  /\ UNCHANGED <<linked, reported>>

DuplicateBeacon(p) ==
  /\ Duplicate(p)
  /\ report' = NoList
  /\ UNCHANGED <<table, linked, notified, reported, task, noted, news>>

\* The callback of a scan does not always say whose the beacon is.
UnknownBeacon ==
  /\ task' = [task EXCEPT !["events"] = Links]
  /\ report' = NoList
  /\ UNCHANGED <<table, linked, notified, reported, noted, news>>

\* A beacon that cannot be read or whose identity is not complete.
DropBeacon ==
  /\ report' = NoList
  /\ UNCHANGED <<table, linked, notified, reported, task, noted, news>>

\* halow_notify_mesh_beacon_to_mobile
BeaconReceived(p) ==
  /\ task["events"] = Idle
  /\ Beacon(p) \/ DuplicateBeacon(p) \/ UnknownBeacon \/ DropBeacon

\* ... and then its data, which the beacon may have none of.
NoteData ==
  /\ task["events"].at = "senses"
  /\ LET p == task["events"].peer IN
       \E data \in {p, Nobody} : table' = Sensed(table, p, data)
  /\ task' = [task EXCEPT !["events"] = Links]
  /\ report' = NoList
  /\ UNCHANGED <<linked, notified, reported, noted, news>>

-----------------------------------------------------------------------------
(* halow_sync_bridge_fill_report_peers *)

\* device_beacon_task
AskReport ==
  /\ task["beacon"] = Idle
  /\ task' = [task EXCEPT !["beacon"] = Links]
  /\ report' = NoList
  /\ UNCHANGED <<table, linked, notified, reported, noted, news>>

\* The peers the radio is linked with are counted first and then asked for by
\* their index.  When one came or went, an index may mean another or none.
NoteLink(t) ==
  /\ task[t].at = "links"
  /\ \E p \in task[t].todo :
       /\ task' = [task EXCEPT ![t].todo = @ \ {p}]
       /\ \/ ~task[t].moved /\ Notes(p, "link")
          \/ task[t].moved /\ \E q \in linked : Notes(q, "link")
          \/ task[t].moved /\ UNCHANGED <<table, noted>>
  /\ report' = NoList
  /\ UNCHANGED <<linked, notified, reported, news>>

\* Mutant: a beacon counts as long as the entry was seen at all.
Fresh_Seen(e) == e.peer # Nobody /\ (e.linked <= LinkedFor \/ e.seen <= HeardFor)

Fresh(e) == e.peer # Nobody /\ (e.linked <= LinkedFor \/ e.heard <= HeardFor)

\* topology_fill_peer_sensor_data
Reported(e) == [peer |-> e.peer, data |-> e.data]

Listed(tab) == {Reported(tab[s]) : s \in {r \in Slots : Fresh(tab[r])}}

\* The event task sends its list, if there is somebody in it and the last one
\* is an interval ago (notify_topology_report).
Sent(t) == t = "events" /\ Listed(table) # {} /\ reported >= ReportEvery

ListPeers(t) ==
  /\ task[t].at = "links" /\ task[t].todo = {}
  /\ report' = List(Listed(table))
  /\ reported' = IF Sent(t) THEN 0 ELSE reported
  /\ task' = [task EXCEPT ![t] = Idle]
  /\ UNCHANGED <<table, linked, notified, noted, news>>

-----------------------------------------------------------------------------
(* The radio *)

\* halow_edgez_mesh_peer_admission_allowed: a peer that sends no EdgeZ
\* beacon, or one that cannot be read, is admitted.
Admitted(p) == p \notin LeafNodes

Moves(links) ==
  /\ News
  /\ linked' = links
  /\ task' = [t \in Tasks |-> [task[t] EXCEPT !.moved = (task[t].todo # {})]]
  /\ report' = NoList
  /\ UNCHANGED <<table, notified, reported, noted>>

Join(p)  == Admitted(p) /\ p \notin linked /\ Moves(linked \cup {p})
Leave(p) == p \in linked /\ Moves(linked \ {p})

Tick ==
  /\ table' = [s \in Slots |-> Aged(table[s])]
  /\ noted' = [p \in Peers |-> Aged(noted[p])]
  /\ notified' = IF notified.age < SameFor THEN [notified EXCEPT !.age = @ + 1] ELSE Unnotified
  /\ reported' = Older(reported, ReportEvery)
  /\ report' = NoList
  /\ UNCHANGED <<linked, task, news>>

-----------------------------------------------------------------------------
Init ==
  /\ table = [s \in Slots |-> Free]
  /\ linked = {}
  /\ notified = Unnotified
  /\ reported = ReportEvery
  /\ news = 0
  /\ task = [t \in Tasks |-> Idle]
  /\ report = NoList
  /\ noted = [p \in Peers |-> [Free EXCEPT !.peer = p]]

Next ==
  \/ \E p \in Peers : BeaconReceived(p) \/ BatmanPeer(p) \/ Join(p) \/ Leave(p)
  \/ \E t \in Tasks : NoteLink(t) \/ ListPeers(t)
  \/ NoteData \/ AskReport \/ Tick

Spec == Init /\ [][Next]_vars

-----------------------------------------------------------------------------
(* Properties *)

(* A report names only peers the radio heard or was linked with recently,  *)
(* with data of their own beacons: an entry that changes hands takes        *)
(* nothing over from its old peer, and a device known only through BATMAN   *)
(* is not reported as a neighbour.                                         *)
ReportIsTruthful ==
  \A r \in report.peers :
    /\ noted[r.peer].linked <= LinkedFor \/ noted[r.peer].heard <= HeardFor
    /\ r.data \in {r.peer, Nobody}

(* A neighbour whose link or beacon is recent is missing from a report only *)
(* when as many others as the table holds were seen since that link or      *)
(* beacon.                                                                  *)
Since(p, age) == {q \in Peers \ {p} : noted[q].seen <= age}
Counts(p, age, window) == age <= window /\ Cardinality(Since(p, age)) < MaxPeers

HeardIsReported ==
  report.made =>
    \A p \in Peers :
      Counts(p, noted[p].linked, LinkedFor) \/ Counts(p, noted[p].heard, HeardFor)
        => \E r \in report.peers : r.peer = p
=============================================================================
