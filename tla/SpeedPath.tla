----------------------------- MODULE SpeedPath -----------------------------
(***************************************************************************)
(* How a speed test in mode 2 picks its waypoint (halow_sync_bridge.c).    *)
(* Mode 2 sends by exactly two radio links.  A table of pins keeps the     *)
(* frames of a transfer on one path while BATMAN changes its routes, which *)
(* it may do at any time.                                                  *)
(***************************************************************************)
EXTENDS Naturals, FiniteSets

CONSTANTS
  Peers,      \* the other devices of the mesh
  Nobody,     \* no device
  Transfers,  \* speed-test transfers of the phone
  Target,     \* the device each transfer is for
  PinSize,    \* EDGEZ_SPEED_ROUTE_PIN_TABLE_SIZE
  PinTTL      \* EDGEZ_SPEED_ROUTE_PIN_TTL_MS, in ticks

VARIABLES
  route,    \* BATMAN's best route: per target its next hop and its length
  pins,     \* s_speed_route_pins
  waypoint, \* history: per transfer the waypoint of its last frame
  idle,     \* history: per transfer the ticks since its last frame
  sender    \* history: the transfer whose frame the last step sent

vars == <<route, pins, waypoint, idle, sender>>

PinSlots == 0 .. PinSize - 1

Free == [slot |-> "free"]
Pin(t, way) == [slot |-> "valid", transfer |-> t, way |-> way, age |-> 0]

NoRoute == [next |-> Nobody, hops |-> 0]
Routes  == {NoRoute} \cup [next : Peers, hops : {1, 2}]
Direct  == {p \in Peers : route[p].hops = 1}

Pinned(i, t) == pins[i].slot = "valid" /\ pins[i].transfer = t

\* Mutant: a pin lives PinTTL after it was made, however often it is used.
Use_NotRefreshed(i, t) == pins' = pins

Use(i, t) == pins' = [pins EXCEPT ![i].age = 0]

\* speed_route_pin_put: the first free place, else the oldest pin, the last
\* of them when several are equally old.
PinsAt(i) ==
  IF \E j \in PinSlots : pins[j].slot = "free"
  THEN pins[i].slot = "free" /\ \A j \in PinSlots : pins[j].slot = "free" => i <= j
  ELSE \A j \in PinSlots : \/ pins[j].age < pins[i].age
                           \/ pins[j].age = pins[i].age /\ j <= i

\* BATMAN's first hop of a two-link route; to a direct neighbour, any other
\* direct neighbour.
Waypoints(target) ==
  {p \in Peers : route[target] = [next |-> p, hops |-> 2]} \cup
  {p \in Direct \ {target} : target \in Direct}

Leaves(t, way) ==
  /\ waypoint' = [waypoint EXCEPT ![t] = way]
  /\ idle' = [idle EXCEPT ![t] = 0]
  /\ sender' = t
  /\ UNCHANGED route

\* halow_sync_bridge_handle_speed_to_radio in mode 2.
SpeedFrame(t) ==
  \/ \E i \in PinSlots : Pinned(i, t) /\ Use(i, t) /\ Leaves(t, pins[i].way)
  \/ /\ \A i \in PinSlots : ~Pinned(i, t)
     /\ \E i \in PinSlots, way \in Waypoints(Target[t]) :
          /\ PinsAt(i)
          /\ pins' = [pins EXCEPT ![i] = Pin(t, way)]
          /\ Leaves(t, way)

\* A pin that was not used for PinTTL is gone at the next look.
Tick ==
  /\ pins' = [i \in PinSlots |->
       IF pins[i].slot = "free" THEN Free
       ELSE IF pins[i].age + 1 >= PinTTL THEN Free
       ELSE [pins[i] EXCEPT !.age = @ + 1]]
  /\ idle' = [t \in Transfers |-> IF idle[t] < PinTTL THEN idle[t] + 1 ELSE PinTTL]
  /\ sender' = Nobody
  /\ UNCHANGED <<waypoint, route>>

\* BATMAN's routing, from OGMs of the neighbours.
Reroute ==
  /\ \E p \in Peers, r \in Routes : route' = [route EXCEPT ![p] = r]
  /\ sender' = Nobody
  /\ UNCHANGED <<pins, waypoint, idle>>

-----------------------------------------------------------------------------
Init ==
  /\ route = [p \in Peers |-> NoRoute]
  /\ pins = [i \in PinSlots |-> Free]
  /\ waypoint = [t \in Transfers |-> Nobody]
  /\ idle = [t \in Transfers |-> PinTTL]
  /\ sender = Nobody

Next == (\E t \in Transfers : SpeedFrame(t)) \/ Tick \/ Reroute

Spec == Init /\ [][Next]_vars

-----------------------------------------------------------------------------
(* Properties *)

(* The transfers used at least as recently as t, itself among them.        *)
Since(t) == {u \in Transfers : idle[u] <= idle[t] /\ idle[u] < PinTTL}

(* The frames of a speed-test transfer keep to one path, whatever BATMAN   *)
(* does to its routes: the waypoint of a transfer changes only after a     *)
(* pause of PinTTL or when PinSize others were used since.                 *)
PathPinned ==
  [][\A t \in Transfers :
       /\ sender' = t
       /\ idle[t] < PinTTL
       /\ Cardinality(Since(t)) <= PinSize
       => waypoint'[t] = waypoint[t]]_vars

=============================================================================
