---------------------------- MODULE UpstreamWifi ----------------------------
(***************************************************************************)
(* The upstream Wi-Fi station (platform/esp32/prov.c): a settings task     *)
(* configures the driver and asks for a connection, the event task asks    *)
(* again whenever the station has started or lost its access point, and    *)
(* both go through request_wifi_sta_connect, which reads the in-flight     *)
(* flag, calls the driver and sets the flag in three steps without a lock. *)
(*                                                                         *)
(* The driver is external: a call to connect starts an attempt, an attempt *)
(* ends in an address or in a disconnect event, and events wait in the     *)
(* queue of the default event loop.                                        *)
(***************************************************************************)
EXTENDS Naturals, Sequences

CONSTANTS
    MaxEvents,      \* bound: events in the queue of the event loop
    MaxSettings     \* bound: times the phone changes the access point

VARIABLES
    inflight,   \* s_wifi_connect_inflight
    started,    \* s_upstream_wifi_started
    driver,     \* the station: "off", "idle", "connecting", "connected"
    events,     \* the event loop
    handler,    \* step of the event task
    setter,     \* step of the task that configures the station
    settings,   \* history: how often it did
    ap          \* the access point is within reach

station == <<driver, events, ap>>
vars == <<inflight, started, station, handler, setter, settings>>

Steps == {"idle", "clear", "check", "connect", "mark"}

TypeOK ==
    /\ inflight \in BOOLEAN /\ started \in BOOLEAN /\ ap \in BOOLEAN
    /\ driver \in {"off", "idle", "connecting", "connected"}
    /\ events \in Seq({"start", "lost", "address"}) /\ Len(events) <= MaxEvents + 1
    /\ handler \in Steps \cup {"got"}
    /\ setter \in Steps \cup {"start"}
    /\ settings \in 0 .. MaxSettings

Post(e) == events' = Append(events, e)
Fits    == Len(events) < MaxEvents

----------------------------------------------------------------------------
(* request_wifi_sta_connect                                                *)

\* the flag is read
Checked == IF inflight THEN "idle" ELSE "connect"

\* esp_wifi_connect: accepted when the station is idle, and answered with
\* ESP_ERR_WIFI_CONN, which counts as accepted, while an attempt runs
Calls == driver' = IF driver = "idle" THEN "connecting" ELSE driver

----------------------------------------------------------------------------
(* wifi_prov_connect_upstream_wifi                                         *)
Configure ==
    /\ setter = "idle" /\ settings < MaxSettings
    /\ setter' = "start"
    /\ settings' = settings + 1
    /\ UNCHANGED <<inflight, started, station, handler>>

\* esp_wifi_start the first time, esp_wifi_disconnect afterwards
StartOrDisconnect ==
    /\ setter = "start" /\ Fits
    /\ setter' = "clear"
    /\ started' = TRUE
    /\ driver' = "idle"
    /\ IF ~started THEN Post("start")
       ELSE IF driver = "idle" THEN UNCHANGED events
       ELSE Post("lost")
    /\ UNCHANGED <<inflight, ap, handler, settings>>

SetterClears ==
    /\ setter = "clear"
    /\ inflight' = FALSE /\ setter' = "check"
    /\ UNCHANGED <<started, station, handler, settings>>

SetterChecks ==
    /\ setter = "check"
    /\ setter' = Checked
    /\ UNCHANGED <<inflight, started, station, handler, settings>>

SetterConnects ==
    /\ setter = "connect"
    /\ Calls /\ setter' = "mark"
    /\ UNCHANGED <<inflight, started, events, ap, handler, settings>>

SetterMarks ==
    /\ setter = "mark"
    /\ inflight' = TRUE /\ setter' = "idle"
    /\ UNCHANGED <<started, station, handler, settings>>

----------------------------------------------------------------------------
(* event_handler                                                           *)

\* MUTANT: a lost station is taken for a started one, the flag stays.
Handles_NotCleared(e) == IF e = "address" THEN "got" ELSE "check"

\* a lost station clears the flag and asks again, an address only clears it
Handles(e) ==
    CASE e = "start" -> "check" [] e = "lost" -> "clear" [] e = "address" -> "got"

Event ==
    /\ handler = "idle" /\ events # <<>>
    /\ handler' = Handles(Head(events))
    /\ events' = Tail(events)
    /\ UNCHANGED <<inflight, started, driver, ap, setter, settings>>

Clears ==
    /\ handler \in {"clear", "got"}
    /\ inflight' = FALSE
    /\ handler' = IF handler = "clear" THEN "check" ELSE "idle"
    /\ UNCHANGED <<started, station, setter, settings>>

HandlerChecks ==
    /\ handler = "check"
    /\ handler' = Checked
    /\ UNCHANGED <<inflight, started, station, setter, settings>>

HandlerConnects ==
    /\ handler = "connect"
    /\ Calls /\ handler' = "mark"
    /\ UNCHANGED <<inflight, started, events, ap, setter, settings>>

HandlerMarks ==
    /\ handler = "mark"
    /\ inflight' = TRUE /\ handler' = "idle"
    /\ UNCHANGED <<started, station, setter, settings>>

----------------------------------------------------------------------------
(* The driver and the access point.                                        *)
Attempt(to, e) ==
    /\ driver = "connecting" /\ Fits
    /\ driver' = to /\ Post(e)
    /\ UNCHANGED <<inflight, started, ap, handler, setter, settings>>

Connects == ap /\ Attempt("connected", "address")
Fails    == Attempt("idle", "lost")

Loses ==
    /\ driver = "connected" /\ ~ap /\ Fits
    /\ driver' = "idle" /\ Post("lost")
    /\ UNCHANGED <<inflight, started, ap, handler, setter, settings>>

Moves ==
    /\ ap' = ~ap
    /\ UNCHANGED <<inflight, started, driver, events, handler, setter, settings>>

----------------------------------------------------------------------------
Init ==
    /\ inflight = FALSE /\ started = FALSE
    /\ driver = "off" /\ events = <<>> /\ ap \in BOOLEAN
    /\ handler = "idle" /\ setter = "idle"
    /\ settings = 0

Setter  == StartOrDisconnect \/ SetterClears \/ SetterChecks \/ SetterConnects \/ SetterMarks
Handler == Event \/ Clears \/ HandlerChecks \/ HandlerConnects \/ HandlerMarks

Next == Configure \/ Setter \/ Handler \/ Connects \/ Fails \/ Loses \/ Moves

\* both tasks run, an attempt ends, and one of ever more attempts succeeds
Fairness ==
    /\ WF_vars(Setter) /\ WF_vars(Handler)
    /\ WF_vars(Connects \/ Fails) /\ SF_vars(Connects)
    /\ WF_vars(Loses)

Spec == Init /\ [][Next]_vars /\ Fairness

----------------------------------------------------------------------------
(* A configured station whose access point stays within reach connects     *)
(* again and again, whatever it lost before, unless the settings task sets *)
(* the in-flight flag between the two steps in which the event task clears *)
(* and reads it: then the disconnect passes for a duplicate and nobody     *)
(* asks again (request_wifi_sta_connect, event_handler).                   *)
Crossed == setter = "mark" /\ handler = "check"

Reconnects ==
    ([]~Crossed /\ <>[](ap /\ started)) => []<>(driver = "connected")
=============================================================================
