---------------------------- MODULE GpsReceiver ----------------------------
(***************************************************************************)
(* The optional GPS of a device (l76k_gps.c) and the tasks that configure  *)
(* it (halow_sync_bridge.c).  A phone's settings switch it on or off; the  *)
(* beacon task configures it once more in each of its passes, from the     *)
(* snapshot of the settings it took at the start of the pass.              *)
(*                                                                         *)
(* The first configuration that enables the GPS creates its task.  Nothing *)
(* guards that, so two callers may create one each, and the handle names   *)
(* the last: the other one is never notified.                              *)
(*                                                                         *)
(* The receiver is powered directly; its WAKE_UP pin decides whether it is *)
(* awake.  The sentences on its UART are reduced to what they lead to: a   *)
(* position, or none before the deadline or the end of the GPS.            *)
(***************************************************************************)
EXTENDS Naturals, FiniteSets

CONSTANTS
  Phones,      \* tasks that handle the settings of a phone
  GpsTasks,    \* tasks that may be created
  Intervals,   \* update intervals
  MaxSets,     \* bound: settings of phones
  MaxTurns     \* bound: radio starts and stops, phones that come and go

VARIABLES
  settings,    \* what s_device_settings asks of the GPS
  conf,        \* s_enabled and s_update_interval_seconds
  handle,      \* s_task, or "none"
  caller,      \* per configuring task: its point in l76k_gps_configure
  gps,         \* per GPS task: its point in gps_task
  notice,      \* GPS tasks with a pending notification
  wake,        \* WAKE_UP released: the receiver is awake
  uart,        \* the GPS task that has the UART driver, or "free"
  latest,      \* s_latest holds a valid fix
  ready,       \* HaLow is ready
  paused,      \* user-mode beacon paused: no phone is connected
  sets, turns  \* bounds

world  == <<settings, ready, paused, sets, turns>>
device == <<wake, uart, latest>>
vars   == <<world, device, conf, handle, caller, gps, notice>>

Wishes  == [on : BOOLEAN, every : Intervals]
Callers == Phones \cup {"beacon"}

At(c, where) == caller[c].at = where
Goes(c, where) == caller' = [caller EXCEPT ![c].at = where]
Returns(c) == Goes(c, "idle")
Wish(c) == caller[c].wish

-----------------------------------------------------------------------------
(* The settings and the passes of the beacon task *)

Turn == turns < MaxTurns /\ turns' = turns + 1

RadioChanges ==
  /\ Turn
  /\ ready' = ~ready
  /\ UNCHANGED <<settings, paused, sets, device, conf, handle, caller, gps, notice>>

PhonesChange ==
  /\ Turn
  /\ paused' = ~paused
  /\ UNCHANGED <<settings, ready, sets, device, conf, handle, caller, gps, notice>>

\* handle_device_settings: the snapshot is applied before the settings are
\* saved, and the GPS is configured only when they were.
Set(p, wish, saved) ==
  /\ At(p, "idle") /\ ~paused
  /\ sets < MaxSets
  /\ sets' = sets + 1
  /\ settings' = wish
  /\ caller' = IF saved THEN [caller EXCEPT ![p] = [at |-> "gate", wish |-> wish]]
               ELSE caller
  /\ UNCHANGED <<ready, paused, turns, device, conf, handle, gps, notice>>

\* A pass of device_beacon_task; its notification and its interval only
\* decide when.
BeaconPass ==
  /\ At("beacon", "idle") /\ ~paused
  /\ caller' = [caller EXCEPT !["beacon"] = [at |-> "gate", wish |-> settings]]
  /\ UNCHANGED <<world, device, conf, handle, gps, notice>>

\* device_gps_apply_if_halow_ready
Gate(c) ==
  /\ At(c, "gate")
  /\ Goes(c, IF Wish(c).on /\ ~ready THEN "idle" ELSE "check")
  /\ UNCHANGED <<world, device, conf, handle, gps, notice>>

-----------------------------------------------------------------------------
(* l76k_gps_configure *)

\* Mutant: the interval alone is compared.
Unchanged_Interval(wish) == conf.every = wish.every

Unchanged(wish) == conf = wish

Check(c) ==
  /\ At(c, "check")
  /\ Goes(c, CASE handle = "none" /\ ~Wish(c).on          -> "idle"
               [] handle = "none" /\ Wish(c).on           -> "create"
               [] handle # "none" /\ Unchanged(Wish(c))   -> "idle"
               [] handle # "none" /\ ~Unchanged(Wish(c))  -> "set")
  /\ UNCHANGED <<world, device, conf, handle, gps, notice>>

\* The pins, then the task, which may start at once.
Create(c) ==
  /\ At(c, "create")
  /\ wake' = FALSE
  /\ \E g \in GpsTasks :
       /\ gps[g] = "none"
       /\ gps' = [gps EXCEPT ![g] = "look"]
       /\ handle' = g
       /\ Goes(c, "set")
  /\ UNCHANGED <<world, uart, latest, conf, notice>>

Configure(c) ==
  /\ At(c, "set")
  /\ conf' = Wish(c)
  /\ latest' = (latest /\ Wish(c).on)
  /\ notice' = notice \cup {handle}
  /\ Returns(c)
  /\ UNCHANGED <<world, wake, uart, handle, gps>>

-----------------------------------------------------------------------------
(* gps_task *)

Moves(g, from, to) == gps[g] = from /\ gps' = [gps EXCEPT ![g] = to]
taskKept == <<world, conf, handle, caller>>

\* Disabled: standby until the next notification.  Enabled: acquire_fix
\* wakes the receiver.
Look(g) ==
  /\ Moves(g, "look", IF conf.on THEN "open" ELSE "sleep")
  /\ wake' = conf.on
  /\ UNCHANGED <<taskKept, uart, latest, notice>>

\* gps_uart_open; a driver that is installed already is an error.
Open(g) ==
  /\ uart = "free"
  /\ Moves(g, "open", "read")
  /\ uart' = g
  /\ UNCHANGED <<taskKept, wake, latest, notice>>

OpenFails(g) ==
  /\ Moves(g, "open", "missed")
  /\ wake' = FALSE
  /\ UNCHANGED <<taskKept, uart, latest, notice>>

\* The loop of acquire_fix ends with a position or without one (deadline,
\* GPS disabled, read error); the driver is removed, the receiver put to
\* standby.
Acquired(g, result) ==
  /\ Moves(g, "read", result)
  /\ uart' = "free"
  /\ wake' = FALSE

Acquire(g) ==
  /\ \E result \in {"found", "missed"} : Acquired(g, result)
  /\ UNCHANGED <<taskKept, latest, notice>>

Publish(g) ==
  /\ \/ Moves(g, "found", "rest") /\ latest' = TRUE
     \/ Moves(g, "missed", "rest") /\ latest' = FALSE
  /\ UNCHANGED <<taskKept, wake, uart, notice>>

\* ulTaskNotifyTake: with a timeout after an acquisition, without one after
\* the GPS was found disabled.
Resume(g) ==
  /\ \/ Moves(g, "rest", "look")
     \/ g \in notice /\ Moves(g, "sleep", "look")
  /\ notice' = notice \ {g}
  /\ UNCHANGED <<taskKept, device>>

GpsStep(g) ==
  Look(g) \/ Open(g) \/ OpenFails(g) \/ Acquire(g) \/ Publish(g) \/ Resume(g)

-----------------------------------------------------------------------------

Off == [on |-> FALSE, every |-> CHOOSE i \in Intervals : TRUE]

Init ==
  /\ settings = Off /\ conf = Off
  /\ handle = "none"
  /\ caller = [c \in Callers |-> [at |-> "idle", wish |-> Off]]
  /\ gps = [g \in GpsTasks |-> "none"]
  /\ notice = {}
  /\ wake = TRUE /\ uart = "free" /\ latest = FALSE
  /\ ready = FALSE /\ paused = FALSE
  /\ sets = 0 /\ turns = 0

ConfigureStep(c) == Gate(c) \/ Check(c) \/ Create(c) \/ Configure(c)

Next ==
  \/ RadioChanges \/ PhonesChange \/ BeaconPass
  \/ \E p \in Phones, wish \in Wishes, saved \in BOOLEAN : Set(p, wish, saved)
  \/ \E c \in Callers : ConfigureStep(c)
  \/ \E g \in GpsTasks : GpsStep(g)

Spec == Init /\ [][Next]_vars

\* The tasks run, the beacon task passes again and again, and every wait of
\* the GPS task with a timeout ends.
Fairness ==
  /\ WF_vars(BeaconPass)
  /\ \A c \in Callers : WF_vars(ConfigureStep(c))
  /\ \A g \in GpsTasks : WF_vars(GpsStep(g))

-----------------------------------------------------------------------------
(* Properties *)

GpsPoints == {"none", "look", "open", "read", "found", "missed", "rest", "sleep"}

TypeOK ==
  /\ settings \in Wishes /\ conf \in Wishes
  /\ handle \in GpsTasks \cup {"none"}
  /\ caller \in [Callers -> [at : {"idle", "gate", "check", "create", "set"},
                             wish : Wishes]]
  /\ gps \in [GpsTasks -> GpsPoints]
  /\ notice \subseteq GpsTasks
  /\ uart \in GpsTasks \cup {"free"}
  /\ {wake, latest, ready, paused} \subseteq BOOLEAN
  /\ sets \in 0 .. MaxSets /\ turns \in 0 .. MaxTurns

\* The GPS does what the settings ask: off, with every task asleep, the
\* receiver in standby and its UART free, or on with their interval.
AtRest ==
  /\ \A g \in GpsTasks : gps[g] \in {"none", "sleep"}
  /\ uart = "free"
  /\ handle # "none" => ~wake

Follows ==
  /\ ~settings.on => ~conf.on /\ AtRest
  /\ settings.on /\ ready => conf = settings /\ handle # "none"

\* However the configuring tasks interleave, with a stale snapshot of the
\* beacon task applied last, a save that failed, a radio not ready or two
\* tasks created: once the settings rest, the GPS ends up as they ask, as
\* long as the beacon task is not paused.
GpsFollows == <>[]Follows \/ <>[]paused
=============================================================================
