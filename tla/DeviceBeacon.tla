---------------------------- MODULE DeviceBeacon ----------------------------
(***************************************************************************)
(* The beacon an EdgeZ device advertises (halow_sync_bridge.c, prov.c,     *)
(* halow_interface_app.cpp).                                               *)
(*                                                                         *)
(* The settings in RAM reach the air along two ways.  The task that takes  *)
(* a request puts the identity and the location into the profile and       *)
(* refreshes the radio's information element at once; the beacon task      *)
(* wakes up at its interval, or when it is notified, and does so with the  *)
(* settings and the sensor data it finds.  Both write one unlocked profile *)
(* and either may come between two steps of the other.                     *)
(*                                                                         *)
(* A value is the number of the request it stems from.                     *)
(***************************************************************************)
EXTENDS Naturals, FiniteSets

CONSTANTS
  Tasks,       \* the tasks that handle requests of the phones
  Sleeps,      \* whether the device sleeps without a phone
  MaxRequests  \* bound: requests of the phones

VARIABLES
  ram,      \* the identity and the place in s_device_settings
  profile,  \* s_halow_user_identity
  ie,       \* the information element the radio sends
  radio,    \* the radio is ready
  phone,    \* a phone is connected
  sleeps,   \* device_sleep_policy_enabled
  task,     \* the beacon task
  notice,   \* its notification
  job,      \* what each task is doing
  request,  \* requests so far
  untold    \* history: a change since the last pass that did not notify

shared == <<ram, profile, ie>>
device == <<radio, phone, sleeps>>
vars   == <<shared, device, task, notice, job, request, untold>>

Numbers == 0 .. MaxRequests
Parts(i, p) == [ident |-> i, place |-> p]
Idle    == [at |-> "idle", new |-> Parts(0, 0)]
At(t, s) == job[t].at = s
Goes(t, s) == job' = [job EXCEPT ![t].at = s]
Busy(t) == ~At(t, "idle")
TaskAt(s) == task.at = s
Steps(s)  == task' = [task EXCEPT !.at = s]

\* The beacon task pauses on a device that would sleep and has no phone.
Paused == sleeps /\ ~phone

TypeOK ==
  /\ {ram, profile, ie} \subseteq [ident : Numbers, place : Numbers]
  /\ {radio, phone, sleeps, notice} \subseteq BOOLEAN
  /\ task \in [at : {"top", "build", "ready", "put", "refresh", "wait", "rest", "paused"},
               place : Numbers]
  /\ job \in [Tasks -> [at : {"idle", "set", "put", "refresh", "tell", "place"},
                        new : [ident : Numbers, place : Numbers]]]
  /\ request \in Numbers

-----------------------------------------------------------------------------
(* Requests of the phones *)

Starts(t) ==
  /\ phone /\ ~Busy(t)
  /\ request < MaxRequests
  /\ request' = request + 1

\* handle_device_settings: the copy in RAM is replaced; the save to NVS may
\* take long and may fail.
Set(t) ==
  /\ Starts(t)
  /\ ram' = Parts(request', request')
  /\ job' = [job EXCEPT ![t] = [at |-> "put", new |-> ram']]
  /\ UNCHANGED <<profile, ie, device, task, notice, untold>>

\* device_settings_apply_identity
PutProfile(t) ==
  /\ At(t, "put")
  /\ profile' = job[t].new
  /\ Goes(t, "refresh")
  /\ UNCHANGED <<ram, ie, device, task, notice, request, untold>>

\* wifi_prov_refresh_halow_mesh_vendor_ie; it may fail, and does so without
\* a radio.
Advertise   == radio /\ ie' = profile
NotAdvertised == UNCHANGED ie

RefreshNow(t) ==
  /\ At(t, "refresh")
  /\ Advertise \/ NotAdvertised
  /\ Goes(t, "tell")
  /\ UNCHANGED <<ram, profile, device, task, notice, request, untold>>

\* Mutant: the beacon task is told nothing.
Tell_Forgotten(t) ==
  /\ At(t, "tell")
  /\ job' = [job EXCEPT ![t] = Idle]
  /\ UNCHANGED <<shared, device, task, notice, request, untold>>

\* The beacon task is notified when the settings were saved.
Tell(t) ==
  /\ At(t, "tell")
  /\ job' = [job EXCEPT ![t] = Idle]
  /\ \/ notice' = TRUE /\ UNCHANGED untold
     \/ untold' = TRUE /\ UNCHANGED notice
  /\ UNCHANGED <<shared, device, task, request>>

\* handle_location_update: the place of the profile, no refresh; a notice
\* only when the last refresh is an interval ago.
Locate(t) ==
  /\ Starts(t)
  /\ ram' = [ram EXCEPT !.place = request']
  /\ job' = [job EXCEPT ![t] = [at |-> "place", new |-> ram']]
  /\ UNCHANGED <<profile, ie, device, task, notice, untold>>

PutPlace(t) ==
  /\ At(t, "place")
  /\ profile' = [profile EXCEPT !.place = job[t].new.place]
  /\ Goes(t, "tell")
  /\ UNCHANGED <<ram, ie, device, task, notice, request, untold>>

-----------------------------------------------------------------------------
(* device_beacon_task *)

Top ==
  /\ TaskAt("top")
  /\ Steps(IF Paused THEN "paused" ELSE "build")
  /\ UNCHANGED <<shared, device, notice, job, request, untold>>

\* Paused or at rest the task takes its notice; at rest the interval ends the
\* wait as well.
Wake ==
  /\ task.at \in {"paused", "wait", "rest"}
  /\ notice \/ task.at \in {"wait", "rest"}
  /\ notice' = FALSE
  /\ Steps("top")
  /\ UNCHANGED <<shared, device, job, request, untold>>

\* device_settings_build_beacon: the place of the settings, unless the device
\* has one of its own.
Build ==
  /\ TaskAt("build")
  /\ task' = [at |-> "ready", place |-> ram.place]
  /\ untold' = FALSE
  /\ UNCHANGED <<shared, device, notice, job, request>>

\* Without a radio, or a phone where one is needed, nothing is published.
Check ==
  /\ TaskAt("ready")
  /\ Steps(IF ~radio \/ Paused THEN "wait" ELSE "put")
  /\ UNCHANGED <<shared, device, notice, job, request, untold>>

PutPublished ==
  /\ TaskAt("put")
  /\ profile' = [profile EXCEPT !.place = task.place]
  /\ Steps("refresh")
  /\ UNCHANGED <<ram, ie, device, notice, job, request, untold>>

\* Mutant: the task drops a notice that came while it published.
Publish_DropsNotice ==
  /\ TaskAt("refresh")
  /\ \/ Advertise /\ Steps("rest")
     \/ NotAdvertised /\ Steps("wait")
  /\ notice' = FALSE
  /\ UNCHANGED <<ram, profile, device, job, request, untold>>

Publish ==
  /\ TaskAt("refresh")
  /\ \/ Advertise /\ Steps("rest")
     \/ NotAdvertised /\ Steps("wait")
  /\ UNCHANGED <<ram, profile, device, notice, job, request, untold>>

-----------------------------------------------------------------------------
(* The phones and the radio *)

\* halow_sync_bridge_note_ble_connected and _usb_connected
Connection ==
  /\ \A t \in Tasks : ~Busy(t)
  /\ phone' = ~phone
  /\ notice' = TRUE
  /\ UNCHANGED <<shared, radio, sleeps, task, job, request, untold>>

\* halow_interface_app_start gives the radio the element of the profile.
RadioUp ==
  /\ ~radio
  /\ radio' = TRUE /\ ie' = profile
  /\ UNCHANGED <<ram, profile, phone, sleeps, task, notice, job, request, untold>>

RadioDown ==
  /\ radio
  /\ radio' = FALSE
  /\ UNCHANGED <<shared, phone, sleeps, task, notice, job, request, untold>>

-----------------------------------------------------------------------------
Init ==
  /\ ram = Parts(0, 0) /\ profile = Parts(0, 0) /\ ie = Parts(0, 0)
  /\ radio = FALSE /\ phone \in BOOLEAN /\ sleeps \in Sleeps
  /\ task = [at |-> "top", place |-> 0]
  /\ notice = FALSE /\ untold = FALSE
  /\ job = [t \in Tasks |-> Idle]
  /\ request = 0

Serve(t) == PutProfile(t) \/ RefreshNow(t) \/ Tell(t) \/ PutPlace(t)

BeaconTask == Top \/ Wake \/ Build \/ Check \/ PutPublished \/ Publish

Next ==
  \/ \E t \in Tasks : Set(t) \/ Locate(t) \/ Serve(t)
  \/ BeaconTask
  \/ Connection \/ RadioUp \/ RadioDown

Spec == Init /\ [][Next]_vars

-----------------------------------------------------------------------------
(* Properties *)

Quiet == \A t \in Tasks : ~Busy(t)

(* When the beacon task rests after a beacon and nothing notifies it, the   *)
(* radio advertises the place of the settings: a change that came while a  *)
(* beacon was on its way is not lost until the next interval.  Not         *)
(* notified are a change that could not be saved and a place between two   *)
(* intervals.                                                              *)
RestIsCurrent ==
  TaskAt("rest") /\ ~notice /\ Quiet /\ ~untold => ie.place = ram.place

=============================================================================
