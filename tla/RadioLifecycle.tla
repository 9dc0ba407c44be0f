--------------------------- MODULE RadioLifecycle ---------------------------
(***************************************************************************)
(* Starting and stopping the HaLow radio (halow_interface_app.cpp, prov.c, *)
(* the INIT request of halow_sync_bridge.c).                               *)
(*                                                                         *)
(* A phone on BLE and a phone on USB may each ask for a profile, and the   *)
(* power task shuts the radio down.  The profile is put together in        *)
(* unlocked variables of prov.c and given to the radio under a mutex.      *)
(* The radio may refuse a profile.                                         *)
(*                                                                         *)
(* A profile has two parts: the country, with all that is set along with   *)
(* it, and the mesh with its passphrase.  The radio's own tasks and the    *)
(* frames it carries are not part of this module.                          *)
(***************************************************************************)
EXTENDS Naturals, FiniteSets

CONSTANTS
  Phones,    \* the tasks that handle INIT requests
  Boot,      \* the task that starts an autonomous device
  Power,     \* the task that shuts the radio down
  Profiles,  \* what a phone may ask for
  None       \* no country, no profile, nobody

ASSUME RadioAssumption ==
  /\ Boot \notin Phones /\ Power \notin Phones /\ Boot # Power
  /\ None \notin Phones \cup {Boot, Power} \cup Profiles

VARIABLES
  country,  \* s_halow_country_code, with the radio hint and the identity
  mesh,     \* s_active_halow_ssid and _password
  stored,   \* s_country_code, s_mesh_id, ...: the profile given last
  running,  \* the profile the radio runs
  started,  \* s_halow_started
  ready,    \* HALOW_ADAPTER_READY_BIT
  lock,     \* s_lifecycle_mutex
  job,      \* what each task is doing
  crossed,  \* history: tasks whose request overlapped with another
  broken    \* history: a profile was refused since the radio came up last

radioVars == <<stored, running, started, ready>>
provVars  == <<country, mesh>>
history   == <<crossed, broken>>
vars      == <<radioVars, provVars, lock, job, history>>

Starters == Phones \cup {Boot}
Parts    == Profiles \cup {None}
Profile(c, n) == [country |-> c, mesh |-> n]
NoProfile == Profile(None, None)
Idle     == [at |-> "idle", by |-> "init", want |-> None, cfg |-> NoProfile, same |-> FALSE]
At(t, s) == job[t].at = s
Goes(t, s) == job' = [job EXCEPT ![t].at = s]
Others(t)  == {u \in Starters \ {t} : ~At(u, "idle")}

Stages == {"idle", "early", "adopt", "gather", "lock", "compare",
           "bring", "mark", "ok", "failed", "halt", "clear"}

TypeOK ==
  /\ country \in Parts /\ mesh \in Parts
  /\ {stored, running} \subseteq [country : Parts, mesh : Parts]
  /\ started \in BOOLEAN /\ ready \in BOOLEAN /\ broken \in BOOLEAN
  /\ lock \in Starters \cup {Power, None}
  /\ crossed \subseteq Starters
  /\ job \in [Starters \cup {Power} ->
       [at : Stages, by : {"init", "settings"}, want : Parts, cfg : [country : Parts, mesh : Parts], same : BOOLEAN]]

-----------------------------------------------------------------------------
(* Putting a profile together *)

\* handle_halow_init_config
Ask(t, p) ==
  /\ At(t, "idle")
  /\ job' = [job EXCEPT ![t] = [Idle EXCEPT !.at = "early", !.want = p]]
  /\ crossed' = IF Others(t) # {} THEN crossed \cup {t} \cup Others(t) ELSE crossed
  /\ UNCHANGED <<radioVars, provVars, lock, broken>>

\* device_mode_start_halow_from_settings, at boot and when the settings change:
\* the country stays as it is.  A device that is not autonomous does nothing.
AutoStart(p) == [Idle EXCEPT !.at = "adopt", !.by = "settings", !.want = p]

ChangeSettings(t, p) ==
  /\ At(t, "idle")
  /\ job' = [job EXCEPT ![t] = AutoStart(p)]
  /\ crossed' = IF Others(t) # {} THEN crossed \cup {t} \cup Others(t) ELSE crossed
  /\ UNCHANGED <<radioVars, provVars, lock, broken>>

\* wifi_prov_set_halow_country_code, _max_hop, _mesh_radio, _user_identity
\* and _beacon_profile.
SetEarly(t) ==
  /\ At(t, "early")
  /\ country' = job[t].want
  /\ Goes(t, "adopt")
  /\ UNCHANGED <<radioVars, mesh, lock, history>>

\* A country or a radio that is not valid.
Refuse(t) ==
  /\ At(t, "early")
  /\ job' = [job EXCEPT ![t] = Idle]
  /\ crossed' = crossed \ {t}
  /\ UNCHANGED <<radioVars, provVars, lock, broken>>

\* wifi_prov_start_halow_profile; the country must be configured.
Adopt(t) ==
  /\ At(t, "adopt")
  /\ IF country = None
     THEN job' = [job EXCEPT ![t] = Idle] /\ crossed' = crossed \ {t} /\ UNCHANGED mesh
     ELSE Goes(t, "gather") /\ mesh' = job[t].want /\ UNCHANGED crossed
  /\ UNCHANGED <<radioVars, country, lock, broken>>

\* The parts are read again: another task may have set them meanwhile.
Gather(t) ==
  /\ At(t, "gather")
  /\ job' = [job EXCEPT ![t].at = "lock", ![t].cfg = Profile(country, mesh)]
  /\ UNCHANGED <<radioVars, provVars, lock, history>>

-----------------------------------------------------------------------------
(* halow_interface_app_start *)

Take(t, s) ==
  /\ lock = None
  /\ lock' = t
  /\ Goes(t, s)
  /\ UNCHANGED <<radioVars, provVars, history>>

Lock(t) == At(t, "lock") /\ Take(t, "compare")

\* Mutant: the country is not compared.
Same_MeshOnly(t) == started /\ stored.mesh = job[t].cfg.mesh

Same(t) == started /\ stored = job[t].cfg

\* A radio that runs the profile only gets the new identity.
Refresh(t) ==
  /\ At(t, "compare") /\ Same(t)
  /\ ready' = TRUE
  /\ job' = [job EXCEPT ![t].at = "ok", ![t].same = TRUE]
  /\ UNCHANGED <<stored, running, started, provVars, lock, history>>

\* The profile is stored; then halow_build_edgez_mesh_vendor_ie or
\* setMeshVendorIes may fail.
Store(t) ==
  /\ At(t, "compare") /\ ~Same(t)
  /\ stored' = job[t].cfg
  /\ \/ Goes(t, "bring") /\ UNCHANGED broken
     \/ Goes(t, "failed") /\ broken' = TRUE
  /\ UNCHANGED <<running, started, ready, provVars, lock, crossed>>

\* reconfigure or init
BringUp(t) ==
  /\ At(t, "bring")
  /\ running' = stored
  /\ started' = TRUE
  /\ broken' = FALSE
  /\ Goes(t, "mark")
  /\ UNCHANGED <<stored, ready, provVars, lock, crossed>>

\* A failed reconfigure leaves what runs as it was or stops it.
BringFails(t) ==
  /\ At(t, "bring")
  /\ running' \in {running, NoProfile}
  /\ ready' = FALSE
  /\ broken' = TRUE
  /\ Goes(t, "failed")
  /\ UNCHANGED <<stored, started, provVars, lock, crossed>>

MarkReady(t) ==
  /\ At(t, "mark")
  /\ ready' = TRUE
  /\ Goes(t, "ok")
  /\ UNCHANGED <<stored, running, started, provVars, lock, history>>

\* Mutant: a refused profile returns without giving the mutex back.
Give_OnlyOk(t) ==
  /\ job[t].at \in {"ok", "failed"}
  /\ lock' = IF At(t, "ok") THEN None ELSE lock
  /\ job' = [job EXCEPT ![t] = Idle]
  /\ crossed' = crossed \ {t}
  /\ UNCHANGED <<radioVars, provVars, broken>>

Give(t) ==
  /\ job[t].at \in {"ok", "failed"}
  /\ lock' = None
  /\ job' = [job EXCEPT ![t] = Idle]
  /\ crossed' = crossed \ {t}
  /\ UNCHANGED <<radioVars, provVars, broken>>

-----------------------------------------------------------------------------
(* halow_interface_app_shutdown, of a disconnected device that sleeps its  *)
(* radio.  Deep sleep ends in a boot.                                      *)

AskHalt ==
  /\ At(Power, "idle")
  /\ Goes(Power, "lock")
  /\ crossed' = crossed \cup Others(Power)
  /\ UNCHANGED <<radioVars, provVars, lock, broken>>

LockHalt == At(Power, "lock") /\ Take(Power, "halt")

Halt ==
  /\ At(Power, "halt")
  /\ started' = FALSE
  /\ running' = NoProfile
  /\ Goes(Power, "clear")
  /\ UNCHANGED <<stored, ready, provVars, lock, history>>

ClearReady ==
  /\ At(Power, "clear")
  /\ ready' = FALSE
  /\ lock' = None
  /\ Goes(Power, "idle")
  /\ UNCHANGED <<stored, running, started, provVars, history>>

-----------------------------------------------------------------------------
Init ==
  /\ country \in Parts
  /\ mesh = None
  /\ stored = NoProfile /\ running = NoProfile
  /\ started = FALSE /\ ready = FALSE
  /\ lock = None
  /\ \E b \in {Idle} \cup {AutoStart(p) : p \in Profiles} :
       job = [t \in Starters \cup {Power} |-> IF t = Boot THEN b ELSE Idle]
  /\ crossed = {} /\ broken = FALSE

Puts(t) == SetEarly(t) \/ Refuse(t) \/ Adopt(t) \/ Gather(t)

Starts(t) ==
  \/ Lock(t) \/ Refresh(t) \/ Store(t)
  \/ BringUp(t) \/ BringFails(t) \/ MarkReady(t) \/ Give(t)

Stops == LockHalt \/ Halt \/ ClearReady

Next ==
  \/ \E p \in Profiles, t \in Phones : Ask(t, p) \/ ChangeSettings(t, p)
  \/ \E t \in Starters : Puts(t) \/ Starts(t)
  \/ AskHalt \/ Stops

\* Every task goes on; the mutex goes to each of its waiters in turn.
Fairness ==
  /\ \A t \in Starters : WF_vars(Puts(t)) /\ SF_vars(Starts(t))
  /\ SF_vars(Stops)

Spec == Init /\ [][Next]_vars /\ Fairness

-----------------------------------------------------------------------------
(* Properties *)

(* When a request is answered with success, the radio runs what it asked   *)
(* for, unless another request came between or a profile was refused since *)
(* the radio came up last.                                                 *)
AnswerIsTrue ==
  \A t \in Phones :
    At(t, "ok") /\ t \notin crossed /\ ~broken
    => /\ running.mesh = job[t].want
       /\ job[t].by = "init" => running.country = job[t].want

(* While nobody holds the mutex, a radio that is marked as ready is        *)
(* started: senders look at the one, routing looks at the other.           *)
ReadyIsStarted ==
  lock = None /\ ready => started

(* Every request ends, whatever the radio refuses and whoever else asks.   *)
RequestsEnd ==
  \A t \in Starters : ~At(t, "idle") ~> At(t, "idle")

(* halow_interface_app.cpp:579 says of a request for the stored profile    *)
(* that the radio is "already running" it.                                 *)
AlreadyRunning ==
  \A t \in Starters : At(t, "ok") /\ job[t].same => running = job[t].cfg

=============================================================================
