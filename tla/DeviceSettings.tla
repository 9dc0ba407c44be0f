--------------------------- MODULE DeviceSettings ---------------------------
(***************************************************************************)
(* The settings of an EdgeZ device: the copy in RAM, the keys in NVS, the  *)
(* boot that loads them and the factory reset that erases them             *)
(* (halow_sync_bridge.c, edgez_app.c).                                     *)
(*                                                                         *)
(* The settings come from the phones: the BLE host task and the USB task   *)
(* each handle one request at a time, and both may be at work.  NVS takes  *)
(* one key at a time, each of which reaches the flash, so a failing write, *)
(* a restart or the other task may come between two keys.                  *)
(*                                                                         *)
(* A value is the number of the request it stems from; 0 is the default.   *)
(* The keys stand for the 24 of the code, in the order they are saved.     *)
(***************************************************************************)
EXTENDS Naturals, FiniteSets

CONSTANTS
  Tasks,        \* the tasks that handle requests of the phones
  LastKey,      \* the number of keys
  SensorKey,    \* the key of the sensor selectors
  LocationKey,  \* the key of the location
  MaxRequests   \* bound: requests of the phones

ASSUME SettingsAssumption ==
  /\ LastKey \in Nat \ {0}
  /\ SensorKey \in 1 .. LastKey
  /\ LocationKey \in 1 .. LastKey
  /\ MaxRequests \in Nat

VARIABLES
  phase,      \* "off", "start", "erase", "load", "loaded" or "up"
  reason,     \* esp_reset_reason: "power", "software" or "other"
  magic,      \* the request in RTC memory: "set" or "clear"
  ram,        \* s_device_settings
  nvs,        \* the keys in flash
  loading,    \* what the boot read from the flash
  job,        \* what each task is doing
  request,    \* requests so far
  asked,      \* history: the button was held before this restart
  disturbed,  \* history: the tasks whose request overlapped with another
  durable     \* history: the settings saved last without a disturbance

requestVars == <<ram, nvs, loading, job, request, disturbed, durable>>
bootVars    == <<phase, reason, magic, asked>>
vars        == <<requestVars, bootVars>>

Keys     == 1 .. LastKey
Values   == 0 .. request
Defaults == [k \in Keys |-> 0]

Idle             == [at |-> "idle", new |-> Defaults, key |-> 1]
Saving(new, k)   == [at |-> "save", new |-> new, key |-> k]
Edited(how, new) == [at |-> how, new |-> new, key |-> 1]
Jobs == [at : {"idle", "location", "script", "save"}, new : [Keys -> Values],
         key : 1 .. LastKey + 1]

Busy(t)  == job[t].at # "idle"
\* nvs_open fails before nvs_flash_init.
NvsReady == phase \in {"load", "loaded", "up"}
Powered  == phase # "off"

TypeOK ==
  /\ phase \in {"off", "start", "erase", "load", "loaded", "up"}
  /\ reason \in {"power", "software", "other"}
  /\ magic \in {"set", "clear"}
  /\ request \in 0 .. MaxRequests
  /\ ram \in [Keys -> Values] /\ loading \in [Keys -> Values]
  /\ nvs \in [Keys -> Values] /\ durable \in [Keys -> Values]
  /\ asked \in BOOLEAN
  /\ disturbed \subseteq Tasks
  /\ job \in [Tasks -> Jobs]

-----------------------------------------------------------------------------
(* Requests of the phones *)

\* A request that starts while another is under way disturbs both.  One that
\* starts before the settings are loaded may save defaults over all of them.
Others(t) == {u \in Tasks \ {t} : Busy(u)}
Booting   == phase \in {"start", "erase", "load", "loaded"}

Starts(t) ==
  /\ Powered /\ ~Busy(t)
  /\ request < MaxRequests
  /\ request' = request + 1
  /\ disturbed' = IF Others(t) # {} \/ Booting
                  THEN disturbed \cup {t} \cup Others(t)
                  ELSE disturbed \ {t}
  /\ durable' = IF Booting THEN Defaults ELSE durable

\* handle_device_settings: the copy in RAM is replaced before the save.
Set(t) ==
  /\ Starts(t)
  /\ LET new == [k \in Keys |-> request'] IN
       /\ ram' = new
       /\ job' = [job EXCEPT ![t] = Saving(new, 1)]
  /\ UNCHANGED <<nvs, loading, bootVars>>

\* device_settings_get_snapshot for a location update or for the selection
\* of an uploaded script; device_settings_apply_snapshot is a second critical
\* section.
Edit(t, how, key) ==
  /\ Starts(t)
  /\ job' = [job EXCEPT ![t] = Edited(how, [ram EXCEPT ![key] = request'])]
  /\ UNCHANGED <<ram, nvs, loading, bootVars>>

LocationUpdate(t)  == Edit(t, "location", LocationKey)
ScriptSelection(t) == Edit(t, "script", SensorKey)

\* A location stays in RAM; a selection is saved.
Apply(t) ==
  /\ job[t].at \in {"location", "script"}
  /\ ram' = job[t].new
  /\ job' = [job EXCEPT ![t] = IF job[t].at = "script" THEN Saving(job[t].new, 1) ELSE Idle]
  /\ UNCHANGED <<nvs, loading, request, disturbed, durable, bootVars>>

\* Mutant: the last key is forgotten.
SaveKey_Short(t) ==
  /\ job[t].at = "save" /\ NvsReady
  /\ job[t].key <= LastKey
  /\ nvs' = [k \in Keys |-> IF k = job[t].key /\ k < LastKey THEN job[t].new[k] ELSE nvs[k]]
  /\ job' = [job EXCEPT ![t].key = @ + 1]
  /\ UNCHANGED <<ram, loading, request, disturbed, durable, bootVars>>

\* device_settings_save_to_nvs
SaveKey(t) ==
  /\ job[t].at = "save" /\ NvsReady
  /\ job[t].key <= LastKey
  /\ nvs' = [nvs EXCEPT ![job[t].key] = job[t].new[job[t].key]]
  /\ job' = [job EXCEPT ![t].key = @ + 1]
  /\ UNCHANGED <<ram, loading, request, disturbed, durable, bootVars>>

\* nvs_commit
SaveEnds(t) ==
  /\ job[t].at = "save" /\ job[t].key = LastKey + 1
  /\ job' = [job EXCEPT ![t] = Idle]
  /\ durable' = IF t \in disturbed THEN durable ELSE job[t].new
  /\ UNCHANGED <<ram, nvs, loading, request, disturbed, bootVars>>

\* Opening, a key or the commit fails: the rest is not written, the RAM keeps
\* the new settings.
SaveFails(t) ==
  /\ job[t].at = "save"
  /\ job' = [job EXCEPT ![t] = Idle]
  /\ UNCHANGED <<ram, nvs, loading, request, disturbed, durable, bootVars>>

-----------------------------------------------------------------------------
(* The reset button and the boot *)

\* gpio0_long_press_reset_task: held for 5 s; esp_restart follows 100 ms later.
HoldButton ==
  /\ NvsReady
  /\ magic' = "set" /\ asked' = TRUE
  /\ UNCHANGED <<requestVars, phase, reason>>

Stops ==
  /\ job' = [t \in Tasks |-> Idle]
  /\ disturbed' = {}
  /\ ram' = Defaults /\ loading' = Defaults
  /\ UNCHANGED <<nvs, request, durable>>

\* esp_restart, from the button's task or after a failed GPIO set-up.
Restart ==
  /\ NvsReady
  /\ phase' = "start" /\ reason' = "software"
  /\ Stops
  /\ UNCHANGED <<magic, asked>>

\* A panic, a watchdog or the wake-up from deep sleep; RTC memory survives.
Reset ==
  /\ Powered
  /\ phase' = "start" /\ reason' = "other"
  /\ Stops
  /\ UNCHANGED <<magic, asked>>

PowerLost ==
  /\ Powered
  /\ phase' = "off"
  /\ Stops
  /\ UNCHANGED <<reason, magic, asked>>

\* s_factory_reset_magic is RTC_NOINIT: after a power-up it holds anything.
PowerOn ==
  /\ phase = "off"
  /\ phase' = "start" /\ reason' = "power"
  /\ magic' \in {"set", "clear"}
  /\ asked' = FALSE
  /\ UNCHANGED requestVars

FactoryReset == magic = "set" /\ reason = "software"

\* Mutant: a request that is not honoured stays in RTC memory.
CheckRequest_Kept ==
  /\ phase = "start"
  /\ phase' = IF FactoryReset THEN "erase" ELSE "load"
  /\ magic' = IF FactoryReset THEN "clear" ELSE magic
  /\ asked' = (FactoryReset /\ asked)
  /\ UNCHANGED <<requestVars, reason>>

\* edgez_app_run
CheckRequest ==
  /\ phase = "start"
  /\ phase' = IF FactoryReset THEN "erase" ELSE "load"
  /\ magic' = "clear"
  /\ asked' = (FactoryReset /\ asked)
  /\ UNCHANGED <<requestVars, reason>>

EraseNvs ==
  /\ phase = "erase"
  /\ nvs' = Defaults /\ durable' = Defaults
  /\ phase' = "load"
  /\ asked' = FALSE
  /\ UNCHANGED <<ram, loading, job, request, disturbed, reason, magic>>

\* device_settings_load_from_nvs.  The transports run already: a phone may
\* change the settings while they are read, and the copy in RAM is replaced.
ReadNvs ==
  /\ phase = "load"
  /\ phase' = "loaded"
  /\ loading' = nvs
  /\ UNCHANGED <<ram, nvs, job, request, disturbed, durable, reason, magic, asked>>

ApplyLoaded ==
  /\ phase = "loaded"
  /\ phase' = "up"
  /\ ram' = loading
  /\ UNCHANGED <<nvs, loading, job, request, disturbed, durable, reason, magic, asked>>

-----------------------------------------------------------------------------
Init ==
  /\ phase = "off" /\ reason = "power" /\ magic = "clear"
  /\ ram = Defaults /\ nvs = Defaults /\ loading = Defaults
  /\ job = [t \in Tasks |-> Idle]
  /\ request = 0
  /\ asked = FALSE /\ disturbed = {} /\ durable = Defaults

Serve(t) ==
  \/ Set(t) \/ LocationUpdate(t) \/ ScriptSelection(t)
  \/ Apply(t) \/ SaveKey(t) \/ SaveEnds(t) \/ SaveFails(t)

Boot == CheckRequest \/ EraseNvs \/ ReadNvs \/ ApplyLoaded

Next ==
  \/ \E t \in Tasks : Serve(t)
  \/ Boot
  \/ HoldButton \/ Restart \/ Reset \/ PowerLost \/ PowerOn

Spec == Init /\ [][Next]_vars

-----------------------------------------------------------------------------
(* Properties *)

(* What was saved in full while no other request was under way stays saved: *)
(* no failing save, restart or slower task brings back an older value, and  *)
(* the device that came up works with it.  Only a request that comes before *)
(* the settings are loaded ends the promise.                                *)
SavedSettingsLast ==
  \A k \in Keys :
    /\ nvs[k] >= durable[k]
    /\ phase = "up" => ram[k] >= durable[k]

(* The settings are erased only after the button was held since the last    *)
(* boot, whatever RTC memory holds after a power-up and however the device  *)
(* restarts.                                                                *)
EraseOnlyOnRequest ==
  phase = "erase" => asked
=============================================================================
