--------------------------- MODULE Config_proofs ---------------------------
(***************************************************************************)
(* What a device keeps: settings that were saved last, a flash that is     *)
(* erased only on request, scripts that can be read after a restart at any *)
(* point, and a firmware slot that boots; and the counters of what it      *)
(* tells an OpenMANET network; for any number of tasks, keys, scripts,     *)
(* chunks and images and any width of the counters.                        *)
(***************************************************************************)
EXTENDS MCConfig, FiniteSetTheorems, SequenceTheorems, TLAPS

-----------------------------------------------------------------------------
(* The settings in flash (DeviceSettings) *)

(* The word in RTC memory is set only while the button's request is open,  *)
(* except after a power-up, which is no software restart.                  *)
RequestIsOpen ==
  /\ phase = "erase" => asked /\ magic = "clear"
  /\ NvsReady /\ magic = "set" => asked
  /\ phase = "start" /\ FactoryReset => asked

(* Two requests that overlap, and one that overlaps with the boot, are     *)
(* disturbed.                                                              *)
OverlapDisturbs ==
  /\ phase = "off" => \A t \in Tasks : ~Busy(t)
  /\ \A t \in Tasks : Booting /\ Busy(t) => t \in disturbed
  /\ \A t, u \in Tasks : t # u /\ Busy(t) /\ Busy(u) => t \in disturbed

(* What a request is about to write is no older than what was promised.    *)
NewIsNewer ==
  \A t \in Tasks, k \in Keys : Busy(t) => job[t].new[k] >= durable[k]

(* An undisturbed save finds in flash and in RAM what it put there.        *)
SaveIsKept ==
  \A t \in Tasks : job[t].at = "save" /\ t \notin disturbed =>
    /\ ram = job[t].new
    /\ \A k \in Keys : k < job[t].key => nvs[k] = job[t].new[k]

(* The boot reads what is in flash.                                        *)
LoadedLasts ==
  \A k \in Keys : phase = "loaded" => loading[k] >= durable[k]

Kept ==
  /\ TypeOK /\ OverlapDisturbs /\ NewIsNewer /\ SaveIsKept /\ LoadedLasts
  /\ SavedSettingsLast

-----------------------------------------------------------------------------
(* Types                                                                   *)

LEMMA DefaultsInRange ==
  ASSUME request \in Nat
  PROVE  Defaults \in [Keys -> Values] /\ Idle \in Jobs
BY SettingsAssumption DEF Defaults, Values, Idle, Jobs, Keys

LEMMA InitTyped == Init => TypeOK
<1> SUFFICES ASSUME Init
             PROVE  TypeOK
  OBVIOUS
<1>1. request \in 0 .. MaxRequests /\ request \in Nat
  BY SettingsAssumption DEF Init
<1> QED
  BY <1>1, DefaultsInRange DEF Init, TypeOK

(* A request gets a number of its own, and older values stay in range.     *)
LEMMA Starts_Types ==
  ASSUME TypeOK, NEW t \in Tasks, Starts(t)
  PROVE  /\ request' = request + 1 /\ request' \in 0 .. MaxRequests
         /\ Values \subseteq Values' /\ request' \in Values'
         /\ [Keys -> Values] \subseteq [Keys -> Values'] /\ Jobs \subseteq Jobs'
         /\ durable' \in [Keys -> Values']
         /\ disturbed' \subseteq Tasks
<1>1. request' = request + 1 /\ request \in Nat /\ request' \in 0 .. MaxRequests
  BY SettingsAssumption DEF TypeOK, Starts
<1>2. Values \subseteq Values' /\ request' \in Values'
  BY <1>1 DEF Values
<1>3. [Keys -> Values] \subseteq [Keys -> Values']
  BY <1>2
<1>4. Jobs \subseteq Jobs'
  BY <1>3 DEF Jobs
<1>5. durable' \in [Keys -> Values']
  <2>1. Defaults \in [Keys -> Values]
    BY <1>1, DefaultsInRange
  <2> QED
    BY <2>1, <1>3 DEF Starts, TypeOK
<1>6. disturbed' \subseteq Tasks
  BY DEF Starts, TypeOK, Others
<1> QED
  BY <1>1, <1>2, <1>3, <1>4, <1>5, <1>6

LEMMA Unstarted_Types ==
  ASSUME TypeOK, request' = request
  PROVE  /\ Values' = Values /\ Jobs' = Jobs
         /\ request' \in 0 .. MaxRequests
BY DEF TypeOK, Values, Jobs

LEMMA NextTyped == TypeOK /\ [Next]_vars => TypeOK'
<1> SUFFICES ASSUME TypeOK, [Next]_vars
             PROVE  TypeOK'
  OBVIOUS
<1> USE SettingsAssumption
<1>0. request \in Nat /\ Defaults \in [Keys -> Values] /\ Idle \in Jobs
  BY DefaultsInRange DEF TypeOK
<1>1. ASSUME NEW t \in Tasks, Set(t)
      PROVE  TypeOK'
  <2>1. [k \in Keys |-> request'] \in [Keys -> Values']
    BY <1>1, Starts_Types DEF Set
  <2>2. Saving([k \in Keys |-> request'], 1) \in Jobs'
    BY <2>1 DEF Saving, Jobs
  <2> QED
    BY <1>1, <2>1, <2>2, Starts_Types DEF Set, TypeOK, bootVars
<1>2. ASSUME NEW t \in Tasks, NEW how \in {"location", "script"}, NEW key \in Keys,
             Edit(t, how, key)
      PROVE  TypeOK'
  <2>1. [ram EXCEPT ![key] = request'] \in [Keys -> Values']
    BY <1>2, Starts_Types DEF Edit, TypeOK
  <2>2. Edited(how, [ram EXCEPT ![key] = request']) \in Jobs'
    BY <2>1 DEF Edited, Jobs
  <2> QED
    BY <1>2, <2>2, Starts_Types DEF Edit, TypeOK, bootVars
<1>3. ASSUME NEW t \in Tasks, Apply(t)
      PROVE  TypeOK'
  <2>1. job[t].new \in [Keys -> Values]
    BY DEF TypeOK, Jobs
  <2>2. Saving(job[t].new, 1) \in Jobs
    BY <2>1 DEF Saving, Jobs
  <2> QED
    BY <1>0, <1>3, <2>1, <2>2, Unstarted_Types DEF Apply, TypeOK, bootVars
<1>4. ASSUME NEW t \in Tasks, SaveKey(t)
      PROVE  TypeOK'
  <2>1. job[t] \in Jobs /\ job[t].new[job[t].key] \in Values
    BY <1>4 DEF SaveKey, TypeOK, Jobs, Keys
  <2>2. [job[t] EXCEPT !.key = @ + 1] \in Jobs
    BY <1>4, <2>1 DEF SaveKey, Jobs
  <2>3. job' = [job EXCEPT ![t] = [job[t] EXCEPT !.key = @ + 1]]
    BY <1>4 DEF SaveKey
  <2> QED
    BY <1>4, <2>1, <2>2, <2>3, Unstarted_Types DEF SaveKey, TypeOK, bootVars
<1>5. ASSUME NEW t \in Tasks, SaveEnds(t) \/ SaveFails(t)
      PROVE  TypeOK'
  <2>1. job[t].new \in [Keys -> Values]
    BY DEF TypeOK, Jobs
  <2> QED
    BY <1>0, <1>5, <2>1, Unstarted_Types DEF SaveEnds, SaveFails, TypeOK, bootVars
<1>6. ASSUME Boot \/ HoldButton \/ PowerOn
      PROVE  TypeOK'
  BY <1>0, <1>6, Unstarted_Types
     DEF Boot, CheckRequest, EraseNvs, ReadNvs, ApplyLoaded, HoldButton, PowerOn,
         TypeOK, requestVars
<1>7. ASSUME Restart \/ Reset \/ PowerLost
      PROVE  TypeOK'
  <2>1. request' = request /\ nvs' = nvs /\ durable' = durable /\ disturbed' = {}
        /\ job' = [t \in Tasks |-> Idle] /\ ram' = Defaults /\ loading' = Defaults
    BY <1>7 DEF Restart, Reset, PowerLost, Stops
  <2>2. phase' \in {"start", "off"} /\ reason' \in {"software", "other", reason}
        /\ magic' = magic /\ asked' = asked
    BY <1>7 DEF Restart, Reset, PowerLost
  <2> QED
    BY <1>0, <2>1, <2>2, Unstarted_Types DEF TypeOK
<1>8. CASE UNCHANGED vars
  BY <1>8, Unstarted_Types DEF vars, requestVars, bootVars, TypeOK
<1> QED
  BY <1>1, <1>2, <1>3, <1>4, <1>5, <1>6, <1>7, <1>8
     DEF Next, Serve, LocationUpdate, ScriptSelection, Keys

(* Settings, requests and jobs keep their types, and no value is newer     *)
(* than the requests so far (halow_sync_bridge.c, edgez_app.c).            *)
THEOREM TypeCorrect == Spec => []TypeOK
BY InitTyped, NextTyped, PTL DEF Spec

-----------------------------------------------------------------------------
(* The reset                                                               *)

LEMMA NextOpen == RequestIsOpen /\ [Next]_vars => RequestIsOpen'
<1> SUFFICES ASSUME RequestIsOpen, [Next]_vars
             PROVE  RequestIsOpen'
  OBVIOUS
<1> USE DEF RequestIsOpen, NvsReady, FactoryReset
<1>1. ASSUME NEW t \in Tasks, Serve(t)
      PROVE  UNCHANGED bootVars
  BY <1>1 DEF Serve, Set, LocationUpdate, ScriptSelection, Edit, Apply, SaveKey, SaveEnds, SaveFails
<1>2. CASE UNCHANGED bootVars
  BY <1>2 DEF bootVars
<1>3. CASE Boot
  BY <1>3 DEF Boot, CheckRequest, EraseNvs, ReadNvs, ApplyLoaded
<1>4. CASE HoldButton
  BY <1>4 DEF HoldButton
<1>5. CASE Restart \/ Reset \/ PowerLost
  BY <1>5 DEF Restart, Reset, PowerLost
<1>6. CASE PowerOn
  BY <1>6 DEF PowerOn
<1> QED
  BY <1>1, <1>2, <1>3, <1>4, <1>5, <1>6 DEF Next, vars

(* The flash is erased only when the button asked for it since the last    *)
(* boot, whatever the restarts and the RTC memory after a power-up         *)
(* (edgez_app_run).                                                        *)
THEOREM EraseIsRequested == Spec => []EraseOnlyOnRequest
<1>1. Init => RequestIsOpen
  BY DEF Init, RequestIsOpen, NvsReady, FactoryReset
<1>2. RequestIsOpen => EraseOnlyOnRequest
  BY DEF RequestIsOpen, EraseOnlyOnRequest
<1> QED
  BY <1>1, <1>2, NextOpen, PTL DEF Spec

-----------------------------------------------------------------------------
(* The saved settings                                                      *)

LEMMA Job_Changes ==
  ASSUME TypeOK, NEW t \in Tasks, NEW j, job' = [job EXCEPT ![t] = j]
  PROVE  job'[t] = j /\ \A u \in Tasks \ {t} : job'[u] = job[u]
BY DEF TypeOK

LEMMA Values_Types ==
  ASSUME TypeOK
  PROVE  /\ request \in Nat
         /\ \A k \in Keys : /\ ram[k] \in Nat /\ nvs[k] \in Nat /\ loading[k] \in Nat
                            /\ durable[k] \in Nat /\ durable[k] <= request
                            /\ Defaults[k] = 0
         /\ \A t \in Tasks : /\ job[t].new \in [Keys -> Values] /\ job[t].key \in 1 .. LastKey + 1
                             /\ \A k \in Keys : job[t].new[k] \in Nat
<1>1. request \in Nat /\ Values \subseteq Nat /\ \A v \in Values : v <= request
  BY SettingsAssumption DEF TypeOK, Values
<1>2. \A t \in Tasks : job[t] \in Jobs
  BY DEF TypeOK
<1>3. \A t \in Tasks : job[t].new \in [Keys -> Values] /\ job[t].key \in 1 .. LastKey + 1
  BY <1>2 DEF Jobs
<1> QED
  BY <1>1, <1>3 DEF TypeOK, Defaults

(* A request that starts is disturbed with all it overlaps, and never      *)
(* raises what was promised.                                               *)
LEMMA Starts_Kept ==
  ASSUME TypeOK, OverlapDisturbs, NEW t \in Tasks, Starts(t), phase' = phase,
         NEW j, j.at # "idle", job' = [job EXCEPT ![t] = j]
  PROVE  /\ OverlapDisturbs'
         /\ \A u \in Tasks \ {t} : Busy(u) => u \in disturbed'
         /\ \A k \in Keys : durable'[k] \in Nat /\ durable'[k] <= durable[k]
         /\ Booting => durable' = Defaults
         /\ ~Booting => durable' = durable
<1>1. /\ job'[t] = j /\ \A u \in Tasks \ {t} : job'[u] = job[u]
      /\ Booting' <=> Booting
  BY Job_Changes DEF Booting
<1>2. /\ Powered /\ ~Busy(t)
      /\ disturbed' = IF Others(t) # {} \/ Booting
                      THEN disturbed \cup {t} \cup Others(t)
                      ELSE disturbed \ {t}
      /\ durable' = IF Booting THEN Defaults ELSE durable
  BY DEF Starts
<1>3. \A u \in Tasks \ {t} : Busy(u) => u \in Others(t) /\ t \in disturbed' /\ u \in disturbed'
  BY <1>2 DEF Others
<1>4. OverlapDisturbs'
  BY <1>1, <1>2, <1>3 DEF OverlapDisturbs, Busy, Powered
<1>5. \A k \in Keys : durable'[k] \in Nat /\ durable'[k] <= durable[k]
  BY <1>2, Values_Types
<1> QED
  BY <1>2, <1>3, <1>4, <1>5

LEMMA SetKept ==
  ASSUME Kept, NEW t \in Tasks, Set(t)
  PROVE  Kept'
<1> DEFINE new == [k \in Keys |-> request']
<1>1. /\ Starts(t) /\ ram' = new /\ job' = [job EXCEPT ![t] = Saving(new, 1)]
      /\ nvs' = nvs /\ loading' = loading /\ phase' = phase
  BY DEF Set, bootVars
<1>2. Saving(new, 1).at # "idle" /\ Saving(new, 1).new = new /\ Saving(new, 1).key = 1
  BY DEF Saving
<1>3. /\ job'[t] = Saving(new, 1)
      /\ \A u \in Tasks \ {t} : job'[u] = job[u]
  BY <1>1, Job_Changes DEF Kept
<1>4. /\ OverlapDisturbs'
      /\ \A u \in Tasks \ {t} : Busy(u) => u \in disturbed'
      /\ \A k \in Keys : durable'[k] \in Nat /\ durable'[k] <= durable[k]
  BY <1>1, <1>2, Starts_Kept DEF Kept
<1>5. TypeOK'
  BY NextTyped DEF Kept, Next, Serve
<1>6. request' = request + 1 /\ \A k \in Keys : new[k] >= durable'[k] /\ new[k] >= durable[k]
  BY <1>1, <1>4, Values_Types DEF Kept, Starts
<1>7. NewIsNewer'
  <2> SUFFICES ASSUME NEW u \in Tasks, NEW k \in Keys, Busy(u)'
               PROVE  job'[u].new[k] >= durable'[k]
    BY DEF NewIsNewer
  <2>1. CASE u = t
    BY <2>1, <1>2, <1>3, <1>6
  <2>2. CASE u # t
    <3>1. job[u].new[k] >= durable[k] /\ job'[u] = job[u]
      BY <2>2, <1>3 DEF Kept, NewIsNewer, Busy
    <3> QED
      BY <3>1, <1>4, Values_Types DEF Kept
  <2> QED
    BY <2>1, <2>2
<1>8. SaveIsKept'
  <2> SUFFICES ASSUME NEW u \in Tasks, job'[u].at = "save", u \notin disturbed'
               PROVE  ram' = job'[u].new /\ \A k \in Keys : ~(k < job'[u].key)
    BY DEF SaveIsKept
  <2>1. u = t
    BY <1>3, <1>4 DEF Busy
  <2> QED
    BY <2>1, <1>1, <1>2, <1>3, SettingsAssumption DEF Keys
<1>9. LoadedLasts'
  BY <1>1, <1>4, Values_Types DEF Kept, LoadedLasts
<1>10. SavedSettingsLast'
  BY <1>1, <1>4, <1>6, Values_Types DEF Kept, SavedSettingsLast
<1> QED
  BY <1>4, <1>5, <1>7, <1>8, <1>9, <1>10 DEF Kept

LEMMA EditKept ==
  ASSUME Kept, NEW t \in Tasks, NEW how \in {"location", "script"}, NEW key \in Keys,
         Edit(t, how, key), TypeOK'
  PROVE  Kept'
<1> DEFINE new == [ram EXCEPT ![key] = request']
<1>1. /\ Starts(t) /\ ram' = ram /\ job' = [job EXCEPT ![t] = Edited(how, new)]
      /\ nvs' = nvs /\ loading' = loading /\ phase' = phase
  BY DEF Edit, bootVars
<1>2. /\ Edited(how, new).at # "idle" /\ Edited(how, new).at # "save"
      /\ Edited(how, new).new = new
  BY DEF Edited
<1>3. /\ job'[t] = Edited(how, new)
      /\ \A u \in Tasks \ {t} : job'[u] = job[u]
  BY <1>1, Job_Changes DEF Kept
<1>4. /\ OverlapDisturbs'
      /\ \A u \in Tasks \ {t} : Busy(u) => u \in disturbed'
      /\ \A k \in Keys : durable'[k] \in Nat /\ durable'[k] <= durable[k]
      /\ Booting => durable' = Defaults
      /\ ~Booting => durable' = durable
  BY <1>1, <1>2, Starts_Kept DEF Kept
<1>5. request' = request + 1 /\ Powered
  BY <1>1 DEF Starts
<1>6. \A k \in Keys : new[k] >= durable'[k]
  <2> SUFFICES ASSUME NEW k \in Keys
               PROVE  new[k] >= durable'[k]
    OBVIOUS
  <2>1. ram[k] \in Nat /\ durable[k] \in Nat /\ durable[k] <= request /\ request \in Nat
    BY Values_Types DEF Kept
  <2>2. new[k] = IF k = key THEN request' ELSE ram[k]
    BY DEF Kept, TypeOK
  <2>3. CASE Booting
    BY <2>1, <2>2, <2>3, <1>4, <1>5, Values_Types DEF Kept
  <2>4. CASE ~Booting
    <3>1. phase = "up"
      BY <2>4, <1>5 DEF Booting, Powered, Kept, TypeOK
    <3>2. ram[k] >= durable[k]
      BY <3>1 DEF Kept, SavedSettingsLast
    <3> QED
      BY <2>1, <2>2, <2>4, <3>2, <1>4, <1>5
  <2> QED
    BY <2>3, <2>4
<1>7. NewIsNewer'
  <2> SUFFICES ASSUME NEW u \in Tasks, NEW k \in Keys, Busy(u)'
               PROVE  job'[u].new[k] >= durable'[k]
    BY DEF NewIsNewer
  <2>1. CASE u = t
    BY <2>1, <1>2, <1>3, <1>6
  <2>2. CASE u # t
    <3>1. job[u].new[k] >= durable[k] /\ job'[u] = job[u]
      BY <2>2, <1>3 DEF Kept, NewIsNewer, Busy
    <3> QED
      BY <3>1, <1>4, Values_Types DEF Kept
  <2> QED
    BY <2>1, <2>2
<1>8. SaveIsKept'
  BY <1>2, <1>3, <1>4 DEF SaveIsKept, Busy
<1>9. LoadedLasts'
  BY <1>1, <1>4, Values_Types DEF Kept, LoadedLasts
<1>10. SavedSettingsLast'
  BY <1>1, <1>4, Values_Types DEF Kept, SavedSettingsLast
<1> QED
  BY <1>4, <1>7, <1>8, <1>9, <1>10 DEF Kept

(* The other tasks at work make an undisturbed one impossible.             *)
LEMMA Alone ==
  ASSUME OverlapDisturbs, NEW t \in Tasks, Busy(t)
  PROVE  \A u \in Tasks \ {t} : Busy(u) => u \in disturbed /\ t \in disturbed
BY DEF OverlapDisturbs

LEMMA ApplyKept ==
  ASSUME Kept, NEW t \in Tasks, Apply(t), TypeOK'
  PROVE  Kept'
<1>1. /\ Busy(t) /\ ram' = job[t].new
      /\ nvs' = nvs /\ loading' = loading /\ durable' = durable
      /\ disturbed' = disturbed /\ phase' = phase
  BY DEF Apply, Busy, bootVars
<1>2. /\ \A u \in Tasks \ {t} : job'[u] = job[u]
      /\ job'[t].at # "idle" => job'[t].new = job[t].new /\ job'[t].key = 1
  <2>1. PICK j : job' = [job EXCEPT ![t] = j] /\ (j = Saving(job[t].new, 1) \/ j = Idle)
    BY DEF Apply
  <2>2. job'[t] = j /\ \A u \in Tasks \ {t} : job'[u] = job[u]
    BY <2>1, Job_Changes DEF Kept
  <2> QED
    BY <2>1, <2>2 DEF Saving, Idle
<1>3. OverlapDisturbs'
  BY <1>1, <1>2 DEF Kept, OverlapDisturbs, Busy, Booting
<1>4. NewIsNewer'
  BY <1>1, <1>2 DEF Kept, NewIsNewer, Busy
<1>5. SaveIsKept'
  <2> SUFFICES ASSUME NEW u \in Tasks, job'[u].at = "save", u \notin disturbed'
               PROVE  ram' = job'[u].new /\ \A k \in Keys : ~(k < job'[u].key)
    BY DEF SaveIsKept
  <2>1. u = t
    BY <1>1, <1>2, Alone DEF Kept, Busy
  <2> QED
    BY <2>1, <1>1, <1>2, SettingsAssumption DEF Keys
<1>6. LoadedLasts'
  BY <1>1 DEF Kept, LoadedLasts
<1>7. SavedSettingsLast'
  BY <1>1 DEF Kept, SavedSettingsLast, NewIsNewer
<1> QED
  BY <1>3, <1>4, <1>5, <1>6, <1>7 DEF Kept

LEMMA SaveKeyKept ==
  ASSUME Kept, NEW t \in Tasks, SaveKey(t), TypeOK'
  PROVE  Kept'
<1> DEFINE key == job[t].key
<1>1. /\ job[t].at = "save" /\ Busy(t) /\ key \in Keys
      /\ nvs' = [nvs EXCEPT ![key] = job[t].new[key]]
      /\ ram' = ram /\ loading' = loading /\ durable' = durable
      /\ disturbed' = disturbed /\ phase' = phase
  BY Values_Types, SettingsAssumption DEF SaveKey, Busy, bootVars, Kept, Keys
<1>2. /\ \A u \in Tasks \ {t} : job'[u] = job[u]
      /\ job'[t].at = "save" /\ job'[t].new = job[t].new /\ job'[t].key = key + 1
  <2>1. job[t] \in Jobs /\ job' = [job EXCEPT ![t] = [job[t] EXCEPT !.key = @ + 1]]
    BY DEF SaveKey, Kept, TypeOK
  <2>2. job'[t] = [job[t] EXCEPT !.key = @ + 1] /\ \A u \in Tasks \ {t} : job'[u] = job[u]
    BY <2>1, Job_Changes DEF Kept
  <2> QED
    BY <2>1, <2>2, <1>1 DEF Jobs
<1>3. \A k \in Keys : nvs'[k] = IF k = key THEN job[t].new[key] ELSE nvs[k]
  BY <1>1 DEF Kept, TypeOK
<1>4. OverlapDisturbs'
  BY <1>1, <1>2 DEF Kept, OverlapDisturbs, Busy, Booting
<1>5. NewIsNewer'
  BY <1>1, <1>2 DEF Kept, NewIsNewer, Busy
<1>6. SaveIsKept'
  <2> SUFFICES ASSUME NEW u \in Tasks, job'[u].at = "save", u \notin disturbed'
               PROVE  /\ ram' = job'[u].new
                      /\ \A k \in Keys : k < job'[u].key => nvs'[k] = job'[u].new[k]
    BY DEF SaveIsKept
  <2>1. u = t
    BY <1>1, <1>2, Alone DEF Kept, Busy
  <2>2. ram = job[t].new /\ \A k \in Keys : k < key => nvs[k] = job[t].new[k]
    BY <2>1, <1>1 DEF Kept, SaveIsKept
  <2>3. ASSUME NEW k \in Keys, k < key + 1
        PROVE  nvs'[k] = job[t].new[k]
    <3>1. k = key \/ k < key
      BY <2>3, <1>1, SettingsAssumption DEF Keys
    <3> QED
      BY <3>1, <2>2, <1>3
  <2> QED
    BY <2>1, <2>2, <2>3, <1>1, <1>2
<1>7. LoadedLasts'
  BY <1>1 DEF Kept, LoadedLasts
<1>8. SavedSettingsLast'
  BY <1>1, <1>3 DEF Kept, SavedSettingsLast, NewIsNewer
<1> QED
  BY <1>4, <1>5, <1>6, <1>7, <1>8 DEF Kept

LEMMA SaveEndsKept ==
  ASSUME Kept, NEW t \in Tasks, SaveEnds(t), TypeOK'
  PROVE  Kept'
<1>1. /\ job[t].at = "save" /\ Busy(t) /\ job[t].key = LastKey + 1
      /\ ram' = ram /\ nvs' = nvs /\ loading' = loading
      /\ durable' = IF t \in disturbed THEN durable ELSE job[t].new
      /\ disturbed' = disturbed /\ phase' = phase
  BY DEF SaveEnds, Busy, bootVars
<1>2. /\ \A u \in Tasks \ {t} : job'[u] = job[u]
      /\ job'[t].at = "idle"
  <2>1. job' = [job EXCEPT ![t] = Idle]
    BY DEF SaveEnds
  <2>2. job'[t] = Idle /\ \A u \in Tasks \ {t} : job'[u] = job[u]
    BY <2>1, Job_Changes DEF Kept
  <2> QED
    BY <2>2 DEF Idle
<1>3. OverlapDisturbs'
  BY <1>1, <1>2 DEF Kept, OverlapDisturbs, Busy, Booting
<1>4. SaveIsKept'
  BY <1>1, <1>2 DEF Kept, SaveIsKept
<1>5. CASE t \in disturbed
  BY <1>1, <1>2, <1>3, <1>4, <1>5
     DEF Kept, NewIsNewer, LoadedLasts, SavedSettingsLast, Busy
<1>6. CASE t \notin disturbed
  <2>1. \A u \in Tasks : ~Busy(u)'
    BY <1>1, <1>2, <1>6, Alone DEF Kept, Busy
  <2>2. phase \notin {"start", "erase", "load", "loaded"}
    BY <1>1, <1>6 DEF Kept, OverlapDisturbs, Booting
  <2>3. \A k \in Keys : ram[k] = durable'[k] /\ nvs[k] = durable'[k] /\ ram[k] \in Nat
    <3>1. \A k \in Keys : k < LastKey + 1
      BY SettingsAssumption DEF Keys
    <3> QED
      BY <3>1, <1>1, <1>6, Values_Types DEF Kept, SaveIsKept
  <2>4. NewIsNewer'
    BY <2>1 DEF NewIsNewer
  <2>5. LoadedLasts'
    BY <2>2, <1>1 DEF LoadedLasts
  <2>6. SavedSettingsLast'
    BY <2>3, <1>1 DEF SavedSettingsLast
  <2> QED
    BY <1>3, <1>4, <2>4, <2>5, <2>6 DEF Kept
<1> QED
  BY <1>5, <1>6

LEMMA SaveFailsKept ==
  ASSUME Kept, NEW t \in Tasks, SaveFails(t), TypeOK'
  PROVE  Kept'
<1>1. /\ ram' = ram /\ nvs' = nvs /\ loading' = loading /\ durable' = durable
      /\ disturbed' = disturbed /\ phase' = phase
  BY DEF SaveFails, bootVars
<1>2. /\ \A u \in Tasks \ {t} : job'[u] = job[u]
      /\ job'[t].at = "idle"
  <2>1. job' = [job EXCEPT ![t] = Idle]
    BY DEF SaveFails
  <2>2. job'[t] = Idle /\ \A u \in Tasks \ {t} : job'[u] = job[u]
    BY <2>1, Job_Changes DEF Kept
  <2> QED
    BY <2>2 DEF Idle
<1> QED
  BY <1>1, <1>2 DEF Kept, OverlapDisturbs, NewIsNewer, SaveIsKept, LoadedLasts,
                    SavedSettingsLast, Busy, Booting

(* Of the boot only the erasure and the reading matter: whoever is at work *)
(* meanwhile is disturbed.                                                 *)
LEMMA BootKept ==
  ASSUME Kept, Boot, TypeOK'
  PROVE  Kept'
<1>1. job' = job /\ disturbed' = disturbed /\ Booting /\ phase' # "off" /\ phase # "up"
  BY DEF Boot, CheckRequest, EraseNvs, ReadNvs, ApplyLoaded, Booting, requestVars
<1>2. \A t \in Tasks : Busy(t)' => t \in disturbed'
  BY <1>1 DEF Kept, OverlapDisturbs, Busy
<1>3. OverlapDisturbs'
  BY <1>1, <1>2 DEF OverlapDisturbs
<1>4. SaveIsKept'
  BY <1>2 DEF SaveIsKept, Busy
<1>5. CASE CheckRequest
  BY <1>1, <1>3, <1>4, <1>5
     DEF CheckRequest, requestVars, Kept, NewIsNewer, LoadedLasts, SavedSettingsLast, Busy
<1>6. CASE EraseNvs
  <2>1. \A k \in Keys : durable'[k] = 0 /\ nvs'[k] = 0
    BY <1>6, Values_Types DEF EraseNvs, Kept
  <2>2. phase' = "load"
    BY <1>6 DEF EraseNvs
  <2>3. NewIsNewer'
    BY <1>1, <2>1, Values_Types DEF NewIsNewer, Kept
  <2> QED
    BY <1>3, <1>4, <2>1, <2>2, <2>3 DEF Kept, LoadedLasts, SavedSettingsLast
<1>7. CASE ReadNvs
  BY <1>1, <1>3, <1>4, <1>7
     DEF ReadNvs, Kept, NewIsNewer, LoadedLasts, SavedSettingsLast, Busy
<1>8. CASE ApplyLoaded
  BY <1>1, <1>3, <1>4, <1>8
     DEF ApplyLoaded, Kept, NewIsNewer, LoadedLasts, SavedSettingsLast, Busy
<1> QED
  BY <1>5, <1>6, <1>7, <1>8 DEF Boot

(* A device that stops forgets its requests and what is in RAM; the flash  *)
(* stays as it is.                                                         *)
LEMMA StopKept ==
  ASSUME Kept, Restart \/ Reset \/ PowerLost \/ PowerOn, TypeOK'
  PROVE  Kept'
<1>1. nvs' = nvs /\ durable' = durable /\ phase' \in {"start", "off"}
  BY DEF Restart, Reset, PowerLost, PowerOn, Stops, requestVars
<1>2. \A t \in Tasks : job'[t].at = "idle"
  <2>1. CASE Restart \/ Reset \/ PowerLost
    BY <2>1 DEF Restart, Reset, PowerLost, Stops, Idle
  <2>2. CASE PowerOn
    BY <2>2 DEF PowerOn, requestVars, Kept, OverlapDisturbs, Busy
  <2> QED
    BY <2>1, <2>2
<1> QED
  BY <1>1, <1>2 DEF Kept, OverlapDisturbs, NewIsNewer, SaveIsKept, LoadedLasts,
                    SavedSettingsLast, Busy

LEMMA NextKept == Kept /\ [Next]_vars => Kept'
<1> SUFFICES ASSUME Kept, [Next]_vars
             PROVE  Kept'
  OBVIOUS
<1>1. TypeOK'
  BY NextTyped DEF Kept
<1>2. ASSUME NEW t \in Tasks, Serve(t)
      PROVE  Kept'
  BY <1>1, <1>2, SetKept, EditKept, ApplyKept, SaveKeyKept, SaveEndsKept, SaveFailsKept,
     SettingsAssumption DEF Serve, LocationUpdate, ScriptSelection, Keys
<1>3. CASE HoldButton
  BY <1>1, <1>3 DEF HoldButton, requestVars, Kept, OverlapDisturbs, NewIsNewer,
     SaveIsKept, LoadedLasts, SavedSettingsLast, Busy, Booting
<1>4. CASE UNCHANGED vars
  BY <1>1, <1>4 DEF vars, bootVars, requestVars, Kept, OverlapDisturbs, NewIsNewer,
     SaveIsKept, LoadedLasts, SavedSettingsLast, Busy, Booting
<1> QED
  BY <1>1, <1>2, <1>3, <1>4, BootKept, StopKept DEF Next

(* What was saved in full while no other request was under way stays in    *)
(* flash, and a device that came up works with it or with something newer  *)
(* (device_settings_save_to_nvs, device_settings_load_from_nvs).           *)
THEOREM SavedLast == Spec => []SavedSettingsLast
<1>1. Init => Kept
  <2> SUFFICES ASSUME Init
               PROVE  Kept
    OBVIOUS
  <2>1. TypeOK
    BY InitTyped
  <2>2. \A t \in Tasks : job[t].at = "idle"
    BY DEF Init, Idle
  <2>3. \A k \in Keys : nvs[k] = 0 /\ durable[k] = 0
    BY <2>1, Values_Types DEF Init
  <2> QED
    BY <2>1, <2>2, <2>3 DEF Init, Kept, OverlapDisturbs, NewIsNewer, SaveIsKept, LoadedLasts,
                            SavedSettingsLast, Busy, Booting
<1>2. Kept => SavedSettingsLast
  BY DEF Kept
<1> QED
  BY <1>1, <1>2, NextKept, PTL DEF Spec

-----------------------------------------------------------------------------
(* Operators of the script store (ScriptStore) *)

OneToOne(s) == \A i, j \in DOMAIN s : s[i] = s[j] => i = j

LEMMA SameCardinality == ASSUME NEW S PROVE Store!Cardinality(S) = Cardinality(S)
BY DEF Store!Cardinality, Cardinality

(* How many members of a finite set of numbers are at most x.              *)
Rank(S, x) == Cardinality({y \in S : y <= x})

LEMMA RankRises ==
  ASSUME NEW S \in SUBSET Nat, IsFiniteSet(S), NEW x \in S, NEW y \in S
  PROVE  /\ Rank(S, x) \in 1 .. Cardinality(S)
         /\ x < y => Rank(S, x) < Rank(S, y)
<1> DEFINE Below(z) == {w \in S : w <= z}
<1>1. \A z \in S : /\ IsFiniteSet(Below(z)) /\ Cardinality(Below(z)) \in Nat
                   /\ Cardinality(Below(z)) <= Cardinality(S)
  <2> SUFFICES ASSUME NEW z \in S
               PROVE  /\ IsFiniteSet(Below(z)) /\ Cardinality(Below(z)) \in Nat
                      /\ Cardinality(Below(z)) <= Cardinality(S)
    OBVIOUS
  <2>1. Below(z) \subseteq S
    OBVIOUS
  <2> HIDE DEF Below
  <2> QED
    BY <2>1, FS_Subset, FS_CardinalityType
<1>2. Below(x) # {}
  OBVIOUS
<1>3. x < y => Below(x) \in SUBSET Below(y) /\ Below(x) # Below(y)
  <2> SUFFICES ASSUME x < y
               PROVE  Below(x) \in SUBSET Below(y) /\ Below(x) # Below(y)
    OBVIOUS
  <2>1. \A w \in S : w <= x => w <= y
    OBVIOUS
  <2>2. y \in Below(y) /\ y \notin Below(x)
    OBVIOUS
  <2> QED
    BY <2>1, <2>2
<1>4. Rank(S, x) = Cardinality(Below(x)) /\ Rank(S, y) = Cardinality(Below(y))
  BY DEF Rank
<1> HIDE DEF Below
<1>5. Cardinality(S) \in Nat
  BY FS_CardinalityType
<1>6. Cardinality(Below(x)) # 0
  BY <1>1, <1>2, FS_EmptySet
<1>7. x < y => Cardinality(Below(x)) < Cardinality(Below(y))
  <2>1. x < y => Cardinality(Below(x)) <= Cardinality(Below(y))
                 /\ Cardinality(Below(x)) # Cardinality(Below(y))
    BY <1>1, <1>3, FS_Subset
  <2> QED
    BY <1>1, <2>1
<1> QED
  BY <1>1, <1>4, <1>5, <1>6, <1>7

(* Sorted lists every member of a finite set of numbers once.              *)
LEMMA SortedLists ==
  ASSUME NEW S \in SUBSET Nat, IsFiniteSet(S)
  PROVE  /\ Store!Sorted(S) \in Seq(S)
         /\ OneToOne(Store!Sorted(S))
<1> DEFINE n == Cardinality(S)
<1>n. n \in Nat
  BY FS_CardinalityType
<1>1. \E s \in [1 .. n -> S] : \A i, j \in 1 .. n : i < j => s[i] < s[j]
  <2> DEFINE f == [x \in S |-> Rank(S, x)]
  <2>1. f \in Injection(S, 1 .. n)
    <3>1. f \in [S -> 1 .. n]
      BY RankRises
    <3>2. \A x, y \in S : x # y => f[x] # f[y]
      <4> SUFFICES ASSUME NEW x \in S, NEW y \in S, x # y
                   PROVE  f[x] # f[y]
        OBVIOUS
      <4>1. x < y \/ y < x
        OBVIOUS
      <4>2. f[x] \in 1 .. n /\ f[y] \in 1 .. n
        BY <3>1
      <4> QED
        BY <4>1, <4>2, <1>n, RankRises
    <3> HIDE DEF f, n
    <3> QED
      BY <3>1, <3>2 DEF Injection, IsInjective
  <2>2. IsFiniteSet(1 .. n) /\ Cardinality(1 .. n) = n
    BY <1>n, FS_Interval
  <2>3. f \in Surjection(S, 1 .. n)
    BY <2>1, <2>2, FS_Injection
  <2>4. \A i \in 1 .. n : \E x \in S : f[x] = i
    BY <2>3 DEF Surjection
  <2> DEFINE s == [i \in 1 .. n |-> CHOOSE x \in S : f[x] = i]
  <2>5. \A i \in 1 .. n : s[i] \in S /\ f[s[i]] = i
    <3> HIDE DEF f
    <3> QED
      BY <2>4
  <2>6. \A i, j \in 1 .. n : i < j => s[i] < s[j]
    <3> SUFFICES ASSUME NEW i \in 1 .. n, NEW j \in 1 .. n, i < j, ~(s[i] < s[j])
                 PROVE  FALSE
      OBVIOUS
    <3>1. s[i] \in S /\ s[j] \in S /\ Rank(S, s[i]) = i /\ Rank(S, s[j]) = j
      BY <2>5
    <3> HIDE DEF s, f
    <3>n. s[i] \in Nat /\ s[j] \in Nat
      BY <3>1
    <3>2. s[j] < s[i] \/ s[j] = s[i]
      BY <3>n
    <3>3. CASE s[j] < s[i]
      <4>1. Rank(S, s[j]) < Rank(S, s[i])
        BY <3>1, <3>3, RankRises
      <4>2. i \in Nat /\ j \in Nat
        BY <1>n
      <4> QED
        BY <3>1, <4>1, <4>2
    <3>4. CASE s[j] = s[i]
      BY <3>1, <3>4, <1>n
    <3> QED
      BY <3>2, <3>3, <3>4
  <2>7. s \in [1 .. n -> S]
    <3>1. \A i \in 1 .. n : s[i] \in S
      BY <2>5
    <3> QED
      BY <3>1
  <2> HIDE DEF s, n
  <2> QED
    BY <2>6, <2>7
<1> DEFINE q == Store!Sorted(S)
<1>2. q \in [1 .. n -> S] /\ \A i, j \in 1 .. n : i < j => q[i] < q[j]
  BY <1>1, SameCardinality DEF Store!Sorted
<1> HIDE DEF q
<1>3. q \in Seq(S)
  BY <1>n, <1>2
<1>4. OneToOne(q)
  <2> SUFFICES ASSUME NEW i \in 1 .. n, NEW j \in 1 .. n, q[i] = q[j], i # j
               PROVE  FALSE
    BY <1>2 DEF OneToOne
  <2>1. i < j \/ j < i
    BY <1>n
  <2>2. q[i] \in Nat /\ q[j] \in Nat
    BY <1>2
  <2> QED
    BY <1>2, <2>1, <2>2
<1> QED
  BY <1>3, <1>4 DEF q

(* What is left of a sequence in which everything is different, when the   *)
(* entry at place p, or the last one, is dropped.                          *)
LEMMA Removes ==
  ASSUME NEW X, NEW s \in Seq(X), NEW p \in DOMAIN s, OneToOne(s)
  PROVE  /\ Store!RemoveAt(s, p) \in Seq(X)
         /\ OneToOne(Store!RemoveAt(s, p))
         /\ Store!ToSet(Store!RemoveAt(s, p)) = Store!ToSet(s) \ {s[p]}
<1> DEFINE n == Len(s)
           a == SubSeq(s, 1, p - 1)
           b == SubSeq(s, p + 1, n)
           r == a \o b
<1>n. n \in Nat /\ DOMAIN s = 1 .. n /\ p \in 1 .. n
  BY LenProperties
<1>1. /\ a \in Seq(X) /\ Len(a) = p - 1
      /\ \A i \in 1 .. p - 1 : a[i] = s[i]
  BY <1>n, SubSeqProperties
<1>2. /\ b \in Seq(X) /\ Len(b) = n - p
      /\ \A i \in 1 .. n - p : b[i] = s[p + i]
  BY <1>n, SubSeqProperties
<1> HIDE DEF n, a, b
<1>3. r \in Seq(X) /\ Len(r) = n - 1 /\ DOMAIN r = 1 .. n - 1
  BY <1>n, <1>1, <1>2, ConcatProperties, LenProperties
<1>3a. \A i \in 1 .. n - 1 : i < p => r[i] = s[i]
  <2> SUFFICES ASSUME NEW i \in 1 .. n - 1, i < p PROVE r[i] = s[i]
    OBVIOUS
  <2>1. r[i] = a[i]
    BY <1>n, <1>1, <1>2, ConcatProperties
  <2> QED
    BY <1>n, <1>1, <2>1
<1>3b. \A i \in 1 .. n - 1 : ~(i < p) => r[i] = s[i + 1]
  <2> SUFFICES ASSUME NEW i \in 1 .. n - 1, ~(i < p) PROVE r[i] = s[i + 1]
    OBVIOUS
  <2>1. r[i] = b[i - (p - 1)]
    <3>1. i \in 1 .. Len(a) + Len(b) /\ ~(i <= Len(a)) /\ Len(a) = p - 1
      BY <1>n, <1>1, <1>2
    <3>2. r[i] = b[i - Len(a)]
      BY <1>1, <1>2, <3>1, ConcatProperties
    <3> QED
      BY <3>1, <3>2
  <2>2. i - (p - 1) \in 1 .. n - p /\ p + (i - (p - 1)) = i + 1
    BY <1>n
  <2> QED
    BY <1>2, <2>1, <2>2
<1>4. Store!RemoveAt(s, p) = r
  BY DEF Store!RemoveAt, n, a, b
<1> HIDE DEF r
<1>5. OneToOne(r)
  <2> SUFFICES ASSUME NEW i \in 1 .. n - 1, NEW j \in 1 .. n - 1, r[i] = r[j]
               PROVE  i = j
    BY <1>3 DEF OneToOne
  <2> DEFINE At(k) == IF k < p THEN k ELSE k + 1
  <2>1. At(i) \in DOMAIN s /\ At(j) \in DOMAIN s
    BY <1>n
  <2>2. s[At(i)] = r[i] /\ s[At(j)] = r[j]
    BY <1>3a, <1>3b
  <2>3. At(i) = At(j)
    <3> HIDE DEF At
    <3> QED
      BY <2>1, <2>2 DEF OneToOne
  <2> QED
    BY <1>n, <2>3
<1>6. \A i \in DOMAIN r : \E j \in DOMAIN s : j # p /\ r[i] = s[j]
  <2> TAKE i \in DOMAIN r
  <2> QED
    BY <1>n, <1>3, <1>3a, <1>3b
<1>7. \A j \in DOMAIN s : j # p => \E i \in DOMAIN r : r[i] = s[j]
  <2> SUFFICES ASSUME NEW j \in DOMAIN s, j # p
               PROVE  \E i \in DOMAIN r : r[i] = s[j]
    OBVIOUS
  <2>1. CASE j < p
    <3>1. j \in DOMAIN r /\ r[j] = s[j]
      BY <1>n, <1>3, <1>3a, <2>1
    <3> QED
      BY <3>1
  <2>2. CASE j > p
    <3>1. j - 1 \in DOMAIN r /\ r[j - 1] = s[j]
      BY <1>n, <1>3, <1>3b, <2>2
    <3> QED
      BY <3>1
  <2> QED
    BY <1>n, <2>1, <2>2
<1>8. Store!ToSet(r) = Store!ToSet(s) \ {s[p]}
  BY <1>6, <1>7 DEF Store!ToSet, OneToOne
<1> QED
  BY <1>3, <1>4, <1>5, <1>8

LEMMA Shortens ==
  ASSUME NEW X, NEW s \in Seq(X), OneToOne(s)
  PROVE  /\ Store!Front(s) \in Seq(X)
         /\ OneToOne(Store!Front(s))
         /\ Store!ToSet(Store!Front(s)) \subseteq Store!ToSet(s)
<1> DEFINE n == Len(s)
           r == SubSeq(s, 1, n - 1)
<1>n. n \in Nat /\ DOMAIN s = 1 .. n
  BY LenProperties
<1>1. r \in Seq(X) /\ \A i \in DOMAIN r : i \in DOMAIN s /\ r[i] = s[i]
  BY <1>n, SubSeqProperties
<1>2. Store!Front(s) = r
  BY DEF Store!Front
<1> HIDE DEF n, r
<1> QED
  BY <1>1, <1>2 DEF Store!ToSet, OneToOne

-----------------------------------------------------------------------------
(* The inductive invariant of ScriptStore *)

Changes ==
  [at : {"list", "blob", "save", "find", "erase", "drop"}, id : Ids,
   from : {"upload", "freed", "message"}, size : Nat, place : Nat, alone : BOOLEAN]

Uploads(n) ==
  [state : {"active"}, id : Ids, total : {n}, received : 0 .. n, buffer : [1 .. n -> Store!Chunks]]

(* What was received of an upload was sent for its script.                  *)
UploadIsOneScript ==
  \/ upload = Store!NoUpload
  \/ \E n \in Sizes : /\ upload \in Uploads(n)
                      /\ \A i \in 1 .. upload.received : upload.buffer[i] = upload.id

ChangesTyped == change \in [Tasks -> Changes \cup {Store!Idle}]

(* Only a commit uses the buffer.                                           *)
DeletesByMessage ==
  \A t \in Tasks : change[t].at \in {"find", "erase", "drop"} => change[t].from = "message"

(* A change that overlapped with no other is the only one.                  *)
AloneIsOnly ==
  \A t, u \in Tasks : Store!Busy(t) /\ change[t].alone /\ Store!Busy(u) => u = t

(* A script is hurt from when its change overlaps, or loses its buffer.     *)
OverlapHurts ==
  \A t \in Tasks :
    Store!Busy(t) /\ (~change[t].alone \/ change[t].from = "freed") => change[t].id \in hurt

(* A commit that still has its buffer has all of the script in it.          *)
UploadIsHeld ==
  \A t \in Tasks : Store!Commits(t) => Store!Receives(change[t].id) /\ Store!Complete(upload)

JobsInv ==
  /\ ChangesTyped /\ UploadIsOneScript /\ DeletesByMessage
  /\ AloneIsOnly /\ OverlapHurts /\ UploadIsHeld

(* What a step of another task may do to the change of task u.              *)
OtherKept(u) ==
  /\ change'[u].at = change[u].at
  /\ Store!Busy(u) =>
       /\ change'[u].id = change[u].id /\ change'[u].place = change[u].place
       /\ \/ change'[u].from = change[u].from
          \/ change[u].from = "upload" /\ change'[u].from = "freed"
       /\ change'[u].alone => change[u].alone
       /\ ~change'[u].alone \/ change'[u].from = "freed" =>
            change[u].id \in hurt' \/ ~change[u].alone \/ change[u].from = "freed"

LEMMA ChangeOf ==
  ASSUME ChangesTyped, NEW t \in Tasks
  PROVE  /\ change[t] = Store!Idle \/ change[t] \in Changes
         /\ Store!Busy(t) => change[t] \in Changes
         /\ change[t] \in Changes => Store!Busy(t)
         /\ ~Store!Busy(t) => change[t] = Store!Idle
         /\ Store!Commits(t) => Store!Busy(t)
BY DEF ChangesTyped, Changes, Store!Idle, Store!Busy, Store!Commits

(* A change starts: every other one overlaps.                               *)
LEMMA StartKeeps ==
  ASSUME JobsInv, NEW t \in Tasks, ~Store!Busy(t), NEW at \in {"list", "find"}, NEW id \in Ids,
         NEW from \in {"upload", "message"}, NEW size \in Nat,
         at = "find" => from = "message", Store!Starts(t, at, id, from, size)
  PROVE  /\ ChangesTyped' /\ hurt \subseteq hurt'
         /\ \A u \in Tasks \ {t} : OtherKept(u) /\ (Store!Busy(u) => ~change'[u].alone)
         /\ \A u \in Tasks \ {t} : change'[u].from = "upload" /\ Store!Busy(u) => Store!Commits(u)
         /\ change'[t].at = at /\ change'[t].id = id /\ change'[t].from = from
         /\ change'[t].alone => \A u \in Tasks \ {t} : ~Store!Busy(u)
         /\ ~change'[t].alone => id \in hurt'
<1> DEFINE new == Store!Change(at, id, from, size, Store!Others(t) = {})
<1>1. new \in Changes
  BY DEF Changes, Store!Change
<1>2. /\ new.at = at /\ new.id = id /\ new.from = from
      /\ new.alone = (Store!Others(t) = {})
  BY DEF Store!Change
<1> HIDE DEF new
<1>3. /\ change' = [u \in Tasks |->
            IF u = t THEN new
            ELSE IF Store!Busy(u) THEN [change[u] EXCEPT !.alone = FALSE] ELSE Store!Idle]
      /\ hurt' = IF Store!Others(t) = {} THEN hurt
                 ELSE hurt \cup {id} \cup {change[u].id : u \in Store!Others(t)}
  BY DEF Store!Starts, new
<1>4. change'[t] = new
  BY <1>3
<1>5. ASSUME NEW u \in Tasks \ {t}
      PROVE  /\ change'[u] \in Changes \cup {Store!Idle}
             /\ OtherKept(u) /\ (Store!Busy(u) => ~change'[u].alone)
             /\ change'[u].from = "upload" /\ Store!Busy(u) => Store!Commits(u)
  <2>1. CASE Store!Busy(u)
    <3>1. change'[u] = [change[u] EXCEPT !.alone = FALSE] /\ change[u] \in Changes
      BY <1>3, <2>1, ChangeOf DEF JobsInv
    <3>2. /\ change'[u] \in Changes
          /\ change'[u].at = change[u].at /\ change'[u].id = change[u].id
          /\ change'[u].place = change[u].place
          /\ change'[u].from = change[u].from /\ change'[u].alone = FALSE
      BY <3>1 DEF Changes
    <3>3. change[u].id \in hurt'
      BY <1>3, <2>1 DEF Store!Others
    <3> QED
      BY <2>1, <3>2, <3>3 DEF OtherKept, Store!Commits, Store!Busy
  <2>2. CASE ~Store!Busy(u)
    <3>1. change'[u] = Store!Idle /\ change[u] = Store!Idle
      BY <1>3, <2>2, ChangeOf DEF JobsInv
    <3> QED
      BY <2>2, <3>1 DEF OtherKept
  <2> QED
    BY <2>1, <2>2
<1>6. ChangesTyped'
  BY <1>1, <1>3, <1>4, <1>5 DEF ChangesTyped
<1>7. hurt \subseteq hurt' /\ (Store!Others(t) # {} => id \in hurt')
  BY <1>3
<1>8. Store!Others(t) = {} => \A u \in Tasks \ {t} : ~Store!Busy(u)
  BY DEF Store!Others
<1> QED
  BY <1>2, <1>4, <1>5, <1>6, <1>7, <1>8

(* An upload begins or ends: every commit from the buffer loses it.  j is   *)
(* what the task of the step makes of the changes.                          *)
LEMMA FreedKeeps ==
  ASSUME JobsInv, NEW t \in Tasks, NEW j, j = change \/ j = [change EXCEPT ![t] = Store!Idle],
         j = change => ~Store!Busy(t),
         change' = Store!Freed(j), Store!Victims(Tasks \ {t}) \subseteq hurt'
  PROVE  /\ ChangesTyped' /\ change'[t] = Store!Idle
         /\ \A u \in Tasks \ {t} : OtherKept(u)
         /\ \A u \in Tasks : ~Store!Commits(u)'
<1>1. \A u \in Tasks \ {t} : j[u] = change[u]
  BY DEF JobsInv, ChangesTyped
<1>2. j[t] = Store!Idle
  BY ChangeOf DEF JobsInv, ChangesTyped
<1>3. \A u \in Tasks : change'[u] = IF Store!Commits(u) /\ j[u] = change[u]
                                    THEN [j[u] EXCEPT !.from = "freed"] ELSE j[u]
  BY DEF Store!Freed
<1>4. change'[t] = Store!Idle
  <2>1. CASE j = change
    BY <1>2, <1>3, <2>1, ChangeOf DEF JobsInv
  <2>2. CASE j # change
    <3>1. j[t] # change[t]
      <4> SUFFICES ASSUME j[t] = change[t] PROVE FALSE
        OBVIOUS
      <4>1. [change EXCEPT ![t] = Store!Idle] = change
        BY <1>2 DEF JobsInv, ChangesTyped
      <4> QED
        BY <2>2, <4>1
    <3> QED
      BY <1>2, <1>3, <3>1
  <2> QED
    BY <2>1, <2>2
<1>5. ASSUME NEW u \in Tasks \ {t}
      PROVE  change'[u] \in Changes \cup {Store!Idle} /\ OtherKept(u) /\ ~Store!Commits(u)'
  <2>1. CASE Store!Commits(u)
    <3>1. change'[u] = [change[u] EXCEPT !.from = "freed"] /\ change[u] \in Changes
      BY <1>1, <1>3, <2>1, ChangeOf DEF JobsInv
    <3>2. /\ change'[u] \in Changes
          /\ change'[u].at = change[u].at /\ change'[u].id = change[u].id
          /\ change'[u].place = change[u].place
          /\ change'[u].from = "freed" /\ change'[u].alone = change[u].alone
      BY <3>1 DEF Changes
    <3>3. change[u].id \in hurt'
      BY <2>1 DEF Store!Victims
    <3>4. OtherKept(u)
      BY <2>1, <3>2, <3>3 DEF OtherKept, Store!Commits
    <3>5. ~Store!Commits(u)'
      BY <3>2 DEF Store!Commits
    <3> QED
      BY <3>2, <3>4, <3>5
  <2>2. CASE ~Store!Commits(u)
    <3>1. change'[u] = change[u]
      BY <1>1, <1>3, <2>2
    <3>2. ~Store!Commits(u)'
      BY <2>2, <3>1 DEF Store!Commits
    <3> QED
      BY <3>1, <3>2, ChangeOf DEF OtherKept, JobsInv
  <2> QED
    BY <2>1, <2>2
<1>6. ~Store!Commits(t)'
  BY <1>4 DEF Store!Commits, Store!Idle
<1>7. change' \in [Tasks -> Changes \cup {Store!Idle}]
  <2>1. \A u \in Tasks : change'[u] \in Changes \cup {Store!Idle}
    BY <1>4, <1>5
  <2>2. DOMAIN change' = Tasks
    BY DEF Store!Freed
  <2>3. change' = [u \in Tasks |-> change'[u]]
    BY DEF Store!Freed
  <2> QED
    BY <2>1, <2>3
<1> QED
  BY <1>4, <1>5, <1>6, <1>7 DEF ChangesTyped

(* A step of task t, as far as the changes and the upload go.               *)
Moves(t) ==
  /\ \A u \in Tasks \ {t} : OtherKept(u)
  /\ (\E u \in Tasks \ {t} : Store!Busy(u)) => hurt \subseteq hurt'
  /\ change'[t].at \in {"find", "erase", "drop"} => change'[t].from = "message"
  /\ Store!Busy(t)' =>
       /\ change'[t].alone => \A u \in Tasks \ {t} : ~Store!Busy(u)
       /\ ~change'[t].alone \/ change'[t].from = "freed" => change'[t].id \in hurt'
       /\ \A u \in Tasks \ {t} : Store!Busy(u) => ~change'[u].alone

LEMMA MovesKeepJobs ==
  ASSUME JobsInv, NEW t \in Tasks, Moves(t), ChangesTyped', UploadIsOneScript', UploadIsHeld'
  PROVE  JobsInv'
<1>1. \A u \in Tasks \ {t} : OtherKept(u)
  BY DEF Moves
<1>2. \A u \in Tasks \ {t} : Store!Busy(u)' = Store!Busy(u)
  BY <1>1 DEF OtherKept, Store!Busy
<1>3. DeletesByMessage'
  <2> SUFFICES ASSUME NEW u \in Tasks, change'[u].at \in {"find", "erase", "drop"}
               PROVE  change'[u].from = "message"
    BY DEF DeletesByMessage
  <2>1. CASE u = t
    BY <2>1 DEF Moves
  <2>2. CASE u # t
    <3>1. change[u].at \in {"find", "erase", "drop"} /\ Store!Busy(u) /\ OtherKept(u)
      BY <1>1, <2>2 DEF OtherKept, Store!Busy
    <3>2. change[u].from = "message"
      BY <3>1 DEF JobsInv, DeletesByMessage
    <3> QED
      BY <3>1, <3>2 DEF OtherKept
  <2> QED
    BY <2>1, <2>2
<1>4. AloneIsOnly'
  <2> SUFFICES ASSUME NEW u \in Tasks, NEW v \in Tasks,
                      Store!Busy(u)', change'[u].alone, Store!Busy(v)', v # u
               PROVE  FALSE
    BY DEF AloneIsOnly
  <2>1. CASE u = t
    BY <1>2, <2>1 DEF Moves
  <2>2. CASE v = t
    BY <1>2, <2>2 DEF Moves
  <2>3. CASE u # t /\ v # t
    <3>1. Store!Busy(u) /\ Store!Busy(v) /\ change[u].alone
      BY <1>1, <1>2, <2>3 DEF OtherKept
    <3> QED
      BY <3>1 DEF JobsInv, AloneIsOnly
  <2> QED
    BY <2>1, <2>2, <2>3
<1>5. OverlapHurts'
  <2> SUFFICES ASSUME NEW u \in Tasks, Store!Busy(u)', ~change'[u].alone \/ change'[u].from = "freed"
               PROVE  change'[u].id \in hurt'
    BY DEF OverlapHurts
  <2>1. CASE u = t
    BY <2>1 DEF Moves
  <2>2. CASE u # t
    <3>1. Store!Busy(u) /\ OtherKept(u) /\ hurt \subseteq hurt'
      BY <1>1, <1>2, <2>2 DEF Moves
    <3>2. change[u].id \in hurt' \/ ~change[u].alone \/ change[u].from = "freed"
      BY <3>1 DEF OtherKept
    <3>3. change[u].id \in hurt'
      BY <3>1, <3>2 DEF JobsInv, OverlapHurts
    <3> QED
      BY <3>1, <3>3 DEF OtherKept
  <2> QED
    BY <2>1, <2>2
<1> QED
  BY <1>3, <1>4, <1>5 DEF JobsInv

(* A task goes on with its change.                                          *)
LEMMA GoesKeeps ==
  ASSUME JobsInv, NEW t \in Tasks, Store!Busy(t), NEW c \in Changes,
         c.id = change[t].id, c.from = change[t].from, c.alone = change[t].alone,
         c.at \in {"find", "erase", "drop"} => c.from = "message",
         change' = [change EXCEPT ![t] = c], UNCHANGED <<upload, hurt>>
  PROVE  Moves(t) /\ JobsInv'
<1>1. change'[t] = c /\ \A u \in Tasks \ {t} : change'[u] = change[u]
  BY DEF JobsInv, ChangesTyped
<1>2. ChangesTyped'
  BY DEF JobsInv, ChangesTyped
<1>3. \A u \in Tasks \ {t} : OtherKept(u)
  BY <1>1 DEF OtherKept
<1>4. \A u \in Tasks \ {t} : Store!Busy(u) => ~change[u].alone
  BY DEF JobsInv, AloneIsOnly
<1>5. change[t].alone => \A u \in Tasks \ {t} : ~Store!Busy(u)
  BY DEF JobsInv, AloneIsOnly
<1>6. ~change[t].alone \/ change[t].from = "freed" => change[t].id \in hurt'
  BY DEF JobsInv, OverlapHurts
<1>7. Moves(t)
  BY <1>1, <1>3, <1>4, <1>5, <1>6 DEF Moves
<1>8. UploadIsHeld'
  <2> SUFFICES ASSUME NEW u \in Tasks, Store!Commits(u)'
               PROVE  Store!Receives(change[u].id)' /\ Store!Complete(upload)
    BY <1>1 DEF UploadIsHeld
  <2>1. Store!Commits(u) /\ change'[u].id = change[u].id
    BY <1>1 DEF Store!Commits, Store!Busy
  <2> QED
    BY <2>1 DEF JobsInv, UploadIsHeld, Store!Receives, Store!Active
<1>9. UploadIsOneScript'
  BY DEF JobsInv, UploadIsOneScript
<1> QED
  BY <1>2, <1>7, <1>8, <1>9, MovesKeepJobs

(* A task is done with its change.                                          *)
LEMMA EndsKeeps ==
  ASSUME JobsInv, NEW t \in Tasks, Store!Busy(t), Store!Ends(t), Store!Spoiled(t) \subseteq hurt',
         (\E u \in Tasks \ {t} : Store!Busy(u)) => hurt \subseteq hurt'
  PROVE  Moves(t) /\ JobsInv' /\ change'[t] = Store!Idle
<1>1. CASE Store!FromUpload(t)
  <2>1. upload' = Store!NoUpload /\ change' = Store!Freed([change EXCEPT ![t] = Store!Idle])
    BY <1>1 DEF Store!Ends
  <2>2. Store!Victims(Tasks \ {t}) \subseteq hurt'
    BY <1>1 DEF Store!Spoiled
  <2>3. change # [change EXCEPT ![t] = Store!Idle]
    BY ChangeOf DEF JobsInv, ChangesTyped, Store!Busy, Store!Idle
  <2>4. /\ ChangesTyped' /\ change'[t] = Store!Idle
        /\ \A u \in Tasks \ {t} : OtherKept(u)
        /\ \A u \in Tasks : ~Store!Commits(u)'
    BY <2>1, <2>2, <2>3, FreedKeeps
  <2>5. ~Store!Busy(t)' /\ change'[t].at = "idle"
    BY <2>4 DEF Store!Busy, Store!Idle
  <2>6. Moves(t)
    BY <2>4, <2>5 DEF Moves
  <2>7. UploadIsOneScript' /\ UploadIsHeld'
    BY <2>1, <2>4 DEF UploadIsOneScript, UploadIsHeld
  <2> QED
    BY <2>4, <2>6, <2>7, MovesKeepJobs
<1>2. CASE ~Store!FromUpload(t)
  <2>1. upload' = upload /\ change' = [change EXCEPT ![t] = Store!Idle]
    BY <1>2 DEF Store!Ends
  <2>2. change'[t] = Store!Idle /\ \A u \in Tasks \ {t} : change'[u] = change[u]
    BY <2>1 DEF JobsInv, ChangesTyped
  <2>3. ChangesTyped'
    BY <2>1 DEF JobsInv, ChangesTyped
  <2>4. \A u \in Tasks \ {t} : OtherKept(u)
    BY <2>2 DEF OtherKept
  <2>5. ~Store!Busy(t)' /\ change'[t].at = "idle"
    BY <2>2 DEF Store!Busy, Store!Idle
  <2>6. Moves(t)
    BY <2>4, <2>5 DEF Moves
  <2>7. UploadIsHeld'
    <3> SUFFICES ASSUME NEW u \in Tasks, Store!Commits(u)'
                 PROVE  Store!Receives(change[u].id)' /\ Store!Complete(upload) /\ change'[u] = change[u]
      BY <2>1 DEF UploadIsHeld, Store!Receives, Store!Active
    <3>1. Store!Commits(u) /\ change'[u] = change[u]
      BY <2>2, <2>5 DEF Store!Commits, Store!Busy
    <3> QED
      BY <2>1, <3>1 DEF JobsInv, UploadIsHeld, Store!Receives, Store!Active
  <2>8. UploadIsOneScript'
    BY <2>1 DEF JobsInv, UploadIsOneScript
  <2> QED
    BY <2>2, <2>3, <2>6, <2>7, <2>8, MovesKeepJobs
<1> QED
  BY <1>1, <1>2

(* A chunk is accepted into the upload only where it belongs.               *)
LEMMA ChunkFits ==
  ASSUME UploadIsOneScript, NEW id \in Ids, NEW offset, Store!Accepts(id, offset),
         upload' = Store!WithChunk(id, offset)
  PROVE  /\ UploadIsOneScript' /\ ~Store!Complete(upload)
         /\ Store!Active' /\ upload'.id = upload.id /\ upload'.total = upload.total
<1>1. /\ upload.state = "active" /\ upload.id = id
      /\ offset = upload.received /\ offset < upload.total
  BY DEF Store!Accepts, Store!Receives, Store!Active
<1>2. PICK n \in Sizes : /\ upload \in Uploads(n)
                         /\ \A i \in 1 .. upload.received : upload.buffer[i] = upload.id
  BY <1>1 DEF UploadIsOneScript, Store!NoUpload
<1>3. n \in Nat /\ upload.total = n /\ upload.received \in 0 .. n
  BY <1>2, ConfigAssumption DEF Uploads
<1>4. ~Store!Complete(upload)
  BY <1>1, <1>3 DEF Store!Complete
<1>5. upload' = [upload EXCEPT !.buffer = [upload.buffer EXCEPT ![upload.received + 1] = id],
                              !.received = upload.received + 1]
  BY <1>1 DEF Store!WithChunk
<1>6. id \in Store!Chunks /\ upload.received + 1 \in 1 .. n
  BY <1>1, <1>3 DEF Store!Chunks
<1>7. [upload.buffer EXCEPT ![upload.received + 1] = id] \in [1 .. n -> Store!Chunks]
  BY <1>2, <1>6 DEF Uploads
<1>8. upload' \in Uploads(n)
  <2> DEFINE b == [upload.buffer EXCEPT ![upload.received + 1] = id]
             r == upload.received + 1
  <2>1. b \in [1 .. n -> Store!Chunks] /\ r \in 0 .. n
    BY <1>3, <1>6, <1>7
  <2>2. upload' = [upload EXCEPT !.buffer = b, !.received = r]
    BY <1>5
  <2> HIDE DEF b, r
  <2> QED
    BY <1>2, <2>1, <2>2 DEF Uploads
<1>9. /\ upload'.state = upload.state /\ upload'.id = upload.id /\ upload'.total = upload.total
      /\ upload'.received = upload.received + 1
      /\ upload'.buffer = [upload.buffer EXCEPT ![upload.received + 1] = id]
  BY <1>2, <1>5 DEF Uploads
<1>10. \A i \in 1 .. upload'.received : upload'.buffer[i] = upload'.id
  <2> SUFFICES ASSUME NEW i \in 1 .. upload.received + 1
               PROVE  upload'.buffer[i] = id
    BY <1>1, <1>9
  <2>1. upload.buffer \in [1 .. n -> Store!Chunks] /\ i \in 1 .. n
    BY <1>2, <1>3, <1>6 DEF Uploads
  <2>2. CASE i = upload.received + 1
    BY <1>9, <2>1, <2>2
  <2>3. CASE i # upload.received + 1
    <3>1. i \in 1 .. upload.received
      BY <1>3, <2>3
    <3> QED
      BY <1>1, <1>2, <1>9, <2>1, <2>3, <3>1
  <2> QED
    BY <2>2, <2>3
<1>11. UploadIsOneScript'
  BY <1>8, <1>10 DEF UploadIsOneScript
<1> QED
  BY <1>1, <1>4, <1>9, <1>11 DEF Store!Active

(* A request of a phone leaves the store as it is.                          *)
LEMMA RequestMoves ==
  ASSUME JobsInv, NEW t \in Tasks, Store!Requests(t)
  PROVE  /\ JobsInv' /\ Moves(t) /\ ~Store!Busy(t)
         /\ change'[t].at \in {"idle", "list", "find"}
         /\ hurt \subseteq hurt' /\ UNCHANGED <<index, loaded, flash, blob>>
<1> DEFINE Goal ==
      /\ JobsInv' /\ Moves(t) /\ ~Store!Busy(t)
      /\ change'[t].at \in {"idle", "list", "find"}
      /\ hurt \subseteq hurt' /\ UNCHANGED <<index, loaded, flash, blob>>
<1>i. PICK id \in Ids : \/ \E total \in Sizes : Store!Begin(t, id, total)
                        \/ \E offset \in Store!Offsets : Store!Chunk(t, id, offset)
                        \/ Store!Commit(t, id) \/ Store!CommitDirect(t, id) \/ Store!Delete(t, id)
  BY DEF Store!Requests
<1>s. ASSUME ~Store!Busy(t), NEW at \in {"list", "find"}, NEW from \in {"upload", "message"},
             NEW size \in Nat, at = "find" => from = "message",
             Store!Starts(t, at, id, from, size), UploadIsOneScript',
             UNCHANGED <<index, loaded, flash, blob>>,
             \/ upload' = upload
             \/ \A u \in Tasks : ~Store!Commits(u),
             from = "upload" => Store!Receives(id)' /\ Store!Complete(upload)'
      PROVE  Goal
  <2>1. /\ ChangesTyped' /\ hurt \subseteq hurt'
        /\ \A u \in Tasks \ {t} : OtherKept(u) /\ (Store!Busy(u) => ~change'[u].alone)
        /\ \A u \in Tasks \ {t} : change'[u].from = "upload" /\ Store!Busy(u) => Store!Commits(u)
        /\ change'[t].at = at /\ change'[t].id = id /\ change'[t].from = from
        /\ change'[t].alone => \A u \in Tasks \ {t} : ~Store!Busy(u)
        /\ ~change'[t].alone => id \in hurt'
    BY <1>s, StartKeeps
  <2>2. Moves(t)
    BY <1>s, <2>1 DEF Moves
  <2>3. UploadIsHeld'
    <3> SUFFICES ASSUME NEW u \in Tasks, Store!Commits(u)'
                 PROVE  Store!Receives(change[u].id)' /\ Store!Complete(upload)'
      BY DEF UploadIsHeld
    <3>1. CASE u = t
      <4>1. from = "upload" /\ change'[u].id = id
        BY <2>1, <3>1 DEF Store!Commits
      <4> QED
        BY <1>s, <4>1 DEF Store!Receives
    <3>2. CASE u # t
      <4>1. Store!Commits(u) /\ change'[u].id = change[u].id
        BY <2>1, <3>2 DEF Store!Commits, OtherKept, Store!Busy
      <4>2. upload' = upload /\ Store!Receives(change[u].id) /\ Store!Complete(upload)
        BY <1>s, <4>1 DEF JobsInv, UploadIsHeld
      <4> QED
        BY <4>1, <4>2 DEF Store!Receives, Store!Active
    <3> QED
      BY <3>1, <3>2
  <2>4. JobsInv'
    BY <1>s, <2>1, <2>2, <2>3, MovesKeepJobs
  <2> QED
    BY <1>s, <2>1, <2>2, <2>4
<1>q. ASSUME UNCHANGED <<change, hurt>>, ~Store!Busy(t), UploadIsOneScript',
             UNCHANGED <<index, loaded, flash, blob>>,
             \/ upload' = upload
             \/ \A u \in Tasks : ~Store!Commits(u)
      PROVE  Goal
  <2>1. change'[t] = Store!Idle /\ ~Store!Busy(t)'
    BY <1>q, ChangeOf DEF JobsInv, Store!Busy
  <2>2. Moves(t)
    BY <1>q, <2>1 DEF Moves, OtherKept, Store!Idle
  <2>3. UploadIsHeld'
    BY <1>q DEF JobsInv, UploadIsHeld, Store!Commits, Store!Receives, Store!Active
  <2>4. ChangesTyped'
    BY <1>q DEF JobsInv, ChangesTyped
  <2>5. JobsInv'
    BY <1>q, <2>2, <2>3, <2>4, MovesKeepJobs
  <2> QED
    BY <1>q, <2>1, <2>2, <2>5 DEF Store!Idle
<1>1. ASSUME NEW total \in Sizes, Store!Begin(t, id, total) PROVE Goal
  <2>1. /\ ~Store!Busy(t) /\ change' = Store!Freed(change)
        /\ hurt' = hurt \cup Store!Victims(Tasks)
        /\ UNCHANGED <<index, loaded, flash, blob>>
    BY <1>1 DEF Store!Begin
  <2>2. Store!Victims(Tasks \ {t}) \subseteq hurt'
    BY <2>1 DEF Store!Victims
  <2>3. /\ ChangesTyped' /\ change'[t] = Store!Idle
        /\ \A u \in Tasks \ {t} : OtherKept(u)
        /\ \A u \in Tasks : ~Store!Commits(u)'
    BY <2>1, <2>2, FreedKeeps
  <2>4. UploadIsHeld'
    BY <2>3 DEF UploadIsHeld
  <2>5. UploadIsOneScript'
    <3>1. CASE upload' = Store!NoUpload
      BY <3>1 DEF UploadIsOneScript
    <3>2. ASSUME NEW n \in {0, 1},
                 upload' = [state |-> "active", id |-> id, total |-> total, received |-> n,
                            buffer |-> [i \in 1 .. total |-> IF i <= n THEN id ELSE Store!Junk]]
          PROVE  UploadIsOneScript'
      <4> DEFINE b == [i \in 1 .. total |-> IF i <= n THEN id ELSE Store!Junk]
      <4>1. total \in Nat \ {0} /\ n \in 0 .. total
        BY ConfigAssumption
      <4>2. b \in [1 .. total -> Store!Chunks]
        BY DEF Store!Chunks
      <4>3. \A i \in 1 .. n : b[i] = id
        BY <4>1
      <4> HIDE DEF b
      <4>4. upload' = [state |-> "active", id |-> id, total |-> total, received |-> n, buffer |-> b]
        BY <3>2 DEF b
      <4>5. upload' \in Uploads(total)
        BY <4>1, <4>2, <4>4 DEF Uploads
      <4> QED
        BY <4>3, <4>4, <4>5 DEF UploadIsOneScript
    <3> QED
      BY <1>1, <3>1, <3>2 DEF Store!Begin
  <2>6. ~Store!Busy(t)' /\ change'[t].at = "idle"
    BY <2>3 DEF Store!Busy, Store!Idle
  <2>7. hurt \subseteq hurt'
    BY <2>1
  <2>8. Moves(t)
    BY <2>3, <2>6, <2>7 DEF Moves
  <2>9. JobsInv'
    BY <2>3, <2>4, <2>5, <2>8, MovesKeepJobs
  <2> QED
    BY <2>1, <2>6, <2>7, <2>8, <2>9
<1>c. ASSUME NEW offset, Store!Accepts(id, offset), upload' = Store!WithChunk(id, offset)
      PROVE  /\ UploadIsOneScript' /\ Store!Receives(id)'
             /\ \A u \in Tasks : ~Store!Commits(u)
  <2>1. /\ UploadIsOneScript' /\ ~Store!Complete(upload)
        /\ Store!Active' /\ upload'.id = upload.id
    BY <1>c, ChunkFits DEF JobsInv
  <2>2. upload.id = id
    BY <1>c DEF Store!Accepts, Store!Receives
  <2> QED
    BY <2>1, <2>2 DEF JobsInv, UploadIsHeld, Store!Receives
<1>2. ASSUME NEW offset \in Store!Offsets, Store!Chunk(t, id, offset) PROVE Goal
  <2>1. /\ ~Store!Busy(t) /\ Store!Accepts(id, offset) /\ upload' = Store!WithChunk(id, offset)
        /\ UNCHANGED <<change, hurt>> /\ UNCHANGED <<index, loaded, flash, blob>>
    BY <1>2 DEF Store!Chunk
  <2> QED
    BY <1>c, <1>q, <2>1
<1>3. ASSUME Store!Commit(t, id) PROVE Goal
  <2>1. /\ ~Store!Busy(t) /\ Store!Receives(id) /\ UNCHANGED <<index, loaded, flash, blob>>
        /\ \/ upload' = upload
           \/ \E offset \in Store!Offsets :
                Store!Accepts(id, offset) /\ upload' = Store!WithChunk(id, offset)
    BY <1>3 DEF Store!Commit
  <2>2. /\ UploadIsOneScript' /\ Store!Receives(id)'
        /\ \/ upload' = upload
           \/ \A u \in Tasks : ~Store!Commits(u)
    <3>1. CASE upload' = upload
      BY <2>1, <3>1 DEF JobsInv, UploadIsOneScript, Store!Receives, Store!Active
    <3> QED
      BY <1>c, <2>1, <3>1
  <2>3. CASE Store!Complete(upload')
    <3>1. Store!Starts(t, "list", id, "upload", upload'.total)
      BY <1>3, <2>3 DEF Store!Commit
    <3>2. upload'.total \in Nat
      <4>1. upload' # Store!NoUpload
        BY <2>2 DEF Store!Receives, Store!Active, Store!NoUpload
      <4>2. PICK n \in Sizes : upload' \in Uploads(n)
        BY <2>2, <4>1 DEF UploadIsOneScript
      <4> QED
        BY <4>2, ConfigAssumption DEF Uploads
    <3>3. Store!Complete(upload)'
      BY <2>3 DEF Store!Complete
    <3> HIDE DEF Goal
    <3> QED
      BY <1>s, <2>1, <2>2, <3>1, <3>2, <3>3
  <2>4. CASE ~Store!Complete(upload')
    <3>1. UNCHANGED <<change, hurt>>
      BY <1>3, <2>4 DEF Store!Commit
    <3> QED
      BY <1>q, <2>1, <2>2, <3>1
  <2> QED
    BY <2>3, <2>4
<1>4. ASSUME Store!CommitDirect(t, id) PROVE Goal
  <2>1. /\ ~Store!Busy(t) /\ Store!Starts(t, "list", id, "message", 1)
        /\ upload' = upload /\ UNCHANGED <<index, loaded, flash, blob>>
    BY <1>4 DEF Store!CommitDirect
  <2>2. UploadIsOneScript'
    BY <2>1 DEF JobsInv, UploadIsOneScript
  <2> HIDE DEF Goal
  <2> QED
    BY <1>s, <2>1, <2>2
<1>5. ASSUME Store!Delete(t, id) PROVE Goal
  <2>1. /\ ~Store!Busy(t) /\ Store!Starts(t, "find", id, "message", 0)
        /\ upload' = upload /\ UNCHANGED <<index, loaded, flash, blob>>
    BY <1>5 DEF Store!Delete
  <2>2. UploadIsOneScript'
    BY <2>1 DEF JobsInv, UploadIsOneScript
  <2> HIDE DEF Goal
  <2> QED
    BY <1>s, <2>1, <2>2
<1> HIDE DEF Goal
<1>6. Goal
  BY <1>i, <1>1, <1>2, <1>3, <1>4, <1>5
<1> QED
  BY <1>6 DEF Goal

(* The scripts whose blob a task is about to write.                         *)
Writing == {change[t].id : t \in {u \in Tasks : change[u].at = "blob"}}

StoreTyped ==
  /\ blob \in [Ids -> Seq(Store!Chunks)]
  /\ index \in Seq(Ids) /\ OneToOne(index)
  /\ flash \in Seq(Ids) /\ OneToOne(flash)

ChangesAlone(t) == Store!Busy(t) /\ change[t].alone

(* When the index is saved the script was written whole.                    *)
SavedIsWritten(t) ==
  change[t].at = "save" /\ change[t].from # "freed" =>
    /\ Store!ToSet(blob[change[t].id]) \subseteq {change[t].id}
    /\ blob[change[t].id] # Store!Missing

(* A deletion drops the entry it found, after the blob.                     *)
FoundInPlace(t) ==
  change[t].at \in {"erase", "drop"} =>
    change[t].place \in DOMAIN index /\ index[change[t].place] = change[t].id
ErasedIsGone(t) == change[t].at = "drop" => blob[change[t].id] = Store!Missing

(* A script in the index has a blob, or is about to get or to lose one.     *)
IndexExists ==
  \A id \in Store!ToSet(index) \ (hurt \cup Store!Deleting \cup Writing) : blob[id] # Store!Missing

DataInv ==
  /\ StoreTyped /\ IndexExists
  /\ \A t \in Tasks : ChangesAlone(t) => SavedIsWritten(t) /\ FoundInPlace(t) /\ ErasedIsGone(t)
  /\ Store!ScriptsWhole /\ Store!ListedScriptsExist

(* While a task changes the store, the others are not alone: what they      *)
(* change is hurt.                                                          *)
LEMMA OthersAreHurt ==
  ASSUME JobsInv, DataInv, NEW t \in Tasks, Store!Busy(t)
  PROVE  /\ \A u \in Tasks \ {t} : Store!Busy(u) => ~change[u].alone /\ change[u].id \in hurt
         /\ \A id \in Store!ToSet(index) \ hurt :
              blob[id] # Store!Missing \/ (id = change[t].id /\ change[t].at \in {"blob", "drop"})
         /\ \A id \in Store!ToSet(flash) \ hurt :
              blob[id] # Store!Missing \/ (id = change[t].id /\ change[t].at = "drop")
<1>1. \A u \in Tasks \ {t} : Store!Busy(u) => ~change[u].alone
  BY DEF JobsInv, AloneIsOnly
<1>2. \A u \in Tasks \ {t} : Store!Busy(u) => change[u].id \in hurt
  BY <1>1 DEF JobsInv, OverlapHurts
<1>3. \A id \in Store!Deleting \ hurt : id = change[t].id /\ change[t].at = "drop"
  BY <1>2 DEF Store!Deleting, Store!Busy
<1>4. \A id \in Writing \ hurt : id = change[t].id /\ change[t].at = "blob"
  BY <1>2 DEF Writing, Store!Busy
<1>5. \A id \in Store!ToSet(index) \ hurt :
        blob[id] # Store!Missing \/ (id = change[t].id /\ change[t].at \in {"blob", "drop"})
  BY <1>3, <1>4 DEF DataInv, IndexExists
<1>6. \A id \in Store!ToSet(flash) \ hurt :
        blob[id] # Store!Missing \/ (id = change[t].id /\ change[t].at = "drop")
  BY <1>3 DEF DataInv, Store!ListedScriptsExist, Store!Listed
<1> QED
  BY <1>1, <1>2, <1>5, <1>6

LEMMA DataHolds ==
  ASSUME JobsInv, JobsInv', DataInv, NEW t \in Tasks, Store!Busy(t), Moves(t), StoreTyped',
         Store!Busy(t)' => change'[t].id = change[t].id,
         \A id \in Store!ToSet(index') \ hurt' :
           blob'[id] # Store!Missing
             \/ (id = change[t].id /\ change'[t].at \in {"blob", "drop"}),
         \A id \in Store!ToSet(flash') \ hurt' :
           blob'[id] # Store!Missing \/ (id = change[t].id /\ change'[t].at = "drop"),
         \A id \in Ids \ hurt' : Store!ToSet(blob'[id]) \subseteq {id},
         ChangesAlone(t)' => SavedIsWritten(t)' /\ FoundInPlace(t)' /\ ErasedIsGone(t)'
  PROVE  DataInv'
<1>1. \A u \in Tasks \ {t} : ~ChangesAlone(u)'
  <2> SUFFICES ASSUME NEW u \in Tasks \ {t}, ChangesAlone(u)' PROVE FALSE
    OBVIOUS
  <2>1. Store!Busy(u) /\ change[u].alone
    BY DEF Moves, OtherKept, ChangesAlone, Store!Busy
  <2> QED
    BY <2>1 DEF JobsInv, AloneIsOnly
<1>2. change'[t].at \in {"blob", "drop"} => Store!Busy(t)'
  BY DEF Store!Busy
<1>3. IndexExists'
  <2> SUFFICES ASSUME NEW id \in Store!ToSet(index') \ hurt',
                      id \notin Store!Deleting', id \notin Writing', blob'[id] = Store!Missing
               PROVE  FALSE
    BY DEF IndexExists, Store!ToSet, Store!Missing
  <2>1. change'[t].id = id /\ change'[t].at \in {"blob", "drop"}
    BY <1>2
  <2> QED
    BY <2>1 DEF Store!Deleting, Writing
<1>4. Store!ListedScriptsExist'
  <2> SUFFICES ASSUME NEW id \in Store!ToSet(flash') \ hurt',
                      id \notin Store!Deleting', blob'[id] = Store!Missing
               PROVE  FALSE
    BY DEF Store!ListedScriptsExist, Store!Listed, Store!ToSet, Store!Missing
  <2>1. change'[t].id = id /\ change'[t].at = "drop"
    BY <1>2
  <2> QED
    BY <2>1 DEF Store!Deleting
<1>5. Store!ScriptsWhole'
  BY DEF Store!ScriptsWhole, Store!ToSet
<1>6. \A u \in Tasks : ChangesAlone(u)' => SavedIsWritten(u)' /\ FoundInPlace(u)' /\ ErasedIsGone(u)'
  BY <1>1
<1> QED
  BY <1>3, <1>4, <1>5, <1>6 DEF DataInv

(* A request of a phone starts a change at most.                            *)
LEMMA RequestKeepsData ==
  ASSUME JobsInv, DataInv, NEW t \in Tasks, Moves(t), ~Store!Busy(t),
         change'[t].at \in {"idle", "list", "find"},
         hurt \subseteq hurt', UNCHANGED <<index, loaded, flash, blob>>
  PROVE  DataInv'
<1>1. \A u \in Tasks \ {t} : change'[u].at = change[u].at
                             /\ (Store!Busy(u) => change'[u].id = change[u].id)
  BY DEF Moves, OtherKept
<1>2. change[t].at = "idle"
  BY DEF Store!Busy
<1>3. Store!Deleting' = Store!Deleting
  BY <1>1, <1>2 DEF Store!Deleting, Store!Busy
<1>4. Writing' = Writing
  BY <1>1, <1>2 DEF Writing, Store!Busy
<1>5. IndexExists'
  BY <1>3, <1>4 DEF DataInv, IndexExists, Store!ToSet, Store!Missing
<1>5a. Store!ListedScriptsExist'
  BY <1>3 DEF DataInv, Store!ListedScriptsExist, Store!Listed, Store!ToSet, Store!Missing
<1>5b. Store!ScriptsWhole'
  BY DEF DataInv, Store!ScriptsWhole, Store!ToSet
<1>5c. StoreTyped'
  BY DEF DataInv, StoreTyped, OneToOne
<1>6. \A u \in Tasks : ChangesAlone(u)' => SavedIsWritten(u)' /\ FoundInPlace(u)' /\ ErasedIsGone(u)'
  <2> SUFFICES ASSUME NEW u \in Tasks, ChangesAlone(u)'
               PROVE  SavedIsWritten(u)' /\ FoundInPlace(u)' /\ ErasedIsGone(u)'
    OBVIOUS
  <2>1. CASE u = t
    BY <2>1 DEF SavedIsWritten, FoundInPlace, ErasedIsGone
  <2>2. CASE u # t
    <3>1. ChangesAlone(u) /\ OtherKept(u)
      BY <2>2 DEF Moves, OtherKept, ChangesAlone, Store!Busy
    <3>2. SavedIsWritten(u) /\ FoundInPlace(u) /\ ErasedIsGone(u)
      BY <3>1 DEF DataInv
    <3>3. change'[u].id = change[u].id /\ change'[u].at = change[u].at
          /\ (change'[u].from # "freed" => change[u].from # "freed")
          /\ (change'[u].place = change[u].place)
      BY <3>1 DEF OtherKept, ChangesAlone
    <3> QED
      BY <3>2, <3>3 DEF SavedIsWritten, FoundInPlace, ErasedIsGone, Store!ToSet, Store!Missing
  <2> QED
    BY <2>1, <2>2
<1> QED
  BY <1>5, <1>5a, <1>5b, <1>5c, <1>6 DEF DataInv

(* What the tasks find in RAM, or in flash after a boot.                    *)
LEMMA IndexedHolds ==
  ASSUME JobsInv, DataInv, NEW t \in Tasks, change[t].at \in {"list", "find"}
  PROVE  /\ Store!Indexed \in Seq(Ids) /\ OneToOne(Store!Indexed)
         /\ \A id \in Store!ToSet(Store!Indexed) \ hurt : blob[id] # Store!Missing
<1>1. Store!Busy(t)
  BY DEF Store!Busy
<1>2. /\ \A id \in Store!ToSet(index) \ hurt : blob[id] # Store!Missing
      /\ \A id \in Store!ToSet(flash) \ hurt : blob[id] # Store!Missing
  BY <1>1, OthersAreHurt
<1>3. Store!Indexed = index \/ Store!Indexed = flash
  BY DEF Store!Indexed
<1> QED
  BY <1>2, <1>3 DEF DataInv, StoreTyped

(* A change that is over.                                                   *)
LEMMA EndHolds ==
  ASSUME JobsInv, DataInv, NEW t \in Tasks, Store!Busy(t), Store!Ends(t), StoreTyped',
         Store!Spoiled(t) \subseteq hurt',
         (\E u \in Tasks \ {t} : Store!Busy(u)) => hurt \subseteq hurt',
         \A id \in Store!ToSet(index') \ hurt' : blob'[id] # Store!Missing,
         \A id \in Store!ToSet(flash') \ hurt' : blob'[id] # Store!Missing,
         \A id \in Ids \ hurt' : Store!ToSet(blob'[id]) \subseteq {id}
  PROVE  JobsInv' /\ DataInv'
<1>1. Moves(t) /\ JobsInv' /\ change'[t] = Store!Idle
  BY EndsKeeps
<1>2. ~Store!Busy(t)' /\ ~ChangesAlone(t)'
  BY <1>1 DEF Store!Busy, ChangesAlone, Store!Idle
<1> QED
  BY <1>1, <1>2, DataHolds

LEMMA FailsHolds ==
  ASSUME JobsInv, DataInv, NEW t \in Tasks, Store!Fails(t)
  PROVE  JobsInv' /\ DataInv'
<1>1. /\ change[t].at \in {"blob", "save", "erase"} /\ Store!Ends(t)
      /\ hurt' = hurt \cup {change[t].id} \cup Store!Spoiled(t)
      /\ UNCHANGED <<index, flash, blob>>
  BY DEF Store!Fails
<1>2. Store!Busy(t)
  BY <1>1 DEF Store!Busy
<1>3. StoreTyped'
  BY <1>1 DEF DataInv, StoreTyped, OneToOne
<1>4. /\ \A id \in Store!ToSet(index) \ hurt' : blob'[id] # Store!Missing
      /\ \A id \in Store!ToSet(flash) \ hurt' : blob'[id] # Store!Missing
  BY <1>1, <1>2, OthersAreHurt
<1>5. \A id \in Ids \ hurt' : Store!ToSet(blob'[id]) \subseteq {id}
  BY <1>1 DEF DataInv, Store!ScriptsWhole
<1> QED
  BY <1>1, <1>2, <1>3, <1>4, <1>5, EndHolds

LEMMA NothingListed == <<>> \in Seq(Ids) /\ OneToOne(<<>>) /\ Store!ToSet(<<>>) = {}
<1> DEFINE e == <<>>
<1>1. e \in Seq(Ids) /\ Len(e) = 0
  BY EmptySeq
<1> HIDE DEF e
<1>2. DOMAIN e = 1 .. 0
  BY <1>1, LenProperties
<1>3. \A i \in 1 .. 0 : FALSE
  OBVIOUS
<1>4. OneToOne(e)
  BY <1>2, <1>3 DEF OneToOne
<1>5. Store!ToSet(e) = {}
  BY <1>2, <1>3 DEF Store!ToSet
<1> QED
  BY <1>1, <1>4, <1>5 DEF e

LEMMA LoadFailsHolds ==
  ASSUME JobsInv, DataInv, NEW t \in Tasks, Store!LoadFails(t)
  PROVE  JobsInv' /\ DataInv'
<1>1. /\ change[t].at \in {"list", "find"} /\ Store!Ends(t) /\ index' = <<>>
      /\ hurt' = hurt \cup Store!Listed(flash) \cup {change[t].id} \cup Store!Spoiled(t)
      /\ UNCHANGED <<flash, blob>>
  BY DEF Store!LoadFails
<1>2. Store!Busy(t)
  BY <1>1 DEF Store!Busy
<1>3. StoreTyped'
  BY <1>1, NothingListed DEF DataInv, StoreTyped, OneToOne
<1>4. /\ \A id \in Store!ToSet(index') \ hurt' : blob'[id] # Store!Missing
      /\ \A id \in Store!ToSet(flash) \ hurt' : blob'[id] # Store!Missing
  BY <1>1, <1>2, OthersAreHurt, NothingListed
<1>5. \A id \in Ids \ hurt' : Store!ToSet(blob'[id]) \subseteq {id}
  BY <1>1 DEF DataInv, Store!ScriptsWhole
<1> QED
  BY <1>1, <1>2, <1>3, <1>4, <1>5, EndHolds

LEMMA FullHolds ==
  ASSUME JobsInv, DataInv, NEW t \in Tasks, Store!Full(t)
  PROVE  JobsInv' /\ DataInv'
<1>1. /\ change[t].at = "list" /\ Store!Ends(t) /\ index' = Store!Indexed
      /\ hurt' = hurt \cup Store!Spoiled(t)
      /\ UNCHANGED <<flash, blob>>
  BY DEF Store!Full
<1>2. Store!Busy(t)
  BY <1>1 DEF Store!Busy
<1>3. /\ Store!Indexed \in Seq(Ids) /\ OneToOne(Store!Indexed)
      /\ \A id \in Store!ToSet(Store!Indexed) \ hurt : blob[id] # Store!Missing
  BY <1>1, IndexedHolds
<1>4. StoreTyped'
  BY <1>1, <1>3 DEF DataInv, StoreTyped, OneToOne
<1>5. /\ \A id \in Store!ToSet(index') \ hurt' : blob'[id] # Store!Missing
      /\ \A id \in Store!ToSet(flash) \ hurt' : blob'[id] # Store!Missing
  BY <1>1, <1>2, <1>3, OthersAreHurt
<1>6. \A id \in Ids \ hurt' : Store!ToSet(blob'[id]) \subseteq {id}
  BY <1>1 DEF DataInv, Store!ScriptsWhole
<1> QED
  BY <1>1, <1>2, <1>4, <1>5, <1>6, EndHolds

LEMMA SaveIndexHolds ==
  ASSUME JobsInv, DataInv, NEW t \in Tasks, Store!SaveIndex(t)
  PROVE  JobsInv' /\ DataInv'
<1>1. /\ change[t].at = "save" /\ Store!Ends(t) /\ flash' = index
      /\ hurt' = IF change[t].alone /\ change[t].from # "freed" THEN hurt \ {change[t].id}
                 ELSE hurt \cup Store!Spoiled(t)
      /\ UNCHANGED <<index, blob>>
  BY DEF Store!SaveIndex
<1>2. Store!Busy(t)
  BY <1>1 DEF Store!Busy
<1>3. StoreTyped'
  BY <1>1 DEF DataInv, StoreTyped, OneToOne
<1>4. \A id \in Store!ToSet(index) \ hurt : blob[id] # Store!Missing
  BY <1>1, <1>2, OthersAreHurt
<1>5. \A id \in Ids \ hurt : Store!ToSet(blob[id]) \subseteq {id}
  BY DEF DataInv, Store!ScriptsWhole
<1>6. CASE change[t].alone /\ change[t].from # "freed"
  <2>1. /\ Store!ToSet(blob[change[t].id]) \subseteq {change[t].id}
        /\ blob[change[t].id] # Store!Missing
    BY <1>1, <1>2, <1>6 DEF DataInv, ChangesAlone, SavedIsWritten
  <2>2. \A u \in Tasks \ {t} : ~Store!Busy(u)
    BY <1>2, <1>6 DEF JobsInv, AloneIsOnly
  <2>3. Store!Spoiled(t) \subseteq hurt'
    BY <2>2 DEF Store!Spoiled, Store!Victims, Store!Commits, Store!Busy
  <2>4. hurt' = hurt \ {change[t].id}
    BY <1>1, <1>6
  <2>5. \A id \in Store!ToSet(index) \ hurt' : blob[id] # Store!Missing
    BY <1>4, <2>1, <2>4
  <2>6. \A id \in Ids \ hurt' : Store!ToSet(blob[id]) \subseteq {id}
    BY <1>5, <2>1, <2>4
  <2> QED
    BY <1>1, <1>2, <1>3, <2>2, <2>3, <2>5, <2>6, EndHolds
<1>7. CASE ~(change[t].alone /\ change[t].from # "freed")
  <2>1. hurt' = hurt \cup Store!Spoiled(t)
    BY <1>1, <1>7
  <2> QED
    BY <1>1, <1>2, <1>3, <1>4, <1>5, <2>1, EndHolds
<1> QED
  BY <1>6, <1>7

LEMMA DropHolds ==
  ASSUME JobsInv, DataInv, NEW t \in Tasks, Store!Drop(t)
  PROVE  JobsInv' /\ DataInv'
<1>1. /\ change[t].at = "drop" /\ Store!Ends(t) /\ index' = Store!Dropped(t)
      /\ \/ flash' = index' /\ hurt' = IF change[t].alone THEN hurt \ {change[t].id} ELSE hurt
         \/ flash' = flash /\ hurt' = hurt \cup {change[t].id}
      /\ blob' = blob
  BY DEF Store!Drop
<1>2. Store!Busy(t)
  BY <1>1 DEF Store!Busy
<1>3. Store!Spoiled(t) = {}
  BY <1>1 DEF JobsInv, DeletesByMessage, Store!Spoiled, Store!FromUpload
<1>4. /\ index' \in Seq(Ids) /\ OneToOne(index')
      /\ Store!ToSet(index') \subseteq Store!ToSet(index)
      /\ change[t].place \in DOMAIN index =>
           Store!ToSet(index') = Store!ToSet(index) \ {index[change[t].place]}
  <2>1. index \in Seq(Ids) /\ OneToOne(index)
    BY DEF DataInv, StoreTyped
  <2>2. CASE change[t].place \in DOMAIN index
    <3>1. index' = Store!RemoveAt(index, change[t].place)
      BY <1>1, <2>2 DEF Store!Dropped
    <3> QED
      BY <2>1, <2>2, <3>1, Removes
  <2>3. CASE change[t].place \notin DOMAIN index
    <3>1. index' = Store!Front(index)
      BY <1>1, <2>3 DEF Store!Dropped
    <3> QED
      BY <2>1, <2>3, <3>1, Shortens
  <2> QED
    BY <2>2, <2>3
<1>5. StoreTyped'
  BY <1>1, <1>4 DEF DataInv, StoreTyped, OneToOne
<1>6. /\ \A id \in Store!ToSet(index) \ hurt : blob[id] # Store!Missing \/ id = change[t].id
      /\ \A id \in Store!ToSet(flash) \ hurt : blob[id] # Store!Missing \/ id = change[t].id
  BY <1>1, <1>2, OthersAreHurt
<1>7. \A id \in Ids \ hurt : Store!ToSet(blob[id]) \subseteq {id}
  BY DEF DataInv, Store!ScriptsWhole
<1>8. CASE hurt' = hurt \cup {change[t].id} /\ flash' = flash
  <2>1. \A id \in Store!ToSet(index') \ hurt' : blob[id] # Store!Missing
    BY <1>4, <1>6, <1>8
  <2>2. \A id \in Store!ToSet(flash') \ hurt' : blob[id] # Store!Missing
    BY <1>6, <1>8
  <2> QED
    BY <1>1, <1>2, <1>3, <1>5, <1>7, <1>8, <2>1, <2>2, EndHolds
<1>9. CASE ~change[t].alone /\ hurt' = hurt /\ flash' = index'
  <2>1. change[t].id \in hurt
    BY <1>2, <1>9 DEF JobsInv, OverlapHurts
  <2>2. \A id \in Store!ToSet(index') \ hurt' : blob[id] # Store!Missing
    BY <1>4, <1>6, <1>9, <2>1
  <2> QED
    BY <1>1, <1>2, <1>3, <1>5, <1>7, <1>9, <2>2, EndHolds
<1>10. CASE change[t].alone /\ hurt' = hurt \ {change[t].id} /\ flash' = index'
  <2>1. /\ change[t].place \in DOMAIN index /\ index[change[t].place] = change[t].id
        /\ blob[change[t].id] = Store!Missing
    BY <1>1, <1>2, <1>10 DEF DataInv, ChangesAlone, FoundInPlace, ErasedIsGone
  <2>2. \A u \in Tasks \ {t} : ~Store!Busy(u)
    BY <1>2, <1>10 DEF JobsInv, AloneIsOnly
  <2>3. \A id \in Store!ToSet(index') \ hurt' : blob[id] # Store!Missing
    BY <1>4, <1>6, <1>10, <2>1
  <2>4. \A id \in Ids \ hurt' : Store!ToSet(blob[id]) \subseteq {id}
    BY <1>7, <1>10, <2>1, NothingListed DEF Store!Missing
  <2> QED
    BY <1>1, <1>2, <1>3, <1>5, <1>10, <2>2, <2>3, <2>4, EndHolds
<1> QED
  BY <1>1, <1>8, <1>9, <1>10

(* A change that goes on.                                                   *)
LEMMA ChangeGoesOn ==
  ASSUME JobsInv, DataInv, NEW t \in Tasks, Store!Busy(t), NEW c \in Changes,
         c.id = change[t].id, c.from = change[t].from, c.alone = change[t].alone,
         c.at \in {"find", "erase", "drop"} => c.from = "message",
         change' = [change EXCEPT ![t] = c], UNCHANGED <<upload, hurt>>, StoreTyped',
         \A id \in Store!ToSet(index') \ hurt :
           blob'[id] # Store!Missing \/ (id = change[t].id /\ c.at \in {"blob", "drop"}),
         \A id \in Store!ToSet(flash') \ hurt :
           blob'[id] # Store!Missing \/ (id = change[t].id /\ c.at = "drop"),
         \A id \in Ids \ hurt : Store!ToSet(blob'[id]) \subseteq {id},
         change[t].alone =>
           /\ c.at = "save" /\ c.from # "freed" =>
                Store!ToSet(blob'[c.id]) \subseteq {c.id} /\ blob'[c.id] # Store!Missing
           /\ c.at \in {"erase", "drop"} => c.place \in DOMAIN index' /\ index'[c.place] = c.id
           /\ c.at = "drop" => blob'[c.id] = Store!Missing
  PROVE  JobsInv' /\ DataInv'
<1>1. Moves(t) /\ JobsInv'
  BY GoesKeeps
<1>2. change'[t] = c
  BY DEF JobsInv, ChangesTyped
<1>3. ChangesAlone(t)' => SavedIsWritten(t)' /\ FoundInPlace(t)' /\ ErasedIsGone(t)'
  BY <1>2 DEF ChangesAlone, SavedIsWritten, FoundInPlace, ErasedIsGone, Store!ToSet, Store!Missing
<1>4. hurt' = hurt
  OBVIOUS
<1> QED
  BY <1>1, <1>2, <1>3, <1>4, DataHolds

LEMMA ListHolds ==
  ASSUME JobsInv, DataInv, NEW t \in Tasks, Store!List(t)
  PROVE  JobsInv' /\ DataInv'
<1> DEFINE all == Store!Listed(Store!Indexed) \cup {change[t].id}
           c == [change[t] EXCEPT !.at = "blob"]
<1>1. /\ change[t].at = "list" /\ index' = Store!Sorted(all)
      /\ change' = [change EXCEPT ![t] = c]
      /\ UNCHANGED <<upload, flash, blob, hurt>>
  <2>1. change' = [change EXCEPT ![t].at = "blob"]
    BY DEF Store!List, Store!Goes
  <2> QED
    BY <2>1 DEF Store!List
<1>2. Store!Busy(t)
  BY <1>1 DEF Store!Busy
<1>3. change[t] \in Changes /\ change[t].id \in Ids
  BY <1>2, ChangeOf DEF JobsInv, Changes
<1>4. /\ c \in Changes /\ c.at = "blob" /\ c.id = change[t].id
      /\ c.from = change[t].from /\ c.alone = change[t].alone
  BY <1>3 DEF Changes
<1> HIDE DEF c
<1>5. /\ Store!Indexed \in Seq(Ids)
      /\ \A id \in Store!ToSet(Store!Indexed) \ hurt : blob[id] # Store!Missing
  BY <1>1, IndexedHolds
<1>6. all \subseteq Ids
  BY <1>3, <1>5 DEF Store!Listed, Store!ToSet
<1>7. all \in SUBSET Nat /\ IsFiniteSet(all)
  <2> HIDE DEF all
  <2> QED
    BY <1>6, ConfigAssumption, FS_Subset
<1> HIDE DEF all
<1>8. index' \in Seq(all) /\ OneToOne(index')
  BY <1>1, <1>7, SortedLists
<1>9. Store!ToSet(index') \subseteq all
  BY <1>8 DEF Store!ToSet
<1>10. index' \in Seq(Ids)
  BY <1>6, <1>8
<1>11. StoreTyped'
  BY <1>1, <1>8, <1>10 DEF DataInv, StoreTyped, OneToOne
<1>12. \A id \in Store!ToSet(index') \ hurt :
         blob'[id] # Store!Missing \/ (id = change[t].id /\ c.at \in {"blob", "drop"})
  BY <1>1, <1>4, <1>5, <1>9 DEF all, Store!Listed
<1>13. \A id \in Store!ToSet(flash') \ hurt : blob'[id] # Store!Missing
  BY <1>1, <1>2, OthersAreHurt
<1>14. \A id \in Ids \ hurt : Store!ToSet(blob'[id]) \subseteq {id}
  BY <1>1 DEF DataInv, Store!ScriptsWhole
<1> QED
  BY <1>1, <1>2, <1>4, <1>11, <1>12, <1>13, <1>14, ChangeGoesOn

(* A buffer that was filled has something in it.                            *)
LEMMA BufferNotMissing ==
  ASSUME NEW n \in Nat \ {0}, NEW b \in [1 .. n -> Store!Chunks]
  PROVE  b \in Seq(Store!Chunks) /\ b # Store!Missing
<1>1. b \in Seq(Store!Chunks) /\ DOMAIN b = 1 .. n
  OBVIOUS
<1>2. 1 \in DOMAIN b
  BY <1>1
<1>3. 1 \notin DOMAIN <<>>
  OBVIOUS
<1> QED
  BY <1>1, <1>2, <1>3 DEF Store!Missing

LEMMA WriteBlobHolds ==
  ASSUME JobsInv, DataInv, NEW t \in Tasks, Store!WriteBlob(t)
  PROVE  JobsInv' /\ DataInv'
<1> DEFINE c == [change[t] EXCEPT !.at = "save"]
           id == change[t].id
           script == CASE change[t].from = "upload"  -> upload.buffer
                       [] change[t].from = "freed"   -> Store!Garbage(change[t].size)
                       [] change[t].from = "message" -> <<id>>
<1>1. /\ change[t].at = "blob" /\ blob' = [blob EXCEPT ![id] = script]
      /\ change' = [change EXCEPT ![t] = c]
      /\ UNCHANGED <<upload, index, flash, hurt>>
  <2>1. change' = [change EXCEPT ![t].at = "save"]
    BY DEF Store!WriteBlob, Store!Goes
  <2> QED
    BY <2>1 DEF Store!WriteBlob
<1>2. Store!Busy(t)
  BY <1>1 DEF Store!Busy
<1>3. change[t] \in Changes /\ id \in Ids /\ change[t].from \in {"upload", "freed", "message"}
      /\ change[t].size \in Nat
  BY <1>2, ChangeOf DEF JobsInv, Changes
<1>4. /\ c \in Changes /\ c.at = "save" /\ c.id = id
      /\ c.from = change[t].from /\ c.alone = change[t].alone
  BY <1>3 DEF Changes
<1> HIDE DEF c
<1>5. /\ script \in Seq(Store!Chunks)
      /\ change[t].from # "freed" => Store!ToSet(script) \subseteq {id} /\ script # Store!Missing
  <2>1. CASE change[t].from = "upload"
    <3>1. Store!Receives(id) /\ Store!Complete(upload)
      BY <1>2, <2>1 DEF JobsInv, UploadIsHeld, Store!Commits, Store!Busy
    <3>2. upload # Store!NoUpload /\ upload.id = id /\ upload.received = upload.total
      BY <3>1 DEF Store!Receives, Store!Active, Store!Complete, Store!NoUpload
    <3>3. PICK n \in Sizes : /\ upload \in Uploads(n)
                             /\ \A i \in 1 .. upload.received : upload.buffer[i] = upload.id
      BY <3>2 DEF JobsInv, UploadIsOneScript
    <3>4. /\ n \in Nat \ {0} /\ upload.buffer \in [1 .. n -> Store!Chunks]
          /\ \A i \in 1 .. n : upload.buffer[i] = id
      BY <3>2, <3>3, ConfigAssumption DEF Uploads
    <3>5. script = upload.buffer
      BY <2>1
    <3> HIDE DEF script
    <3>6. script \in Seq(Store!Chunks) /\ script # Store!Missing
      BY <3>4, <3>5, BufferNotMissing
    <3>7. Store!ToSet(script) \subseteq {id}
      BY <3>4, <3>5 DEF Store!ToSet
    <3> QED
      BY <3>6, <3>7
  <2>2. CASE change[t].from = "message"
    <3>1. script = <<id>>
      BY <2>2
    <3> HIDE DEF script
    <3>2. script = [i \in 1 .. 1 |-> id]
      BY <3>1
    <3>3. script \in [1 .. 1 -> Store!Chunks]
      BY <1>3, <3>2 DEF Store!Chunks
    <3>4. script \in Seq(Store!Chunks) /\ script # Store!Missing
      <4>1. 1 \in Nat \ {0}
        OBVIOUS
      <4> QED
        BY <3>3, <4>1, BufferNotMissing
    <3>5. Store!ToSet(script) \subseteq {id}
      BY <3>2 DEF Store!ToSet
    <3> QED
      BY <3>4, <3>5
  <2>3. CASE change[t].from = "freed"
    <3>1. script = Store!Garbage(change[t].size)
      BY <2>3
    <3> HIDE DEF script
    <3> QED
      BY <1>3, <2>3, <3>1 DEF Store!Garbage, Store!Chunks
  <2> QED
    BY <1>3, <2>1, <2>2, <2>3
<1> HIDE DEF script
<1>6. /\ blob' \in [Ids -> Seq(Store!Chunks)] /\ blob'[id] = script
      /\ \A x \in Ids \ {id} : blob'[x] = blob[x]
  BY <1>1, <1>3, <1>5 DEF DataInv, StoreTyped
<1>7. StoreTyped'
  BY <1>1, <1>6 DEF DataInv, StoreTyped, OneToOne, Store!Chunks
<1>8. change[t].from = "freed" => id \in hurt
  BY <1>2 DEF JobsInv, OverlapHurts
<1>9. /\ Store!ToSet(index) \subseteq Ids /\ Store!ToSet(flash) \subseteq Ids
  BY DEF DataInv, StoreTyped, Store!ToSet
<1>10. \A x \in Store!ToSet(index') \ hurt : blob'[x] # Store!Missing
  <2> SUFFICES ASSUME NEW x \in Store!ToSet(index) \ hurt PROVE blob'[x] # Store!Missing
    BY <1>1
  <2>1. CASE x = id
    BY <1>3, <1>5, <1>6, <1>8, <2>1
  <2>2. CASE x # id
    <3>1. blob[x] # Store!Missing
      BY <1>2, <2>2, OthersAreHurt
    <3> QED
      BY <1>6, <1>9, <2>2, <3>1
  <2> QED
    BY <2>1, <2>2
<1>11. \A x \in Store!ToSet(flash') \ hurt : blob'[x] # Store!Missing
  <2> SUFFICES ASSUME NEW x \in Store!ToSet(flash) \ hurt PROVE blob'[x] # Store!Missing
    BY <1>1
  <2>1. CASE x = id
    BY <1>3, <1>5, <1>6, <1>8, <2>1
  <2>2. CASE x # id
    <3>1. blob[x] # Store!Missing
      BY <1>1, <1>2, <2>2, OthersAreHurt
    <3> QED
      BY <1>6, <1>9, <2>2, <3>1
  <2> QED
    BY <2>1, <2>2
<1>12. \A x \in Ids \ hurt : Store!ToSet(blob'[x]) \subseteq {x}
  <2> SUFFICES ASSUME NEW x \in Ids \ hurt PROVE Store!ToSet(blob'[x]) \subseteq {x}
    OBVIOUS
  <2>1. CASE x = id
    BY <1>3, <1>5, <1>6, <1>8, <2>1
  <2>2. CASE x # id
    BY <1>6, <2>2 DEF DataInv, Store!ScriptsWhole
  <2> QED
    BY <2>1, <2>2
<1>13. c.at = "save" /\ c.from # "freed" =>
         Store!ToSet(blob'[c.id]) \subseteq {c.id} /\ blob'[c.id] # Store!Missing
  BY <1>4, <1>5, <1>6
<1> QED
  BY <1>1, <1>2, <1>4, <1>7, <1>10, <1>11, <1>12, <1>13, ChangeGoesOn

LEMMA EraseBlobHolds ==
  ASSUME JobsInv, DataInv, NEW t \in Tasks, Store!EraseBlob(t)
  PROVE  JobsInv' /\ DataInv'
<1> DEFINE c == [change[t] EXCEPT !.at = "drop"]
           id == change[t].id
<1>1. /\ change[t].at = "erase" /\ blob' = [blob EXCEPT ![id] = Store!Missing]
      /\ change' = [change EXCEPT ![t] = c]
      /\ UNCHANGED <<upload, index, flash, hurt>>
  <2>1. change' = [change EXCEPT ![t].at = "drop"]
    BY DEF Store!EraseBlob, Store!Goes
  <2> QED
    BY <2>1 DEF Store!EraseBlob
<1>2. Store!Busy(t)
  BY <1>1 DEF Store!Busy
<1>3. change[t] \in Changes /\ id \in Ids
  BY <1>2, ChangeOf DEF JobsInv, Changes
<1>4. /\ c \in Changes /\ c.at = "drop" /\ c.id = id /\ c.place = change[t].place
      /\ c.from = change[t].from /\ c.alone = change[t].alone /\ c.from = "message"
  BY <1>1, <1>3 DEF Changes, JobsInv, DeletesByMessage
<1> HIDE DEF c
<1>5. /\ blob' \in [Ids -> Seq(Store!Chunks)] /\ blob'[id] = Store!Missing
      /\ \A x \in Ids \ {id} : blob'[x] = blob[x]
  BY <1>1, <1>3, EmptySeq DEF DataInv, StoreTyped, Store!Missing
<1>6. StoreTyped'
  BY <1>1, <1>5 DEF DataInv, StoreTyped, OneToOne, Store!Chunks
<1>7. /\ Store!ToSet(index) \subseteq Ids /\ Store!ToSet(flash) \subseteq Ids
  BY DEF DataInv, StoreTyped, Store!ToSet
<1>8. /\ \A x \in Store!ToSet(index) \ hurt : x # id => blob'[x] # Store!Missing
      /\ \A x \in Store!ToSet(flash) \ hurt : x # id => blob'[x] # Store!Missing
  BY <1>2, <1>5, <1>7, OthersAreHurt
<1>9. \A x \in Ids \ hurt : Store!ToSet(blob'[x]) \subseteq {x}
  <2> SUFFICES ASSUME NEW x \in Ids \ hurt PROVE Store!ToSet(blob'[x]) \subseteq {x}
    OBVIOUS
  <2>1. CASE x = id
    BY <1>5, <2>1, NothingListed DEF Store!Missing
  <2>2. CASE x # id
    BY <1>5, <2>2 DEF DataInv, Store!ScriptsWhole
  <2> QED
    BY <2>1, <2>2
<1>10. change[t].alone => change[t].place \in DOMAIN index /\ index[change[t].place] = id
  BY <1>1, <1>2 DEF DataInv, ChangesAlone, FoundInPlace
<1>11. change[t].alone =>
         /\ c.at = "save" /\ c.from # "freed" =>
              Store!ToSet(blob'[c.id]) \subseteq {c.id} /\ blob'[c.id] # Store!Missing
         /\ c.at \in {"erase", "drop"} => c.place \in DOMAIN index' /\ index'[c.place] = c.id
         /\ c.at = "drop" => blob'[c.id] = Store!Missing
  BY <1>1, <1>4, <1>5, <1>10
<1>12. /\ \A x \in Store!ToSet(index') \ hurt :
           blob'[x] # Store!Missing \/ (x = change[t].id /\ c.at \in {"blob", "drop"})
       /\ \A x \in Store!ToSet(flash') \ hurt :
           blob'[x] # Store!Missing \/ (x = change[t].id /\ c.at = "drop")
  BY <1>1, <1>4, <1>8
<1> QED
  BY <1>1, <1>2, <1>4, <1>6, <1>9, <1>11, <1>12, ChangeGoesOn

LEMMA FindHolds ==
  ASSUME JobsInv, DataInv, NEW t \in Tasks, Store!Find(t)
  PROVE  JobsInv' /\ DataInv'
<1> DEFINE id == change[t].id
           place == CHOOSE i \in DOMAIN Store!Indexed : Store!Indexed[i] = id
           c == [change[t] EXCEPT !.at = "erase", !.place = place]
<1>1. change[t].at = "find" /\ index' = Store!Indexed /\ UNCHANGED <<flash, blob, hurt>>
  BY DEF Store!Find
<1>2. Store!Busy(t)
  BY <1>1 DEF Store!Busy
<1>3. /\ Store!Indexed \in Seq(Ids) /\ OneToOne(Store!Indexed)
      /\ \A x \in Store!ToSet(Store!Indexed) \ hurt : blob[x] # Store!Missing
  BY <1>1, IndexedHolds
<1>4. StoreTyped'
  BY <1>1, <1>3 DEF DataInv, StoreTyped, OneToOne
<1>5. /\ \A x \in Store!ToSet(index') \ hurt : blob'[x] # Store!Missing
      /\ \A x \in Store!ToSet(flash') \ hurt : blob'[x] # Store!Missing
  BY <1>1, <1>2, <1>3, OthersAreHurt
<1>6. \A x \in Ids \ hurt : Store!ToSet(blob'[x]) \subseteq {x}
  BY <1>1 DEF DataInv, Store!ScriptsWhole
<1>7. change[t].from = "message"
  BY <1>1 DEF JobsInv, DeletesByMessage
<1>8. CASE id \in Store!Listed(Store!Indexed)
  <2>1. change' = [change EXCEPT ![t] = c] /\ upload' = upload
    BY <1>8 DEF Store!Find
  <2>2. change[t] \in Changes
    BY <1>2, ChangeOf DEF JobsInv
  <2>4. place \in DOMAIN Store!Indexed /\ Store!Indexed[place] = id /\ place \in Nat
    BY <1>3, <1>8 DEF Store!Listed, Store!ToSet
  <2> HIDE DEF place
  <2>5. /\ c \in Changes /\ c.at = "erase" /\ c.id = id /\ c.place = place
        /\ c.from = change[t].from /\ c.alone = change[t].alone
    BY <2>2, <2>4 DEF Changes
  <2> HIDE DEF c
  <2>6. change[t].alone =>
          /\ c.at = "save" /\ c.from # "freed" =>
               Store!ToSet(blob'[c.id]) \subseteq {c.id} /\ blob'[c.id] # Store!Missing
          /\ c.at \in {"erase", "drop"} => c.place \in DOMAIN index' /\ index'[c.place] = c.id
          /\ c.at = "drop" => blob'[c.id] = Store!Missing
    BY <1>1, <2>4, <2>5
  <2> QED
    BY <1>1, <1>2, <1>4, <1>5, <1>6, <1>7, <2>1, <2>5, <2>6, ChangeGoesOn
<1>9. CASE id \notin Store!Listed(Store!Indexed)
  <2>1. Store!Ends(t)
    BY <1>9 DEF Store!Find
  <2>2. Store!Spoiled(t) = {}
    BY <1>7 DEF Store!Spoiled, Store!FromUpload
  <2> QED
    BY <1>1, <1>2, <1>4, <1>5, <1>6, <2>1, <2>2, EndHolds
<1> QED
  BY <1>8, <1>9

(* Init and a restart.                                                      *)
LEMMA RestartHolds ==
  ASSUME JobsInv, DataInv, Store!Restart
  PROVE  JobsInv' /\ DataInv'
<1>1. /\ upload' = Store!NoUpload /\ index' = <<>>
      /\ change' = [t \in Tasks |-> Store!Idle]
      /\ hurt' = hurt \cup Store!Deleting /\ UNCHANGED <<flash, blob>>
  BY DEF Store!Restart
<1>2. \A t \in Tasks : change'[t].at = "idle" /\ ~Store!Busy(t)' /\ ~Store!Commits(t)'
  BY <1>1 DEF Store!Idle, Store!Busy, Store!Commits
<1>3. JobsInv'
  <2>1. ChangesTyped'
    BY <1>1 DEF ChangesTyped
  <2>2. UploadIsOneScript'
    BY <1>1 DEF UploadIsOneScript
  <2>3. DeletesByMessage' /\ AloneIsOnly' /\ OverlapHurts' /\ UploadIsHeld'
    BY <1>2 DEF DeletesByMessage, AloneIsOnly, OverlapHurts, UploadIsHeld
  <2> QED
    BY <2>1, <2>2, <2>3 DEF JobsInv
<1>4. DataInv'
  <2>1. StoreTyped'
    BY <1>1, NothingListed DEF DataInv, StoreTyped, OneToOne
  <2>2. IndexExists'
    <3>1. Store!ToSet(index') = {}
      BY <1>1, NothingListed
    <3>2. Store!ToSet(index)' = {}
      BY <3>1 DEF Store!ToSet
    <3> QED
      BY <3>2 DEF IndexExists
  <2>3. \A t \in Tasks : ~ChangesAlone(t)'
    BY <1>2 DEF ChangesAlone
  <2>4. Store!ScriptsWhole'
    BY <1>1 DEF DataInv, Store!ScriptsWhole, Store!ToSet
  <2>5. Store!ListedScriptsExist'
    BY <1>1 DEF DataInv, Store!ListedScriptsExist, Store!Listed, Store!ToSet, Store!Missing
  <2> QED
    BY <2>1, <2>2, <2>3, <2>4, <2>5 DEF DataInv
<1> QED
  BY <1>3, <1>4

LEMMA StoreStarts ==
  ASSUME Store!Init
  PROVE  JobsInv /\ DataInv
<1>1. /\ upload = Store!NoUpload /\ index = <<>> /\ flash = <<>>
      /\ blob = [id \in Ids |-> Store!Missing]
      /\ change = [t \in Tasks |-> Store!Idle]
  BY DEF Store!Init
<1>2. \A t \in Tasks : change[t].at = "idle" /\ ~Store!Busy(t) /\ ~Store!Commits(t)
  BY <1>1 DEF Store!Idle, Store!Busy, Store!Commits
<1>3. JobsInv
  <2>1. ChangesTyped
    BY <1>1 DEF ChangesTyped
  <2>2. UploadIsOneScript
    BY <1>1 DEF UploadIsOneScript
  <2>3. DeletesByMessage /\ AloneIsOnly /\ OverlapHurts /\ UploadIsHeld
    BY <1>2 DEF DeletesByMessage, AloneIsOnly, OverlapHurts, UploadIsHeld
  <2> QED
    BY <2>1, <2>2, <2>3 DEF JobsInv
<1>4. DataInv
  <2>1. StoreTyped
    BY <1>1, NothingListed, EmptySeq DEF StoreTyped, Store!Missing
  <2>2. Store!ToSet(index) = {} /\ Store!ToSet(flash) = {}
    BY <1>1, NothingListed
  <2>3. IndexExists /\ Store!ListedScriptsExist
    BY <2>2 DEF IndexExists, Store!ListedScriptsExist, Store!Listed
  <2>4. \A t \in Tasks : ~ChangesAlone(t)
    BY <1>2 DEF ChangesAlone
  <2>5. Store!ScriptsWhole
    BY <1>1, NothingListed DEF Store!ScriptsWhole, Store!Missing
  <2> QED
    BY <2>1, <2>3, <2>4, <2>5 DEF DataInv
<1> QED
  BY <1>3, <1>4

LEMMA StoreSteps ==
  ASSUME JobsInv, DataInv, [Store!Next]_Store!vars
  PROVE  JobsInv' /\ DataInv'
<1>1. ASSUME NEW t \in Tasks, Store!Requests(t)
      PROVE  JobsInv' /\ DataInv'
  BY <1>1, RequestMoves, RequestKeepsData
<1>2. ASSUME NEW t \in Tasks, Store!Stores(t)
      PROVE  JobsInv' /\ DataInv'
  BY <1>2, FailsHolds, LoadFailsHolds, ListHolds, FullHolds, WriteBlobHolds, SaveIndexHolds,
     FindHolds, EraseBlobHolds, DropHolds DEF Store!Stores
<1>3. CASE UNCHANGED Store!vars
  <2>1. UNCHANGED <<upload, index, flash, blob, change, hurt>>
    BY <1>3 DEF Store!vars
  <2>2. JobsInv'
    BY <2>1 DEF JobsInv, ChangesTyped, UploadIsOneScript, DeletesByMessage, AloneIsOnly,
       OverlapHurts, UploadIsHeld, Store!Busy, Store!Commits, Store!Receives, Store!Active
  <2>3. Store!Deleting' = Store!Deleting /\ Writing' = Writing
    BY <2>1 DEF Store!Deleting, Writing
  <2>4. Store!ScriptsWhole'
    BY <2>1 DEF DataInv, Store!ScriptsWhole, Store!ToSet
  <2>4a. StoreTyped'
    BY <2>1 DEF DataInv, StoreTyped, OneToOne, Store!Chunks
  <2>5. IndexExists' /\ Store!ListedScriptsExist'
    BY <2>1, <2>3 DEF DataInv, IndexExists, Store!ListedScriptsExist, Store!Listed,
       Store!ToSet, Store!Missing
  <2>6. ASSUME NEW t \in Tasks, ChangesAlone(t)'
        PROVE  SavedIsWritten(t)' /\ FoundInPlace(t)' /\ ErasedIsGone(t)'
    <3>1. ChangesAlone(t)
      BY <2>1, <2>6 DEF ChangesAlone, Store!Busy
    <3>2. SavedIsWritten(t) /\ FoundInPlace(t) /\ ErasedIsGone(t)
      BY <3>1 DEF DataInv
    <3>3. SavedIsWritten(t)'
      BY <2>1, <3>2 DEF SavedIsWritten, Store!ToSet, Store!Missing
    <3>4. FoundInPlace(t)' /\ ErasedIsGone(t)'
      BY <2>1, <3>2 DEF FoundInPlace, ErasedIsGone, Store!Missing
    <3> QED
      BY <3>3, <3>4
  <2> QED
    BY <2>2, <2>4, <2>4a, <2>5, <2>6 DEF DataInv
<1> QED
  BY <1>1, <1>2, <1>3, RestartHolds DEF Store!Next

(* Every script the index in flash lists can be read after a restart at any  *)
(* point, and holds chunks of this script only, unless its last change       *)
(* failed, was cut while it deleted or overlapped with another: for any      *)
(* number of tasks, scripts and chunks (script_store_upsert,                 *)
(* script_store_delete and handle_script_config).                            *)
THEOREM ScriptsStayIntact == Store!Spec => []StoreIntact
<1>1. Store!Init => JobsInv /\ DataInv
  BY StoreStarts
<1>2. JobsInv /\ DataInv /\ [Store!Next]_Store!vars => (JobsInv /\ DataInv)'
  BY StoreSteps
<1>3. JobsInv /\ DataInv => StoreIntact
  BY DEF DataInv, StoreIntact, Store!StoreIntact
<1> QED
  BY <1>1, <1>2, <1>3, PTL DEF Store!Spec

-----------------------------------------------------------------------------
(* The firmware update (BleUpdate) *)

(* The slot the device runs from holds a whole image, and a phone was told *)
(* of an image only while no transfer is open.                             *)
UpdateInv ==
  /\ slots \in [0 .. 1 -> Seq(Update!Chunks)]
  /\ running \in 0 .. 1 /\ boot \in 0 .. 1
  /\ transfer.open => told = None /\ 1 \in 1 .. Size
  /\ Update!DeviceBoots

LEMMA UpdateStarts == Update!Init => UpdateInv
<1> SUFFICES ASSUME Update!Init, Size \in Nat
             PROVE  UpdateInv
  BY ConfigAssumption
<1>1. Update!Whole(Factory) \in Seq(Update!Chunks)
  BY DEF Update!Whole, Update!Chunks
<1>2. slots \in [0 .. 1 -> Seq(Update!Chunks)] /\ slots[0] = Update!Whole(Factory)
  BY <1>1 DEF Update!Init
<1>3. Factory \in Update!Chunks
  BY DEF Update!Chunks
<1> QED
  BY <1>2, <1>3
     DEF Update!Init, UpdateInv, Update!DeviceBoots, Update!IsWhole, Update!NoUpdate

(* A start runs the slot that otadata names, or the one it ran from.       *)
LEMMA UpdateRestarts ==
  ASSUME UpdateInv, Update!Starts
  PROVE  UpdateInv'
<1>1. Update!Boots \in 0 .. 1 /\ Update!IsWhole(Update!Boots)
  BY DEF UpdateInv, Update!DeviceBoots, Update!Boots
<1>2. UNCHANGED <<slots, boot>> /\ running' = Update!Boots /\ told' = None /\ ~transfer'.open
  BY DEF Update!Starts, Update!flash, Update!NoUpdate
<1> QED
  BY <1>1, <1>2 DEF UpdateInv, Update!DeviceBoots, Update!IsWhole

LEMMA UpdateCommands ==
  ASSUME UpdateInv, Update!Commands
  PROVE  UpdateInv'
<1> USE DEF UpdateInv, Update!DeviceBoots, Update!IsWhole
<1>t. Update!Target \in 0 .. 1 /\ Update!Target # running
  BY DEF Update!Target
<1>1. ASSUME NEW size \in 1 .. Size, Update!Begin(size)
      PROVE  UpdateInv'
  <2>1. /\ slots' = [slots EXCEPT ![Update!Target] = <<>>]
        /\ told' = None /\ UNCHANGED <<boot, running>>
    BY <1>1 DEF Update!Begin
  <2>2. slots' \in [0 .. 1 -> Seq(Update!Chunks)] /\ slots'[running] = slots[running]
    BY <1>t, <2>1
  <2>3. 1 \in 1 .. Size
    BY ConfigAssumption
  <2> QED
    BY <2>1, <2>2, <2>3
<1>2. ASSUME NEW i \in Images, Update!Data(i)
      PROVE  UpdateInv'
  <2>1. /\ slots' = [slots EXCEPT ![Update!Target] = Append(slots[Update!Target], i)]
        /\ UNCHANGED <<boot, running, told>>
        /\ transfer.open
    BY <1>2 DEF Update!Data
  <2>2. slots' \in [0 .. 1 -> Seq(Update!Chunks)] /\ slots'[running] = slots[running]
    BY <1>t, <2>1 DEF Update!Chunks
  <2> QED
    BY <2>1, <2>2
<1>3. CASE Update!End
  <2>1. /\ transfer.open /\ Update!IsWhole(Update!Target)
        /\ boot' = Update!Target /\ told' = slots[Update!Target][1]
        /\ slots' = slots /\ running' = running /\ ~transfer'.open
    BY <1>3 DEF Update!End, Update!NoUpdate
  <2>2. PICK i \in Update!Chunks : slots[Update!Target] = Update!Whole(i)
    BY <2>1
  <2>3. told' = i
    BY <2>1, <2>2 DEF Update!Whole
  <2> QED
    BY <1>t, <2>1, <2>2, <2>3 DEF Update!Boots
<1>4. CASE Update!Abort \/ Update!Fails
  BY <1>4 DEF Update!Abort, Update!Fails, Update!flash, Update!NoUpdate, Update!Boots
<1> QED
  BY <1>1, <1>2, <1>3, <1>4 DEF Update!Commands

LEMMA UpdateSteps == UpdateInv /\ [Update!Next]_(Update!vars) => UpdateInv'
<1>1. ASSUME UpdateInv, Update!Pair \/ Update!Drop \/ UNCHANGED Update!vars
      PROVE  UpdateInv'
  BY <1>1 DEF UpdateInv, Update!DeviceBoots, Update!IsWhole, Update!Boots, Update!Pair,
              Update!Drop, Update!vars, Update!flash
<1> QED
  BY <1>1, UpdateRestarts, UpdateCommands DEF Update!Next, Update!Restart, Update!PowerLoss

LEMMA UpdateTells == UpdateInv => DeviceBoots
BY DEF UpdateInv, DeviceBoots

(* Whatever the phones send and whenever the power fails, the device runs  *)
(* a whole image, and the one a phone was told to be complete is the one   *)
(* the next start runs (ble_control_process_ota_write), for images of any  *)
(* size.                                                                   *)
THEOREM DeviceAlwaysBoots == Update!Spec => []DeviceBoots
BY UpdateStarts, UpdateSteps, UpdateTells, PTL DEF Update!Spec

-----------------------------------------------------------------------------
(* Counters that wrap *)

(* Counting on from a counter that has wrapped.                             *)
LEMMA Remainder ==
  ASSUME NEW c \in Nat \ {0}, NEW q \in Int, NEW r \in 0 .. c - 1
  PROVE  (c * q + r) % c = r
<1> DEFINE a == c * q + r
           p == a \div c
           s == a % c
<1>1. a \in Int /\ c * q \in Int
  OBVIOUS
<1>2. a = c * p + s /\ s \in 0 .. c - 1 /\ p \in Int
  <2> HIDE DEF a
  <2> QED
    BY <1>1
<1> DEFINE d == p - q
<1>3. c * d = r - s /\ d \in Int
  <2>1. c * p + s = c * q + r
    BY <1>2
  <2> HIDE DEF p, s
  <2>2. c * (p - q) = c * p - c * q
    BY <1>2
  <2>3. c * p \in Int /\ c * q \in Int
    BY <1>2
  <2> QED
    BY <1>2, <2>1, <2>2, <2>3
<1> HIDE DEF d
<1>4. d = 0
  <2>1. CASE d >= 1
    <3>1. c * d >= c
      <4>1. \E k \in Nat : d = k + 1
        BY <1>3, <2>1
      <4>2. PICK k \in Nat : d = k + 1
        BY <4>1
      <4>3. c * (k + 1) = c * k + c /\ c * k \in Nat
        OBVIOUS
      <4> QED
        BY <4>2, <4>3
    <3> QED
      BY <1>2, <1>3, <2>1, <3>1
  <2>2. CASE d <= -1
    <3>1. c * d <= -c
      <4>1. PICK k \in Nat : d = -(k + 1)
        <5>1. -d - 1 \in Nat /\ d = -((-d - 1) + 1)
          BY <1>3, <2>2
        <5> QED
          BY <5>1
      <4>2. c * (-(k + 1)) = -(c * k) - c /\ c * k \in Nat
        OBVIOUS
      <4> QED
        BY <4>1, <4>2
    <3> QED
      BY <1>2, <1>3, <2>2, <3>1
  <2> QED
    BY <1>3, <2>1, <2>2
<1>5. c * d = 0
  BY <1>4
<1> HIDE DEF s
<1>6. s = r
  BY <1>2, <1>3, <1>5
<1> QED
  BY <1>6 DEF s

LEMMA CountsOn ==
  ASSUME NEW c \in Nat \ {0}, NEW a \in Nat
  PROVE  ((a % c) + 1) % c = (a + 1) % c /\ a % c \in 0 .. c - 1
<1> DEFINE q == a \div c
           r == a % c
<1>1. a = c * q + r /\ r \in 0 .. c - 1 /\ q \in Int
  OBVIOUS
<1> HIDE DEF q, r
<1>2. CASE r + 1 < c
  <2>1. r + 1 \in 0 .. c - 1
    BY <1>1, <1>2
  <2>2. (c * q + (r + 1)) % c = r + 1 /\ (c * 0 + (r + 1)) % c = r + 1
    BY <1>1, <2>1, Remainder
  <2>3. c * q + (r + 1) = a + 1 /\ c * 0 + (r + 1) = r + 1
    BY <1>1
  <2>4. (a + 1) % c = (r + 1) % c
    BY <2>2, <2>3
  <2> QED
    BY <1>1, <2>4 DEF r
<1>3. CASE r + 1 = c
  <2>1. 0 \in 0 .. c - 1 /\ q + 1 \in Int
    BY <1>1
  <2>2. (c * (q + 1) + 0) % c = 0 /\ (c * 1 + 0) % c = 0
    BY <2>1, Remainder
  <2>3. c * (q + 1) + 0 = a + 1 /\ c * 1 + 0 = r + 1
    <3>1. c * (q + 1) = c * q + c
      BY <1>1
    <3> QED
      BY <1>1, <1>3, <3>1
  <2>4. (a + 1) % c = (r + 1) % c
    BY <2>2, <2>3
  <2> QED
    BY <1>1, <2>4 DEF r
<1> QED
  BY <1>1, <1>2, <1>3

LEMMA NoWrap ==
  ASSUME NEW c \in Nat \ {0}, NEW a \in 0 .. c - 1
  PROVE  a % c = a
<1>1. (c * 0 + a) % c = a
  BY Remainder
<1> QED
  BY <1>1

-----------------------------------------------------------------------------
(* The sender of the voice bridge (OpenManet) *)

Sends ==
  [at : {"idle", "seed", "seed_counters", "load", "store", "header", "stamp"},
   to : Comms!Places, id : 0 .. Seqs - 1, seq : 0 .. Seqs - 1, stamp : 0 .. Stamps - 1,
   ssrc : Streams \cup {Comms!Zero, MacEnd}, alone : {"yes", "no"}, epoch : Nat]

Sending(t) == talker[t].at # "idle"

(* The packets of the present epoch that no other send overlapped.          *)
Recent == {f \in packets : f.alone = "yes" /\ f.epoch = upsets}
Counted(t) == talker[t].at \in {"header", "stamp"}

CommsTyped ==
  /\ talker \in [Talkers -> Sends]
  /\ sequence \in 0 .. Seqs - 1 /\ timestamp \in 0 .. Stamps - 1
  /\ ssrc \in Streams \cup {Comms!Zero, MacEnd}
  /\ sent \in Nat /\ upsets \in Nat
  /\ heard \subseteq packets
PacketsTyped ==
  \A f \in packets : /\ f.nth \in Nat /\ f.nth <= sent /\ f.epoch \in Nat
                     /\ f.alone = "yes" => f.epoch <= upsets
                     /\ f.seq \in 0 .. Seqs - 1 /\ f.stamp \in 0 .. Stamps - 1

(* A send that no other overlaps is the only one under way.                 *)
OnlySender ==
  \A t \in Talkers : Sending(t) /\ talker[t].alone = "yes" =>
    talker[t].epoch = upsets /\ \A u \in Talkers \ {t} : ~Sending(u)

(* After a packet that no other overlapped, none has, in its epoch.         *)
RecentUndisturbed ==
  Recent # {} => \A t \in Talkers : Sending(t) => talker[t].alone = "yes"

(* What such a send holds is what the static words hold.                    *)
HoldsCounters ==
  \A t \in Talkers : talker[t].alone = "yes" =>
    /\ talker[t].at = "store" => talker[t].id = (sequence + 1) % Seqs
    /\ talker[t].at = "header" => talker[t].id = sequence
    /\ talker[t].at = "stamp" =>
         talker[t].seq = sequence /\ talker[t].stamp = timestamp /\ talker[t].ssrc = ssrc

(* The counters have moved by the packets sent since.                       *)
CountersFollow ==
  \A f \in Recent : f.ssrc # Comms!Zero =>
    /\ ssrc = f.ssrc
    /\ \A t \in Talkers : talker[t].at # "seed_counters"
    /\ (\A t \in Talkers : ~Counted(t)) => sequence = (f.seq + (sent - f.nth)) % Seqs
    /\ (\E t \in Talkers : Counted(t)) => sequence = (f.seq + (sent - f.nth) + 1) % Seqs
    /\ timestamp = (f.stamp + (sent - f.nth) + 1) % Stamps

InStep(f, g) ==
  Comms!Undisturbed(f, g) =>
    /\ g.ssrc = f.ssrc
    /\ g.seq = (f.seq + (g.nth - f.nth)) % Seqs
    /\ g.stamp = (f.stamp + (g.nth - f.nth)) % Stamps

CommsInv ==
  /\ CommsTyped /\ PacketsTyped
  /\ OnlySender /\ RecentUndisturbed /\ HoldsCounters /\ CountersFollow
  /\ \A f, g \in packets : InStep(f, g)

LEMMA IdleSend == ASSUME Seqs \in Nat \ {0}, Stamps \in Nat \ {0} PROVE Comms!Idle \in Sends
<1>1. 0 \in 0 .. Seqs - 1 /\ 0 \in 0 .. Stamps - 1
  OBVIOUS
<1> QED
  BY <1>1 DEF Comms!Idle, Sends, Comms!Places, Comms!Zero

LEMMA Widths == Seqs \in Nat \ {0} /\ Stamps \in Nat \ {0}
BY ConfigAssumption

LEMMA CommsStarts == Comms!Init => CommsInv
<1> SUFFICES ASSUME Comms!Init PROVE CommsInv
  OBVIOUS
<1>1. /\ talker = [t \in Talkers |-> Comms!Idle] /\ packets = {} /\ heard = {}
      /\ sequence = 0 /\ timestamp = 0 /\ ssrc = Comms!Zero /\ sent = 0 /\ upsets = 0
  BY DEF Comms!Init
<1>2. \A t \in Talkers : talker[t].at = "idle"
  BY <1>1 DEF Comms!Idle
<1>3. CommsTyped
  BY <1>1, IdleSend, Widths DEF CommsTyped
<1> QED
  BY <1>1, <1>2, <1>3 DEF CommsInv, PacketsTyped, OnlySender, RecentUndisturbed, HoldsCounters,
     CountersFollow, Recent, Sending

(* A step of task t on its way to the packet.  While a packet is recent the *)
(* task is the only one.                                                    *)
LEMMA TalkerKeeps ==
  ASSUME CommsInv, NEW t \in Talkers, Sending(t), NEW s \in Sends,
         s.at # "idle", s.alone = talker[t].alone, s.epoch = talker[t].epoch,
         talker' = [talker EXCEPT ![t] = s],
         sequence' \in 0 .. Seqs - 1, timestamp' \in 0 .. Stamps - 1,
         ssrc' \in Streams \cup {Comms!Zero, MacEnd},
         UNCHANGED <<packets, heard, sent, upsets>>,
         s.alone = "yes" =>
           /\ s.at = "store" => s.id = (sequence' + 1) % Seqs
           /\ s.at = "header" => s.id = sequence'
           /\ s.at = "stamp" => s.seq = sequence' /\ s.stamp = timestamp' /\ s.ssrc = ssrc',
         talker[t].alone = "yes" =>
           \A f \in Recent : f.ssrc # Comms!Zero =>
             /\ ssrc' = f.ssrc /\ s.at # "seed_counters" /\ timestamp' = timestamp
             /\ s.at \notin {"header", "stamp"} => sequence' = (f.seq + (sent - f.nth)) % Seqs
             /\ s.at \in {"header", "stamp"} => sequence' = (f.seq + (sent - f.nth) + 1) % Seqs
  PROVE  CommsInv'
<1>1. talker'[t] = s /\ \A u \in Talkers \ {t} : talker'[u] = talker[u]
  BY DEF CommsInv, CommsTyped
<1>2. Recent' = Recent
  BY DEF Recent
<1>3. CommsTyped'
  BY DEF CommsInv, CommsTyped
<1>4. PacketsTyped'
  BY DEF CommsInv, PacketsTyped
<1>5. \A u \in Talkers : Sending(u)' = Sending(u)
  BY <1>1 DEF Sending
<1>6. OnlySender'
  BY <1>1, <1>5 DEF CommsInv, OnlySender
<1>7. RecentUndisturbed'
  BY <1>1, <1>2, <1>5 DEF CommsInv, RecentUndisturbed
<1>8. HoldsCounters'
  <2> SUFFICES ASSUME NEW u \in Talkers, talker'[u].alone = "yes"
               PROVE  /\ talker'[u].at = "store" => talker'[u].id = (sequence' + 1) % Seqs
                      /\ talker'[u].at = "header" => talker'[u].id = sequence'
                      /\ talker'[u].at = "stamp" =>
                           /\ talker'[u].seq = sequence' /\ talker'[u].stamp = timestamp'
                           /\ talker'[u].ssrc = ssrc'
    BY DEF HoldsCounters
  <2>1. CASE u = t
    BY <1>1, <2>1
  <2>2. CASE u # t
    <3>1. talker'[u].at = "idle"
      BY <1>1, <2>2 DEF CommsInv, OnlySender, Sending
    <3> QED
      BY <3>1
  <2> QED
    BY <2>1, <2>2
<1>9. CountersFollow'
  <2> SUFFICES ASSUME NEW f \in Recent, f.ssrc # Comms!Zero
               PROVE  /\ ssrc' = f.ssrc
                      /\ \A u \in Talkers : talker'[u].at # "seed_counters"
                      /\ (\A u \in Talkers : ~Counted(u)') =>
                           sequence' = (f.seq + (sent - f.nth)) % Seqs
                      /\ (\E u \in Talkers : Counted(u)') =>
                           sequence' = (f.seq + (sent - f.nth) + 1) % Seqs
                      /\ timestamp' = (f.stamp + (sent - f.nth) + 1) % Stamps
    BY <1>2 DEF CountersFollow
  <2>1. talker[t].alone = "yes"
    BY DEF CommsInv, RecentUndisturbed
  <2>2. \A u \in Talkers \ {t} : talker'[u].at = "idle"
    BY <1>1, <2>1 DEF CommsInv, OnlySender, Sending
  <2>3. timestamp = (f.stamp + (sent - f.nth) + 1) % Stamps
    BY DEF CommsInv, CountersFollow
  <2>4. \A u \in Talkers : talker'[u].at # "seed_counters"
    BY <1>1, <2>1, <2>2
  <2>5. (\E u \in Talkers : Counted(u)') <=> s.at \in {"header", "stamp"}
    BY <1>1, <2>2 DEF Counted
  <2> QED
    BY <2>1, <2>3, <2>4, <2>5
<1>10. \A f, g \in packets' : InStep(f, g)'
  BY DEF CommsInv, InStep, Comms!Undisturbed
<1> QED
  BY <1>3, <1>4, <1>6, <1>7, <1>8, <1>9, <1>10 DEF CommsInv

LEMMA SeedKeeps ==
  ASSUME CommsInv, NEW t \in Talkers, Comms!Seed(t)
  PROVE  CommsInv'
<1>1. /\ talker[t].at = "seed" /\ Sending(t) /\ talker[t] \in Sends
      /\ UNCHANGED <<sequence, timestamp, packets, heard, sent, upsets>>
  BY DEF Comms!Seed, Comms!Step, Comms!At, Sending, CommsInv, CommsTyped
<1>c. /\ sequence \in 0 .. Seqs - 1 /\ timestamp \in 0 .. Stamps - 1
      /\ ssrc \in Streams \cup {Comms!Zero, MacEnd}
  BY DEF CommsInv, CommsTyped
<1>2. talker[t].alone = "yes" =>
        \A f \in Recent : f.ssrc # Comms!Zero =>
          ssrc = f.ssrc /\ sequence = (f.seq + (sent - f.nth)) % Seqs
  <2> SUFFICES ASSUME talker[t].alone = "yes", NEW f \in Recent, f.ssrc # Comms!Zero
               PROVE  ssrc = f.ssrc /\ sequence = (f.seq + (sent - f.nth)) % Seqs
    OBVIOUS
  <2>1. \A u \in Talkers : ~Counted(u)
    BY <1>1 DEF CommsInv, OnlySender, Sending, Counted
  <2> QED
    BY <2>1 DEF CommsInv, CountersFollow
<1>3. CASE Comms!Seeded
  <2> DEFINE s == [talker[t] EXCEPT !.at = "load"]
  <2>1. talker' = [talker EXCEPT ![t] = s] /\ ssrc' = ssrc
    BY <1>3 DEF Comms!Seed, Comms!Step
  <2>2. s \in Sends /\ s.at = "load" /\ s.alone = talker[t].alone /\ s.epoch = talker[t].epoch
    BY <1>1 DEF Sends
  <2> HIDE DEF s
  <2> QED
    BY <1>1, <1>2, <1>c, <2>1, <2>2, TalkerKeeps
<1>4. CASE ~Comms!Seeded
  <2> DEFINE s == [talker[t] EXCEPT !.at = "seed_counters"]
  <2>1. talker' = [talker EXCEPT ![t] = s] /\ ssrc' \in Streams \cup {Comms!Zero, MacEnd}
    BY <1>4 DEF Comms!Seed, Comms!Step
  <2>2. /\ s \in Sends /\ s.at = "seed_counters" /\ s.alone = talker[t].alone
        /\ s.epoch = talker[t].epoch
    BY <1>1 DEF Sends
  <2> HIDE DEF s
  <2>3. talker[t].alone = "yes" => \A f \in Recent : f.ssrc = Comms!Zero
    BY <1>2, <1>4 DEF Comms!Seeded
  <2> QED
    BY <1>1, <1>c, <2>1, <2>2, <2>3, TalkerKeeps
<1> QED
  BY <1>3, <1>4

LEMMA SeedCountersKeeps ==
  ASSUME CommsInv, NEW t \in Talkers, Comms!SeedCounters(t)
  PROVE  CommsInv'
<1> DEFINE s == [talker[t] EXCEPT !.at = "load"]
<1>1. /\ talker[t].at = "seed_counters" /\ Sending(t) /\ talker[t] \in Sends
      /\ talker' = [talker EXCEPT ![t] = s]
      /\ sequence' \in 0 .. Seqs - 1 /\ timestamp' \in 0 .. Stamps - 1
      /\ UNCHANGED <<ssrc, packets, heard, sent, upsets>>
  BY DEF Comms!SeedCounters, Comms!Step, Comms!At, Sending, CommsInv, CommsTyped
<1>2. s \in Sends /\ s.at = "load" /\ s.alone = talker[t].alone /\ s.epoch = talker[t].epoch
  BY <1>1 DEF Sends
<1> HIDE DEF s
<1>3. \A f \in Recent : f.ssrc = Comms!Zero
  BY <1>1 DEF CommsInv, CountersFollow
<1>4. ssrc' \in Streams \cup {Comms!Zero, MacEnd}
  BY <1>1 DEF CommsInv, CommsTyped
<1> QED
  BY <1>1, <1>2, <1>3, <1>4, TalkerKeeps

(* Before it counts, and after, a send that is alone finds the counters as  *)
(* the recent packets say.                                                  *)
LEMMA CountersOf ==
  ASSUME CommsInv, NEW t \in Talkers, Sending(t), talker[t].alone = "yes",
         NEW f \in Recent, f.ssrc # Comms!Zero
  PROVE  /\ ssrc = f.ssrc /\ timestamp = (f.stamp + (sent - f.nth) + 1) % Stamps
         /\ ~Counted(t) => sequence = (f.seq + (sent - f.nth)) % Seqs
         /\ Counted(t) => sequence = (f.seq + (sent - f.nth) + 1) % Seqs
<1>1. \A u \in Talkers \ {t} : ~Counted(u)
  BY DEF CommsInv, OnlySender, Sending, Counted
<1> QED
  BY <1>1 DEF CommsInv, CountersFollow

LEMMA LoadKeeps ==
  ASSUME CommsInv, NEW t \in Talkers, Comms!Load(t)
  PROVE  CommsInv'
<1> DEFINE s == [talker[t] EXCEPT !.at = "store", !.id = (sequence + 1) % Seqs]
<1>1. /\ talker[t].at = "load" /\ Sending(t) /\ ~Counted(t) /\ talker[t] \in Sends
      /\ talker' = [talker EXCEPT ![t] = s]
      /\ UNCHANGED <<ssrc, sequence, timestamp, packets, heard, sent, upsets>>
  BY DEF Comms!Load, Comms!Step, Comms!At, Comms!stream, Sending, Counted, CommsInv, CommsTyped
<1>2. /\ sequence \in 0 .. Seqs - 1 /\ timestamp \in 0 .. Stamps - 1
      /\ ssrc \in Streams \cup {Comms!Zero, MacEnd}
  BY DEF CommsInv, CommsTyped
<1>3. (sequence + 1) % Seqs \in 0 .. Seqs - 1
  BY <1>2, Widths
<1>4. /\ s \in Sends /\ s.at = "store" /\ s.alone = talker[t].alone
      /\ s.epoch = talker[t].epoch /\ s.id = (sequence + 1) % Seqs
  BY <1>1, <1>3 DEF Sends
<1> HIDE DEF s
<1>5. talker[t].alone = "yes" =>
        \A f \in Recent : f.ssrc # Comms!Zero =>
          ssrc = f.ssrc /\ sequence = (f.seq + (sent - f.nth)) % Seqs
  BY <1>1, CountersOf
<1> QED
  BY <1>1, <1>2, <1>4, <1>5, TalkerKeeps

LEMMA StoreKeeps ==
  ASSUME CommsInv, NEW t \in Talkers, Comms!Store(t)
  PROVE  CommsInv'
<1> DEFINE s == [talker[t] EXCEPT !.at = "header"]
<1>1. /\ talker[t].at = "store" /\ Sending(t) /\ ~Counted(t) /\ talker[t] \in Sends
      /\ talker' = [talker EXCEPT ![t] = s] /\ sequence' = talker[t].id
      /\ UNCHANGED <<ssrc, timestamp, packets, heard, sent, upsets>>
  BY DEF Comms!Store, Comms!Step, Comms!At, Sending, Counted, CommsInv, CommsTyped
<1>2. /\ talker[t].id \in 0 .. Seqs - 1 /\ timestamp \in 0 .. Stamps - 1
      /\ ssrc \in Streams \cup {Comms!Zero, MacEnd} /\ sent \in Nat
  BY <1>1 DEF CommsInv, CommsTyped, Sends
<1>3. /\ s \in Sends /\ s.at = "header" /\ s.alone = talker[t].alone
      /\ s.epoch = talker[t].epoch /\ s.id = talker[t].id
  BY <1>1 DEF Sends
<1> HIDE DEF s
<1>4. talker[t].alone = "yes" => talker[t].id = (sequence + 1) % Seqs
  BY <1>1 DEF CommsInv, HoldsCounters
<1>5. ASSUME talker[t].alone = "yes", NEW f \in Recent, f.ssrc # Comms!Zero
      PROVE  ssrc = f.ssrc /\ sequence' = (f.seq + (sent - f.nth) + 1) % Seqs
  <2>1. ssrc = f.ssrc /\ sequence = (f.seq + (sent - f.nth)) % Seqs
    BY <1>1, <1>5, CountersOf
  <2>2. f.seq \in Nat /\ sent - f.nth \in Nat
    BY <1>2, Widths DEF CommsInv, PacketsTyped, Recent
  <2> DEFINE a == f.seq + (sent - f.nth)
  <2>3. a \in Nat
    BY <2>2
  <2>4. ((a % Seqs) + 1) % Seqs = (a + 1) % Seqs
    <3> HIDE DEF a
    <3> QED
      BY <2>3, Widths, CountsOn
  <2> QED
    BY <1>1, <1>4, <1>5, <2>1, <2>4
<1>6. talker[t].alone = "yes" =>
        \A f \in Recent : f.ssrc # Comms!Zero =>
          ssrc = f.ssrc /\ sequence' = (f.seq + (sent - f.nth) + 1) % Seqs
  BY <1>5
<1> QED
  BY <1>1, <1>2, <1>3, <1>6, TalkerKeeps

LEMMA HeaderKeeps ==
  ASSUME CommsInv, NEW t \in Talkers, Comms!Header(t)
  PROVE  CommsInv'
<1>1. PICK n \in {sequence, talker[t].id} :
        Comms!Step(t, "header", [talker[t] EXCEPT !.at = "stamp", !.seq = n,
                                                  !.stamp = timestamp, !.ssrc = ssrc])
  BY DEF Comms!Header
<1> DEFINE s == [talker[t] EXCEPT !.at = "stamp", !.seq = n, !.stamp = timestamp, !.ssrc = ssrc]
<1>2. /\ talker[t].at = "header" /\ Sending(t) /\ Counted(t) /\ talker[t] \in Sends
      /\ talker' = [talker EXCEPT ![t] = s]
      /\ UNCHANGED <<ssrc, sequence, timestamp, packets, heard, sent, upsets>>
  BY <1>1 DEF Comms!Header, Comms!Step, Comms!At, Comms!stream, Sending, Counted, CommsInv,
     CommsTyped
<1>3. /\ sequence \in 0 .. Seqs - 1 /\ timestamp \in 0 .. Stamps - 1
      /\ ssrc \in Streams \cup {Comms!Zero, MacEnd} /\ n \in 0 .. Seqs - 1
  BY <1>1, <1>2 DEF CommsInv, CommsTyped, Sends
<1>4. /\ s \in Sends /\ s.at = "stamp" /\ s.alone = talker[t].alone /\ s.epoch = talker[t].epoch
      /\ s.seq = n /\ s.stamp = timestamp /\ s.ssrc = ssrc
  BY <1>2, <1>3 DEF Sends
<1> HIDE DEF s
<1>5. talker[t].alone = "yes" => n = sequence
  BY <1>1, <1>2 DEF CommsInv, HoldsCounters
<1>6. talker[t].alone = "yes" =>
        \A f \in Recent : f.ssrc # Comms!Zero =>
          ssrc = f.ssrc /\ sequence = (f.seq + (sent - f.nth) + 1) % Seqs
  BY <1>2, CountersOf
<1> QED
  BY <1>2, <1>3, <1>4, <1>5, <1>6, TalkerKeeps

LEMMA SendKeeps ==
  ASSUME CommsInv, NEW t \in Talkers, Comms!Send(t)
  PROVE  CommsInv'
<1> DEFINE g == [to |-> talker[t].to, seq |-> talker[t].seq, stamp |-> talker[t].stamp,
                 ssrc |-> talker[t].ssrc, alone |-> talker[t].alone,
                 epoch |-> talker[t].epoch, nth |-> sent + 1]
<1>1. /\ talker[t].at = "stamp" /\ Sending(t) /\ Counted(t) /\ talker[t] \in Sends
      /\ sent' = sent + 1 /\ packets' = packets \cup {g}
      /\ talker' = [talker EXCEPT ![t] = Comms!Idle]
      /\ UNCHANGED <<ssrc, sequence, heard, upsets>>
  BY DEF Comms!Send, Comms!At, Sending, Counted, CommsInv, CommsTyped
<1>2. PICK n \in {timestamp, talker[t].stamp} : timestamp' = (n + 1) % Stamps
  BY DEF Comms!Send
<1>3. /\ sequence \in 0 .. Seqs - 1 /\ timestamp \in 0 .. Stamps - 1 /\ n \in 0 .. Stamps - 1
      /\ sent \in Nat /\ upsets \in Nat
      /\ talker[t].seq \in 0 .. Seqs - 1 /\ talker[t].stamp \in 0 .. Stamps - 1
      /\ talker[t].epoch \in Nat /\ talker[t].alone \in {"yes", "no"}
  BY <1>1, <1>2 DEF CommsInv, CommsTyped, Sends
<1>4. /\ g.seq = talker[t].seq /\ g.stamp = talker[t].stamp /\ g.ssrc = talker[t].ssrc
      /\ g.alone = talker[t].alone /\ g.epoch = talker[t].epoch /\ g.nth = sent + 1
  OBVIOUS
<1> HIDE DEF g
<1>5. talker'[t] = Comms!Idle /\ \A u \in Talkers \ {t} : talker'[u] = talker[u]
  BY <1>1 DEF CommsInv, CommsTyped
<1>6. ~Sending(t)' /\ \A u \in Talkers \ {t} : Sending(u)' = Sending(u)
  BY <1>5 DEF Sending, Comms!Idle
<1>7. CommsTyped'
  <2>1. timestamp' \in 0 .. Stamps - 1
    BY <1>2, <1>3, Widths
  <2>2. talker' \in [Talkers -> Sends]
    BY <1>1, IdleSend, Widths DEF CommsInv, CommsTyped
  <2>3. heard' \subseteq packets'
    BY <1>1 DEF CommsInv, CommsTyped
  <2>4. sent' \in Nat
    BY <1>1, <1>3
  <2> QED
    BY <1>1, <1>3, <2>1, <2>2, <2>3, <2>4 DEF CommsInv, CommsTyped
<1>8. g.alone = "yes" =>
        /\ talker[t].seq = sequence /\ talker[t].stamp = timestamp /\ talker[t].ssrc = ssrc
        /\ talker[t].epoch = upsets /\ n = timestamp
        /\ \A u \in Talkers \ {t} : ~Sending(u)
  <2> SUFFICES ASSUME talker[t].alone = "yes"
               PROVE  /\ talker[t].seq = sequence /\ talker[t].stamp = timestamp
                      /\ talker[t].ssrc = ssrc /\ talker[t].epoch = upsets /\ n = timestamp
                      /\ \A u \in Talkers \ {t} : ~Sending(u)
    BY <1>4
  <2>1. /\ talker[t].seq = sequence /\ talker[t].stamp = timestamp /\ talker[t].ssrc = ssrc
    BY <1>1 DEF CommsInv, HoldsCounters
  <2>2. talker[t].epoch = upsets /\ \A u \in Talkers \ {t} : ~Sending(u)
    BY <1>1 DEF CommsInv, OnlySender
  <2> QED
    BY <1>2, <2>1, <2>2
<1>9. PacketsTyped'
  <2> SUFFICES ASSUME NEW f \in packets'
               PROVE  /\ f.nth \in Nat /\ f.nth <= sent' /\ f.epoch \in Nat
                      /\ f.alone = "yes" => f.epoch <= upsets
                      /\ f.seq \in 0 .. Seqs - 1 /\ f.stamp \in 0 .. Stamps - 1
    BY <1>1 DEF PacketsTyped
  <2>1. CASE f \in packets
    BY <1>1, <1>3, <2>1 DEF CommsInv, PacketsTyped
  <2>2. CASE f = g
    BY <1>1, <1>3, <1>4, <1>8, <2>2
  <2> QED
    BY <1>1, <2>1, <2>2
<1>10. OnlySender'
  BY <1>1, <1>5, <1>6 DEF CommsInv, OnlySender
<1>11. \A f \in Recent' : f \in Recent \/ (f = g /\ g.alone = "yes")
  BY <1>1 DEF Recent
<1>12. RecentUndisturbed'
  <2> SUFFICES ASSUME NEW f \in Recent', NEW u \in Talkers, Sending(u)'
               PROVE  talker'[u].alone = "yes"
    BY DEF RecentUndisturbed
  <2>1. u # t /\ Sending(u) /\ talker'[u] = talker[u]
    BY <1>5, <1>6
  <2>2. f \in Recent
    BY <1>8, <1>11, <2>1
  <2> QED
    BY <2>1, <2>2 DEF CommsInv, RecentUndisturbed
<1>13. \A u \in Talkers \ {t} : Sending(u) => talker[u].alone # "yes"
  BY <1>1 DEF CommsInv, OnlySender
<1>14. HoldsCounters'
  <2> SUFFICES ASSUME NEW u \in Talkers, talker'[u].alone = "yes"
               PROVE  talker'[u].at = "idle"
    BY DEF HoldsCounters
  <2>1. CASE u = t
    BY <1>5, <2>1 DEF Comms!Idle
  <2>2. CASE u # t
    BY <1>5, <1>13, <2>2 DEF Sending
  <2> QED
    BY <2>1, <2>2
<1>15. ASSUME NEW f \in Recent, f.ssrc # Comms!Zero
       PROVE  /\ talker[t].alone = "yes" /\ g.alone = "yes"
              /\ ssrc = f.ssrc /\ timestamp = (f.stamp + (sent - f.nth) + 1) % Stamps
              /\ sequence = (f.seq + (sent - f.nth) + 1) % Seqs
              /\ f.seq \in Nat /\ f.stamp \in Nat /\ sent - f.nth \in Nat /\ f.nth \in Nat
  <2>1. talker[t].alone = "yes"
    BY <1>1 DEF CommsInv, RecentUndisturbed
  <2>2. f.seq \in Nat /\ f.stamp \in Nat /\ sent - f.nth \in Nat /\ f.nth \in Nat
    BY <1>3, Widths DEF CommsInv, PacketsTyped, Recent
  <2> QED
    BY <1>1, <1>4, <1>15, <2>1, <2>2, CountersOf
<1>16. CountersFollow'
  <2> SUFFICES ASSUME NEW f \in Recent', f.ssrc # Comms!Zero
               PROVE  /\ ssrc = f.ssrc
                      /\ \A u \in Talkers : talker'[u].at = "idle"
                      /\ sequence = (f.seq + (sent' - f.nth)) % Seqs
                      /\ timestamp' = (f.stamp + (sent' - f.nth) + 1) % Stamps
    BY <1>1 DEF CountersFollow, Counted
  <2>1. g.alone = "yes"
    BY <1>11, <1>15
  <2>2. \A u \in Talkers : talker'[u].at = "idle"
    BY <1>5, <1>8, <2>1 DEF Sending, Comms!Idle
  <2>3. timestamp' = (timestamp + 1) % Stamps
    BY <1>2, <1>8, <2>1
  <2>4. CASE f \in Recent
    <3> DEFINE a == f.stamp + (sent - f.nth) + 1
    <3>1. /\ ssrc = f.ssrc /\ timestamp = a % Stamps
          /\ sequence = (f.seq + (sent - f.nth) + 1) % Seqs
          /\ f.seq \in Nat /\ f.stamp \in Nat /\ sent - f.nth \in Nat /\ f.nth \in Nat
      BY <1>15, <2>4
    <3>2. a \in Nat
      BY <3>1
    <3>3. f.seq + (sent' - f.nth) = f.seq + (sent - f.nth) + 1
      BY <1>1, <1>3, <3>1
    <3>4. f.stamp + (sent' - f.nth) + 1 = a + 1
      BY <1>1, <1>3, <3>1
    <3> HIDE DEF a
    <3>5. ((a % Stamps) + 1) % Stamps = (a + 1) % Stamps
      BY <3>2, Widths, CountsOn
    <3> QED
      BY <2>2, <2>3, <3>1, <3>3, <3>4, <3>5
  <2>5. CASE f = g
    <3>1. sent' - f.nth = 0
      BY <1>1, <1>3, <1>4, <2>5
    <3>2. f.seq = sequence /\ f.stamp = timestamp /\ ssrc = f.ssrc
      BY <1>4, <1>8, <2>1, <2>5
    <3>3. sequence % Seqs = sequence
      BY <1>3, Widths, NoWrap
    <3>4. f.seq + (sent' - f.nth) = sequence /\ f.stamp + (sent' - f.nth) + 1 = timestamp + 1
      BY <1>3, <3>1, <3>2
    <3> QED
      BY <2>2, <2>3, <3>2, <3>3, <3>4
  <2> QED
    BY <1>11, <2>4, <2>5
<1>17. \A f \in packets : InStep(f, g)
  <2> SUFFICES ASSUME NEW f \in packets, Comms!Undisturbed(f, g)
               PROVE  /\ g.ssrc = f.ssrc
                      /\ g.seq = (f.seq + (g.nth - f.nth)) % Seqs
                      /\ g.stamp = (f.stamp + (g.nth - f.nth)) % Stamps
    BY DEF InStep
  <2>1. /\ f.alone = "yes" /\ g.alone = "yes" /\ f.epoch = g.epoch /\ f.ssrc # Comms!Zero
    BY DEF Comms!Undisturbed
  <2>2. f \in Recent
    BY <1>4, <1>8, <2>1 DEF Recent
  <2>3. /\ ssrc = f.ssrc /\ timestamp = (f.stamp + (sent - f.nth) + 1) % Stamps
        /\ sequence = (f.seq + (sent - f.nth) + 1) % Seqs
        /\ f.seq \in Nat /\ f.stamp \in Nat /\ sent - f.nth \in Nat /\ f.nth \in Nat
    BY <1>15, <2>1, <2>2
  <2>4. /\ f.seq + (g.nth - f.nth) = f.seq + (sent - f.nth) + 1
        /\ f.stamp + (g.nth - f.nth) = f.stamp + (sent - f.nth) + 1
    BY <1>3, <1>4, <2>3
  <2> QED
    BY <1>4, <1>8, <2>1, <2>3, <2>4
<1>18. \A f \in packets' : ~Comms!Undisturbed(g, f)
  <2> SUFFICES ASSUME NEW f \in packets', g.nth < f.nth PROVE FALSE
    BY DEF Comms!Undisturbed
  <2>1. f.nth \in Nat /\ f.nth <= sent + 1
    BY <1>1, <1>9 DEF PacketsTyped
  <2> QED
    BY <1>3, <1>4, <2>1
<1>19. \A f, h \in packets' : InStep(f, h)'
  <2> SUFFICES ASSUME NEW f \in packets', NEW h \in packets' PROVE InStep(f, h)
    BY DEF InStep, Comms!Undisturbed
  <2>1. CASE f \in packets /\ h \in packets
    BY <2>1 DEF CommsInv
  <2>2. CASE f \in packets /\ h = g
    BY <1>17, <2>2
  <2>3. CASE f = g
    BY <1>18, <2>3 DEF InStep
  <2> QED
    BY <1>1, <2>1, <2>2, <2>3
<1> QED
  BY <1>7, <1>9, <1>10, <1>12, <1>14, <1>16, <1>19 DEF CommsInv

LEMMA BeginKeeps ==
  ASSUME CommsInv, NEW t \in Talkers, NEW to \in Comms!Places, Comms!Begin(t, to)
  PROVE  CommsInv'
<1> DEFINE alone == IF Comms!Others(t) = {} THEN "yes" ELSE "no"
           epoch == upsets + (IF alone = "yes" THEN 0 ELSE 1)
           s == [Comms!Idle EXCEPT !.at = "seed", !.to = to, !.alone = alone, !.epoch = epoch]
<1>1. /\ talker[t].at = "idle" /\ ~Sending(t) /\ upsets' = epoch
      /\ talker' = [u \in Talkers |->
            IF u = t THEN s
            ELSE [talker[u] EXCEPT !.alone = IF Comms!At(u, "idle") THEN @ ELSE "no"]]
      /\ UNCHANGED <<ssrc, sequence, timestamp, packets, heard, sent>>
  BY DEF Comms!Begin, Comms!At, Sending, Comms!stream
<1>2. /\ sequence \in 0 .. Seqs - 1 /\ timestamp \in 0 .. Stamps - 1
      /\ sent \in Nat /\ upsets \in Nat /\ talker \in [Talkers -> Sends]
  BY DEF CommsInv, CommsTyped
<1>3. epoch \in Nat /\ alone \in {"yes", "no"}
  BY <1>2
<1>4. /\ alone = "yes" => epoch = upsets /\ \A u \in Talkers \ {t} : ~Sending(u)
      /\ alone # "yes" => epoch = upsets + 1
  BY <1>2 DEF Comms!Others, Comms!At, Sending
<1> HIDE DEF alone, epoch
<1>5. s \in Sends /\ s.at = "seed" /\ s.alone = alone /\ s.epoch = epoch
  BY <1>3, IdleSend, Widths DEF Sends, Comms!Idle
<1> HIDE DEF s
<1>6. talker'[t] = s
  BY <1>1
<1>7. ASSUME NEW u \in Talkers \ {t}
      PROVE  /\ talker'[u] \in Sends /\ talker'[u].at = talker[u].at
             /\ Sending(u) => talker'[u].alone = "no"
             /\ ~Sending(u) => talker'[u].at = "idle"
  <2>1. talker'[u] = [talker[u] EXCEPT !.alone = IF Comms!At(u, "idle") THEN talker[u].alone ELSE "no"]
    BY <1>1
  <2>2. talker[u] \in Sends
    BY <1>2
  <2>3. CASE Sending(u)
    <3>1. talker'[u] = [talker[u] EXCEPT !.alone = "no"]
      BY <2>1, <2>3 DEF Comms!At, Sending
    <3> QED
      BY <2>2, <2>3, <3>1 DEF Sends
  <2>4. CASE ~Sending(u)
    <3>1. talker'[u] = [talker[u] EXCEPT !.alone = talker[u].alone]
      BY <2>1, <2>4 DEF Comms!At, Sending
    <3> QED
      BY <2>2, <2>4, <3>1 DEF Sends, Sending
  <2> QED
    BY <2>3, <2>4
<1>8. CommsTyped'
  <2>1. talker' \in [Talkers -> Sends]
    <3>1. \A u \in Talkers : talker'[u] \in Sends
      BY <1>5, <1>6, <1>7
    <3>2. talker' = [u \in Talkers |-> talker'[u]]
      BY <1>1
    <3> QED
      BY <3>1, <3>2
  <2> QED
    BY <1>1, <1>3, <2>1 DEF CommsInv, CommsTyped
<1>9. PacketsTyped'
  <2>1. upsets <= upsets' /\ upsets' \in Nat
    BY <1>1, <1>2, <1>4
  <2> QED
    BY <1>1, <1>2, <2>1 DEF CommsInv, PacketsTyped
<1>10. OnlySender'
  <2> SUFFICES ASSUME NEW u \in Talkers, Sending(u)', talker'[u].alone = "yes"
               PROVE  talker'[u].epoch = upsets' /\ \A v \in Talkers \ {u} : ~Sending(v)'
    BY DEF OnlySender
  <2>1. u = t
    BY <1>7 DEF Sending
  <2>2. alone = "yes"
    BY <1>5, <1>6, <2>1
  <2> QED
    BY <1>1, <1>4, <1>5, <1>6, <1>7, <2>1, <2>2 DEF Sending
<1>11. Recent' # {} => alone = "yes" /\ Recent' = Recent
  <2>1. CASE alone = "yes"
    BY <1>1, <1>4, <2>1 DEF Recent
  <2>2. CASE alone # "yes"
    <3>1. \A f \in packets : f.alone = "yes" => f.epoch # upsets'
      BY <1>1, <1>2, <1>4, <2>2 DEF CommsInv, PacketsTyped
    <3> QED
      BY <1>1, <3>1 DEF Recent
  <2> QED
    BY <2>1, <2>2
<1>12. RecentUndisturbed'
  BY <1>4, <1>5, <1>6, <1>7, <1>11 DEF RecentUndisturbed, Sending
<1>13. HoldsCounters'
  <2> SUFFICES ASSUME NEW u \in Talkers, talker'[u].alone = "yes"
               PROVE  talker'[u].at \in {"idle", "seed"}
    BY DEF HoldsCounters
  <2> QED
    BY <1>5, <1>6, <1>7
<1>14. CountersFollow'
  <2> SUFFICES ASSUME NEW f \in Recent', f.ssrc # Comms!Zero
               PROVE  /\ ssrc = f.ssrc
                      /\ \A u \in Talkers : talker'[u].at # "seed_counters" /\ ~Counted(u)'
                      /\ sequence = (f.seq + (sent - f.nth)) % Seqs
                      /\ timestamp = (f.stamp + (sent - f.nth) + 1) % Stamps
    BY <1>1 DEF CountersFollow
  <2>1. f \in Recent /\ \A u \in Talkers : ~Sending(u)
    BY <1>1, <1>4, <1>11
  <2>2. \A u \in Talkers : ~Counted(u)
    BY <2>1 DEF Counted, Sending
  <2>3. \A u \in Talkers : talker'[u].at # "seed_counters" /\ ~Counted(u)'
    BY <1>5, <1>6, <1>7, <2>1 DEF Counted
  <2> QED
    BY <2>1, <2>2, <2>3 DEF CommsInv, CountersFollow
<1>15. \A f, g \in packets' : InStep(f, g)'
  BY <1>1 DEF CommsInv, InStep, Comms!Undisturbed
<1> QED
  BY <1>8, <1>9, <1>10, <1>12, <1>13, <1>14, <1>15 DEF CommsInv

LEMMA CommsSteps ==
  ASSUME CommsInv, [Comms!Next]_Comms!vars
  PROVE  CommsInv'
<1>q. ASSUME UNCHANGED <<ssrc, sequence, timestamp, talker, packets, sent, upsets>>,
             heard' \subseteq packets
      PROVE  CommsInv'
  <2>1. CommsTyped' /\ PacketsTyped'
    BY <1>q DEF CommsInv, CommsTyped, PacketsTyped
  <2>2. OnlySender' /\ HoldsCounters'
    BY <1>q DEF CommsInv, OnlySender, HoldsCounters, Sending
  <2>3. Recent' = Recent
    BY <1>q DEF Recent
  <2>4. RecentUndisturbed' /\ CountersFollow'
    BY <1>q, <2>3 DEF CommsInv, RecentUndisturbed, CountersFollow, Counted, Sending
  <2>5. \A f, g \in packets' : InStep(f, g)'
    BY <1>q DEF CommsInv, InStep, Comms!Undisturbed
  <2> QED
    BY <2>1, <2>2, <2>4, <2>5 DEF CommsInv
<1>1. ASSUME NEW t \in Talkers, NEW to \in Comms!Places, Comms!Begin(t, to) PROVE CommsInv'
  BY <1>1, BeginKeeps
<1>2. ASSUME NEW t \in Talkers, Comms!TalkerStep(t) PROVE CommsInv'
  BY <1>2, SeedKeeps, SeedCountersKeeps, LoadKeeps, StoreKeeps, HeaderKeeps, SendKeeps
     DEF Comms!TalkerStep
<1>3. ASSUME NEW p \in packets, Comms!Hear(p) PROVE CommsInv'
  <2>1. heard' \subseteq packets
    BY <1>3 DEF Comms!Hear, CommsInv, CommsTyped
  <2> QED
    BY <1>3, <1>q, <2>1 DEF Comms!Hear, Comms!stream
<1>4. ASSUME NEW d \in Comms!Sides, NEW channels \in SUBSET Channels, Comms!Subscribe(d, channels)
      PROVE  CommsInv'
  <2>1. heard' \subseteq packets
    BY <1>4 DEF Comms!Subscribe, CommsInv, CommsTyped
  <2> QED
    BY <1>4, <1>q, <2>1 DEF Comms!Subscribe, Comms!stream
<1>5. CASE UNCHANGED Comms!vars
  <2>1. heard' \subseteq packets
    BY <1>5 DEF Comms!vars, CommsInv, CommsTyped
  <2> QED
    BY <1>5, <1>q, <2>1 DEF Comms!vars, Comms!stream
<1> QED
  BY <1>1, <1>2, <1>3, <1>4, <1>5 DEF Comms!Next

LEMMA CommsTells == CommsInv => Comms!StreamSteady
BY DEF CommsInv, CommsTyped, InStep, Comms!StreamSteady

-----------------------------------------------------------------------------
(* What is published of the place (Alfred) *)

(* The clock stands where the time since the last publication says, until   *)
(* it has come round.                                                       *)
SinceLast == IF now >= last THEN now - last ELSE now + Clock - last
ClockFollows ==
  /\ now \in 0 .. Clock - 1 /\ last \in 0 .. Clock - 1 /\ since \in Nat
  /\ published /\ since < Clock => since = SinceLast

(* The numbers used go through 1 .. Numbers - 1 in order, and round.        *)
NumbersFollow ==
  /\ number \in 0 .. Numbers - 1
  /\ numbers \in Seq(1 .. Numbers - 1)
  /\ Len(numbers) > 0 => number = numbers[Len(numbers)]
  /\ \A i, j \in 1 .. Len(numbers) : i <= j /\ j - i < Numbers - 1 =>
       numbers[j] = IF numbers[i] + (j - i) < Numbers THEN numbers[i] + (j - i)
                    ELSE numbers[i] + (j - i) - (Numbers - 1)

LEMMA PlaceStarts == Place!Init => ClockFollows /\ NumbersFollow
<1> SUFFICES ASSUME Place!Init PROVE ClockFollows /\ NumbersFollow
  OBVIOUS
<1>1. /\ now \in 0 .. Clock - 1 /\ last = 0 /\ published = FALSE /\ number = 0 /\ since = 0
      /\ numbers = <<>>
  BY DEF Place!Init
<1>2. ClockFollows
  BY <1>1, ConfigAssumption DEF ClockFollows
<1>3. NumbersFollow
  <2>1. numbers \in Seq(1 .. Numbers - 1) /\ Len(numbers) = 0
    BY <1>1
  <2>2. 0 \in 0 .. Numbers - 1
    BY ConfigAssumption
  <2> QED
    BY <1>1, <2>1, <2>2 DEF NumbersFollow
<1> QED
  BY <1>2, <1>3

LEMMA NextNumberIs ==
  ASSUME NEW n \in 0 .. Numbers - 1
  PROVE  Place!NextNumber(n) = (IF n + 1 < Numbers THEN n + 1 ELSE 1)
<1>1. Numbers \in Nat \ {0} /\ 1 < Numbers
  BY ConfigAssumption
<1>2. CASE n + 1 < Numbers
  <2>1. n + 1 \in 0 .. Numbers - 1
    BY <1>1, <1>2
  <2>2. (n + 1) % Numbers = n + 1
    BY <1>1, <2>1, NoWrap
  <2> QED
    BY <1>2, <2>2 DEF Place!NextNumber
<1>3. CASE n + 1 = Numbers
  <2>1. (Numbers * 1 + 0) % Numbers = 0
    BY <1>1, Remainder
  <2>2. (n + 1) % Numbers = 0
    BY <1>1, <1>3, <2>1
  <2> QED
    BY <1>3, <2>2 DEF Place!NextNumber
<1> QED
  BY <1>1, <1>2, <1>3

LEMMA ClockSteps ==
  ASSUME ClockFollows, [Place!Next]_Place!vars
  PROVE  ClockFollows'
<1>c. Clock \in Nat \ {0}
  BY ConfigAssumption
<1>1. ASSUME NEW p \in Primaries, NEW mac \in BOOLEAN, Place!Announce(p, mac)
      PROVE  ClockFollows'
  <2>1. last' = now /\ now' = now /\ since' = 0
    BY <1>1 DEF Place!Announce
  <2> QED
    BY <1>c, <2>1 DEF ClockFollows, SinceLast
<1>2. CASE Place!Tick
  <2>1. since' = since + 1 /\ now' = (now + 1) % Clock /\ UNCHANGED <<last, published>>
    BY <1>2 DEF Place!Tick
  <2>2. now' = IF now + 1 < Clock THEN now + 1 ELSE 0
    <3>1. CASE now + 1 < Clock
      <4>1. now + 1 \in 0 .. Clock - 1
        BY <1>c, <3>1 DEF ClockFollows
      <4> QED
        BY <1>c, <2>1, <3>1, <4>1, NoWrap
    <3>2. CASE ~(now + 1 < Clock)
      <4>1. now + 1 = Clock * 1 + 0
        BY <1>c, <3>2 DEF ClockFollows
      <4>2. (Clock * 1 + 0) % Clock = 0
        BY <1>c, Remainder
      <4> QED
        BY <2>1, <3>2, <4>1, <4>2
    <3> QED
      BY <3>1, <3>2
  <2>3. now' \in 0 .. Clock - 1 /\ last' \in 0 .. Clock - 1 /\ since' \in Nat
    BY <1>c, <2>1, <2>2 DEF ClockFollows
  <2>4. published /\ since' < Clock => since' = SinceLast'
    <3>1. SUFFICES ASSUME published, since + 1 < Clock PROVE since + 1 = SinceLast'
      BY <2>1
    <3>2. since = SinceLast
      BY <1>c, <3>1 DEF ClockFollows
    <3>3. SinceLast' = IF now' >= last THEN now' - last ELSE now' + Clock - last
      BY <2>1 DEF SinceLast
    <3> QED
      BY <1>c, <2>1, <2>2, <3>1, <3>2, <3>3 DEF ClockFollows, SinceLast
  <2> QED
    BY <2>1, <2>3, <2>4 DEF ClockFollows
<1>3. CASE Place!Publishing \/ Place!FixChanges \/ UNCHANGED Place!vars
  <2>1. UNCHANGED <<now, last, published, since>>
    BY <1>3 DEF Place!Publishing, Place!Push, Place!End, Place!FixChanges, Place!vars
  <2> QED
    BY <2>1 DEF ClockFollows, SinceLast
<1> QED
  BY <1>1, <1>2, <1>3 DEF Place!Next

LEMMA NumbersSteps ==
  ASSUME NumbersFollow, [Place!Next]_Place!vars
  PROVE  NumbersFollow'
<1>c. Numbers \in Nat \ {0, 1}
  BY ConfigAssumption
<1>1. ASSUME NEW p \in Primaries, NEW mac \in BOOLEAN, Place!Announce(p, mac)
      PROVE  NumbersFollow'
  <2>1. numbers' = numbers /\ \E seed \in 0 .. Numbers - 1 :
                                number' = IF number = 0 THEN seed ELSE number
    BY <1>1 DEF Place!Announce
  <2>2. Len(numbers) > 0 => number # 0
    BY <1>c DEF NumbersFollow
  <2> QED
    BY <1>c, <2>1, <2>2 DEF NumbersFollow
<1>2. ASSUME NEW ok \in BOOLEAN, Place!Push(ok)
      PROVE  NumbersFollow'
  <2> DEFINE n == Len(numbers)
             m == number'
  <2>1. m = Place!NextNumber(number) /\ numbers' = Append(numbers, m)
    BY <1>2 DEF Place!Push
  <2>2. m = IF number + 1 < Numbers THEN number + 1 ELSE 1
    BY <2>1, NextNumberIs DEF NumbersFollow
  <2>3. m \in 1 .. Numbers - 1 /\ n \in Nat
    BY <1>c, <2>2 DEF NumbersFollow
  <2> HIDE DEF m
  <2>4. /\ numbers' \in Seq(1 .. Numbers - 1) /\ Len(numbers') = n + 1
        /\ numbers'[n + 1] = m /\ \A i \in 1 .. n : numbers'[i] = numbers[i]
    BY <2>1, <2>3 DEF NumbersFollow
  <2>5. \A i \in 1 .. n : numbers[i] \in 1 .. Numbers - 1
    BY ElementOfSeq DEF NumbersFollow
  <2>6. n > 0 => number = numbers[n]
    BY DEF NumbersFollow
  <2>7. \A i, j \in 1 .. n : i <= j /\ j - i < Numbers - 1 =>
          numbers[j] = IF numbers[i] + (j - i) < Numbers THEN numbers[i] + (j - i)
                       ELSE numbers[i] + (j - i) - (Numbers - 1)
    BY DEF NumbersFollow
  <2> HIDE DEF n
  <2>8. ASSUME NEW i \in 1 .. n + 1, NEW j \in 1 .. n + 1, i <= j, j - i < Numbers - 1
        PROVE  numbers'[j] = IF numbers'[i] + (j - i) < Numbers THEN numbers'[i] + (j - i)
                             ELSE numbers'[i] + (j - i) - (Numbers - 1)
    <3>1. CASE j \in 1 .. n
      <4>1. i \in 1 .. n
        BY <2>3, <2>8, <3>1
      <4> QED
        BY <2>4, <2>7, <2>8, <3>1, <4>1
    <3>2. CASE j = n + 1 /\ i = n + 1
      BY <1>c, <2>3, <2>4, <3>2
    <3>3. CASE j = n + 1 /\ i \in 1 .. n
      <4>1. /\ n \in 1 .. n /\ i <= n /\ n - i < Numbers - 1 /\ n - i \in Nat /\ n > 0
            /\ j - i = (n - i) + 1
        BY <1>c, <2>3, <2>8, <3>3
      <4>2. number = IF numbers[i] + (n - i) < Numbers THEN numbers[i] + (n - i)
                     ELSE numbers[i] + (n - i) - (Numbers - 1)
        BY <2>6, <2>7, <3>3, <4>1
      <4>3. numbers[i] \in 1 .. Numbers - 1 /\ numbers'[i] = numbers[i] /\ numbers'[j] = m
        BY <2>4, <2>5, <3>3
      <4> DEFINE d == n - i
                 a == numbers[i]
      <4>4. d \in Nat /\ d < Numbers - 1 /\ a \in 1 .. Numbers - 1
        BY <4>1, <4>3
      <4>5. m = IF a + (d + 1) < Numbers THEN a + (d + 1) ELSE a + (d + 1) - (Numbers - 1)
        <5>1. number = IF a + d < Numbers THEN a + d ELSE a + d - (Numbers - 1)
          BY <4>2
        <5> HIDE DEF a, d
        <5> QED
          BY <1>c, <2>2, <4>4, <5>1
      <4> QED
        BY <4>1, <4>3, <4>5
    <3> QED
      BY <2>3, <3>1, <3>2, <3>3
  <2> QED
    BY <1>c, <2>3, <2>4, <2>8 DEF NumbersFollow, m
<1>3. CASE (\E ok \in BOOLEAN : Place!End(ok)) \/ Place!Tick \/ Place!FixChanges \/ UNCHANGED Place!vars
  <2>1. UNCHANGED <<number, numbers>>
    BY <1>3 DEF Place!End, Place!Tick, Place!FixChanges, Place!vars
  <2> QED
    BY <2>1 DEF NumbersFollow
<1> QED
  BY <1>1, <1>2, <1>3 DEF Place!Next, Place!Publishing

LEMMA PlaceTells == ClockFollows /\ NumbersFollow => Place!WrapsAreHarmless
<1> SUFFICES ASSUME ClockFollows, NumbersFollow PROVE Place!WrapsAreHarmless
  OBVIOUS
<1>c. Clock \in Nat \ {0} /\ Minute \in 0 .. Clock /\ Numbers \in Nat \ {0, 1}
  BY ConfigAssumption
<1>1. (now + Clock - last) % Clock = SinceLast
  <2> DEFINE d == SinceLast
  <2>1. d \in 0 .. Clock - 1
    BY <1>c DEF ClockFollows, SinceLast
  <2>2. (Clock * 0 + d) % Clock = d /\ (Clock * 1 + d) % Clock = d
    <3> HIDE DEF d
    <3> QED
      BY <1>c, <2>1, Remainder
  <2>3. now + Clock - last = Clock * 0 + d \/ now + Clock - last = Clock * 1 + d
    BY <1>c DEF ClockFollows, SinceLast
  <2> QED
    BY <2>2, <2>3
<1>2. Place!Spaced
  <2>1. Place!TooSoon <=> published /\ SinceLast < Minute
    BY <1>1 DEF Place!TooSoon
  <2>2. published /\ since < Clock => since = SinceLast
    BY DEF ClockFollows
  <2>3. since < Minute => since < Clock
    BY <1>c DEF ClockFollows
  <2>4. published /\ since < Minute => SinceLast < Minute
    BY <2>2, <2>3
  <2>5. published /\ Minute <= since /\ since < Clock => ~(SinceLast < Minute)
    <3> SUFFICES ASSUME published, Minute <= since, since < Clock, SinceLast < Minute PROVE FALSE
      OBVIOUS
    <3>1. since = SinceLast /\ since \in Nat
      BY <2>2 DEF ClockFollows
    <3> QED
      BY <1>c, <3>1
  <2> QED
    BY <2>1, <2>4, <2>5 DEF Place!Spaced
<1>3. Place!FreshNumbers
  <2>1. /\ Len(numbers) \in Nat /\ DOMAIN numbers = 1 .. Len(numbers)
        /\ \A i \in 1 .. Len(numbers) : numbers[i] \in 1 .. Numbers - 1
    BY ElementOfSeq, LenProperties DEF NumbersFollow
  <2>2. \A i \in DOMAIN numbers : numbers[i] # 0
    BY <1>c, <2>1
  <2>3. ASSUME NEW i \in 1 .. Len(numbers), NEW j \in 1 .. Len(numbers),
               i < j, j - i < Numbers - 1
        PROVE  numbers[i] # numbers[j]
    <3>1. numbers[j] = IF numbers[i] + (j - i) < Numbers THEN numbers[i] + (j - i)
                       ELSE numbers[i] + (j - i) - (Numbers - 1)
      BY <2>1, <2>3 DEF NumbersFollow
    <3>2. numbers[i] \in 1 .. Numbers - 1 /\ j - i \in Nat /\ j - i > 0
      BY <2>1, <2>3
    <3> QED
      BY <1>c, <2>3, <3>1, <3>2
  <2> QED
    BY <2>1, <2>2, <2>3 DEF Place!FreshNumbers
<1> QED
  BY <1>2, <1>3 DEF Place!WrapsAreHarmless

(* A receiver can put in order what two tasks of a sender send through      *)
(* three static words, wherever no two sends overlap (send_phone_frame in   *)
(* openmanet_comms.c); publications keep their minute, and no transaction   *)
(* number comes back before its turn, when clock and number wrap            *)
(* (openmanet_alfred.c): for any width of the counters and any number of    *)
(* tasks and packets.                                                       *)
THEOREM CountersKeepMeaning == Comms!Spec /\ Place!Spec => []OpenManetKept
<1>1. Comms!Init => CommsInv
  BY CommsStarts
<1>2. CommsInv /\ [Comms!Next]_Comms!vars => CommsInv'
  BY CommsSteps
<1>3. Place!Init => ClockFollows /\ NumbersFollow
  BY PlaceStarts
<1>4. ClockFollows /\ NumbersFollow /\ [Place!Next]_Place!vars => (ClockFollows /\ NumbersFollow)'
  BY ClockSteps, NumbersSteps
<1>5. CommsInv /\ ClockFollows /\ NumbersFollow => OpenManetKept
  BY CommsTells, PlaceTells DEF OpenManetKept
<1>6. Comms!Spec => []CommsInv
  BY <1>1, <1>2, PTL DEF Comms!Spec
<1>7. Place!Spec => [](ClockFollows /\ NumbersFollow)
  BY <1>3, <1>4, PTL DEF Place!Spec
<1> QED
  BY <1>5, <1>6, <1>7, PTL
=============================================================================
