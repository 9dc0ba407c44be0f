---------------------------- MODULE PowerPolicy ----------------------------
(***************************************************************************)
(* The disconnected-power policy of halow_sync_bridge.c: when no phone is  *)
(* connected over BLE or USB, BLE is switched off after one window and a   *)
(* device of a user type goes into deep sleep after another; when a phone  *)
(* leaves a user device, its HaLow radio is unloaded at once.              *)
(*                                                                         *)
(* Four tasks share the two timers and the unload request under            *)
(* s_ble_shutdown_lock, which covers one access at a time and never a      *)
(* check together with the access it guards:                               *)
(*   "ble"      the NimBLE host task (GAP events, control writes),         *)
(*   "usb"      usb_rx_task (control handshake, exit, activity timeout),   *)
(*   "forward"  usb_mobile_to_halow_task (handles the frames usb queued),  *)
(*   "worker"   device_mode_ble_shutdown_task.                             *)
(* A handler is the list of the critical sections and checks it still has  *)
(* to run, todo[task]; each element is one atomic step, and steps of the   *)
(* tasks interleave.                                                       *)
(*                                                                         *)
(* Abstractions.  Time is counted in ticks of one minute, the unit of the  *)
(* three windows in the code; a timer is the ticks left before its         *)
(* deadline, which is what the signed difference of the millisecond clock  *)
(* and the deadline tells apart.  The active-interface tag, the status     *)
(* LED, the log stream and the task wake-ups that the same callbacks touch *)
(* belong to other parts of the bridge and are left out.                   *)
(***************************************************************************)
EXTENDS Integers, Sequences

CONSTANTS
  ShortWindow,  \* USER_DISCONNECT_DEEP_SLEEP_WINDOW_MS: sleep after a phone left
  BleWindow,    \* BLE_DISCONNECTED_WINDOW_MS: BLE off
  LongWindow,   \* DEVICE_DEEP_SLEEP_WINDOW_MS: sleep after boot or a settings change
  MaxEvents     \* bound: links, USB sessions and commands of the phones

ASSUME WindowsAssumption ==
  /\ ShortWindow \in Nat \ {0}
  /\ BleWindow \in Nat \ {0}
  /\ LongWindow \in Nat
  /\ ShortWindow =< LongWindow
  /\ MaxEvents \in Nat

VARIABLES
  deviceType, \* s_device_settings.device_type, up to what the policy asks of it
  bleHost,    \* "advertising", "quiet" (no pairing), "dead" (stop failed), "off"
  ble,        \* the BLE link: "down", "linked", "secured"
  usb,        \* "log" or "control" (s_transport_mode)
  queued,     \* frames of the host waiting for usb_mobile_to_halow_task
  halow,      \* s_halow_started: "up" or "down"
  bleTimer,   \* s_ble_shutdown_pending and its deadline
  sleepTimer, \* s_mode_sleep_pending and its deadline
  unload,     \* s_user_halow_shutdown_pending: "asked" or "no"
  snap,       \* what the worker read under the lock at the start of its pass
  todo,       \* per task, the steps left of the handler it is in
  power,      \* "on" or "asleep" (esp_deep_sleep_start)
  idleFor,    \* history: ticks since a phone last ended the last session
  events      \* bound: what the phones did so far

vars == <<deviceType, bleHost, ble, usb, queued, halow, bleTimer, sleepTimer,
          unload, snap, todo, power, idleFor, events>>

timers == <<bleTimer, sleepTimer, unload>>
links  == <<bleHost, ble, usb, queued>>
rest   == <<deviceType, halow, power, idleFor, events>>

Tasks == {"ble", "usb", "forward", "worker"}
Phones == {"ble", "forward"}  \* the tasks that run handle_to_radio

Off == -1  \* a timer that is not pending

Nothing == [ble |-> Off, sleep |-> Off, unload |-> "no"]

Steps == {"cancelBle", "cancelSleep", "clearUnload", "ifAlone", "applyType",
          "scheduleBle", "scheduleShort", "scheduleLong", "armBle", "armShort",
          "armLong", "askUnload", "startHalow", "checkAlone", "tryUnload",
          "checkPolicy", "trySleep", "stopPairing", "stopHost",
          "powerDown", "deepSleep"}

-----------------------------------------------------------------------------
(* What the code asks of the state. *)

\* bridge_has_connected_interface
Connected == ble = "secured" \/ usb = "control"

\* device_type_uses_user_idle_sleep of the current settings
SleepsWhenIdle == deviceType = "user"

BleEnabled == bleHost # "off"
HostRuns == bleHost \in {"advertising", "quiet"}

\* The handlers, as the steps they are made of.
ConnectHandler == <<"cancelBle", "cancelSleep", "clearUnload">>
DisconnectHandler == <<"ifAlone">>
SettingsHandler == <<"applyType">>

\* ble_disconnect_power_policy_schedule, which reads the type once.
DisconnectPolicy ==
  IF SleepsWhenIdle
  THEN <<"scheduleBle", "scheduleShort", "askUnload">>
  ELSE <<"scheduleBle", "scheduleLong">>

Free(t) == todo[t] = <<>> /\ power = "on"
Runs(t, step) == todo[t] # <<>> /\ Head(todo[t]) = step /\ power = "on"

\* Task t starts a handler; or it completes a step and goes on with steps.
Starts(t, handler) == todo' = [todo EXCEPT ![t] = handler]
Continues(t, steps) == todo' = [todo EXCEPT ![t] = steps \o Tail(@)]
Completes(t) == Continues(t, <<>>)

Left(timer) == IF timer > 0 THEN timer - 1 ELSE timer
-----------------------------------------------------------------------------
\* app_main enables BLE with pairing, and halow_sync_bridge_init arms both
\* timers (boot_power_policy_schedule) before any phone has connected.
Init ==
  /\ deviceType \in {"user", "autonomous"}
  /\ bleHost = "advertising"
  /\ ble = "down"
  /\ usb = "log"
  /\ queued = 0
  /\ halow = IF SleepsWhenIdle THEN "down" ELSE "up"
  /\ bleTimer = BleWindow
  /\ sleepTimer = IF SleepsWhenIdle THEN LongWindow ELSE Off
  /\ unload = "no"
  /\ snap = Nothing
  /\ todo = [t \in Tasks |-> <<>>]
  /\ power = "on"
  /\ idleFor = 0
  /\ events = 0

-----------------------------------------------------------------------------
(* The phones: GAP events, the USB handshake and exit, and commands. *)

Happens == events < MaxEvents /\ events' = events + 1

\* BLE_GAP_EVENT_CONNECT: a link without encryption is not a session yet.
BleLink ==
  /\ Free("ble") /\ Happens
  /\ bleHost = "advertising" /\ ble = "down"
  /\ ble' = "linked"
  /\ UNCHANGED <<bleHost, usb, queued, timers, snap, todo,
                 deviceType, halow, power, idleFor>>

\* BLE_GAP_EVENT_ENC_CHANGE with success, into note_ble_connected(true).
BlePair ==
  /\ Free("ble") /\ HostRuns
  /\ ble = "linked"
  /\ ble' = "secured"
  /\ Starts("ble", ConnectHandler)
  /\ UNCHANGED <<bleHost, usb, queued, timers, snap, rest>>

\* BLE_GAP_EVENT_DISCONNECT, into note_ble_connected(false); it comes for a
\* link that never paired as well.
BleDrop ==
  /\ Free("ble") /\ HostRuns
  /\ ble # "down"
  /\ ble' = "down"
  /\ idleFor' = IF ble = "secured" /\ usb = "log" THEN 0 ELSE idleFor
  /\ Starts("ble", DisconnectHandler)
  /\ UNCHANGED <<bleHost, usb, queued, timers, snap,
                 deviceType, halow, power, events>>

\* usb_enter_control_mode_with_pong, into note_usb_connected(true).
UsbEnter ==
  /\ Free("usb") /\ Happens
  /\ usb = "log"
  /\ usb' = "control"
  /\ Starts("usb", ConnectHandler)
  /\ UNCHANGED <<bleHost, ble, queued, timers, snap,
                 deviceType, halow, power, idleFor>>

\* usb_control_transport_exit, on the host's request or after its silence,
\* into note_usb_connected(false).
UsbExit ==
  /\ Free("usb")
  /\ usb = "control"
  /\ usb' = "log"
  /\ idleFor' = IF ble = "secured" THEN idleFor ELSE 0
  /\ Starts("usb", DisconnectHandler)
  /\ UNCHANGED <<bleHost, ble, queued, timers, snap,
                 deviceType, halow, power, events>>

\* usb_consume_rx queues a command; the queue outlives the session.
UsbQueue ==
  /\ Free("usb") /\ Happens
  /\ usb = "control"
  /\ queued' = queued + 1
  /\ UNCHANGED <<bleHost, ble, usb, timers, snap, todo,
                 deviceType, halow, power, idleFor>>

\* A command reaches handle_to_radio: a write of the paired phone, or the
\* next queued frame.
Receives(t) ==
  /\ Free(t)
  /\ \/ /\ t = "ble" /\ HostRuns /\ ble = "secured" /\ Happens
        /\ queued' = queued
     \/ /\ t = "forward" /\ queued > 0
        /\ queued' = queued - 1
        /\ events' = events

\* handle_device_settings SET: the new type is in force before the policy of
\* the type is applied.
SetDeviceType(t, type) ==
  /\ Receives(t)
  /\ deviceType' = type
  /\ Starts(t, SettingsHandler)
  /\ UNCHANGED <<bleHost, ble, usb, timers, snap, halow, power, idleFor>>

\* handle_halow_init_config: the phone starts the radio, which may fail.
InitHalow(t) ==
  /\ Receives(t)
  /\ halow' \in {halow, "up"}
  /\ UNCHANGED <<bleHost, ble, usb, timers, snap, todo,
                 deviceType, power, idleFor>>

-----------------------------------------------------------------------------
(* The steps the handlers share: each is one critical section, or one check *)
(* whose outcome decides which sections follow.                             *)

\* device_mode_ble_shutdown_cancel
CancelBle(t) ==
  /\ Runs(t, "cancelBle")
  /\ bleTimer' = Off
  /\ Completes(t)
  /\ UNCHANGED <<links, sleepTimer, unload, snap, rest>>

\* mode_deep_sleep_cancel
CancelSleep(t) ==
  /\ Runs(t, "cancelSleep")
  /\ sleepTimer' = Off
  /\ Completes(t)
  /\ UNCHANGED <<links, bleTimer, unload, snap, rest>>

ClearUnload(t) ==
  /\ Runs(t, "clearUnload")
  /\ unload' = "no"
  /\ Completes(t)
  /\ UNCHANGED <<links, bleTimer, sleepTimer, snap, rest>>

\* The end of both note_*_connected(false): the policy starts only when the
\* other interface has no phone either.
IfAlone(t) ==
  /\ Runs(t, "ifAlone")
  /\ Continues(t, IF Connected THEN <<>> ELSE DisconnectPolicy)
  /\ UNCHANGED <<links, timers, snap, rest>>

\* The end of handle_device_settings, with disconnected_power_policy_schedule.
ApplyType(t) ==
  /\ Runs(t, "applyType")
  /\ Continues(t, (IF Connected THEN <<"cancelBle", "cancelSleep">>
                                ELSE <<"scheduleBle", "scheduleLong">>)
                  \o (IF SleepsWhenIdle THEN <<>> ELSE <<"startHalow">>))
  /\ UNCHANGED <<links, timers, snap, rest>>

\* device_mode_ble_shutdown_schedule: the check, and apart from it the section
\* that arms the timer.
ScheduleBle(t) ==
  /\ Runs(t, "scheduleBle")
  /\ Continues(t, IF BleEnabled /\ ~Connected THEN <<"armBle">>
                                              ELSE <<"cancelBle">>)
  /\ UNCHANGED <<links, timers, snap, rest>>

\* mode_deep_sleep_schedule, for either window.
ScheduleSleep(t) ==
  \E window \in {<<"scheduleShort", "armShort">>, <<"scheduleLong", "armLong">>} :
    /\ Runs(t, window[1])
    /\ Continues(t, IF SleepsWhenIdle /\ ~Connected THEN <<window[2]>>
                                                    ELSE <<"cancelSleep">>)
    /\ UNCHANGED <<links, timers, snap, rest>>

ArmBle(t) ==
  /\ Runs(t, "armBle")
  /\ bleTimer' = BleWindow
  /\ Completes(t)
  /\ UNCHANGED <<links, sleepTimer, unload, snap, rest>>

\* Faulty variant: a timer that is pending keeps its old deadline.
ArmSleep_KeepsDeadline(t) ==
  \E window \in {<<"armShort", ShortWindow>>, <<"armLong", LongWindow>>} :
    /\ Runs(t, window[1])
    /\ sleepTimer' = IF sleepTimer = Off THEN window[2] ELSE sleepTimer
    /\ Completes(t)
    /\ UNCHANGED <<links, bleTimer, unload, snap, rest>>

ArmSleep(t) ==
  \E window \in {<<"armShort", ShortWindow>>, <<"armLong", LongWindow>>} :
    /\ Runs(t, window[1])
    /\ sleepTimer' = window[2]
    /\ Completes(t)
    /\ UNCHANGED <<links, bleTimer, unload, snap, rest>>

AskUnload(t) ==
  /\ Runs(t, "askUnload")
  /\ unload' = "asked"
  /\ Completes(t)
  /\ UNCHANGED <<links, bleTimer, sleepTimer, snap, rest>>

\* device_mode_start_halow_from_settings, which reads the type again; the
\* radio may fail to start.
StartHalow(t) ==
  /\ Runs(t, "startHalow")
  /\ halow' \in (IF SleepsWhenIdle THEN {halow} ELSE {halow, "up"})
  /\ Completes(t)
  /\ UNCHANGED <<links, timers, snap, deviceType, power, idleFor, events>>

-----------------------------------------------------------------------------
(* device_mode_ble_shutdown_task: a pass every second, or when notified. *)

WorkerWake ==
  /\ Free("worker")
  /\ snap' = [ble |-> bleTimer, sleep |-> sleepTimer, unload |-> unload]
  /\ Starts("worker", <<"checkAlone">>)
  /\ UNCHANGED <<links, timers, rest>>

\* Faulty variants: a timer that is not due yet is dropped with the pass; the
\* unload waits for the BLE deadline.
PassSteps_DropsPending ==
  (IF snap.unload = "asked" THEN <<"tryUnload">> ELSE <<>>)
  \o (IF snap.ble = 0 THEN <<"cancelBle", "stopPairing">> ELSE <<>>)
  \o (IF snap.sleep = 0 THEN <<"trySleep">> ELSE <<"cancelSleep">>)

\* The one check of the pass, followed by the one reading of the clock; what
\* the rest of the pass does is decided by the snapshot, which is dead after it.
PassSteps ==
  (IF snap.unload = "asked" THEN <<"tryUnload">> ELSE <<>>)
  \o (IF snap.ble = 0 THEN <<"cancelBle", "stopPairing">> ELSE <<>>)
  \o (IF snap.sleep = 0 THEN <<"trySleep">>
      ELSE IF snap.sleep = Off THEN <<>> ELSE <<"checkPolicy">>)

\* Faulty variant: a connected interface only skips the pass.
WorkerCheck_SkipsPass ==
  /\ Runs("worker", "checkAlone")
  /\ Continues("worker", IF Connected THEN <<>> ELSE PassSteps)
  /\ snap' = Nothing
  /\ UNCHANGED <<links, timers, rest>>

WorkerCheck ==
  /\ Runs("worker", "checkAlone")
  /\ Continues("worker", IF Connected
                         THEN <<"cancelBle", "cancelSleep", "clearUnload">>
                         ELSE PassSteps)
  /\ snap' = Nothing
  /\ UNCHANGED <<links, timers, rest>>

WorkerUnload ==
  /\ Runs("worker", "tryUnload")
  /\ IF SleepsWhenIdle THEN unload' = "no" /\ halow' = "down"
                       ELSE UNCHANGED <<unload, halow>>
  /\ Completes("worker")
  /\ UNCHANGED <<links, bleTimer, sleepTimer, snap,
                 deviceType, power, idleFor, events>>

\* A sleep timer that is pending is dropped when the type no longer sleeps.
WorkerCheckPolicy ==
  /\ Runs("worker", "checkPolicy")
  /\ Continues("worker", IF SleepsWhenIdle THEN <<>> ELSE <<"cancelSleep">>)
  /\ UNCHANGED <<links, timers, snap, rest>>

WorkerTrySleep ==
  /\ Runs("worker", "trySleep")
  /\ Continues("worker", IF SleepsWhenIdle
                         THEN <<"cancelBle", "cancelSleep", "stopPairing",
                                "powerDown", "deepSleep">>
                         ELSE <<"cancelSleep">>)
  /\ UNCHANGED <<links, timers, snap, rest>>

\* ble_control_set_enabled(false): nothing when BLE is off, else advertising
\* stops first.
StopPairing ==
  /\ Runs("worker", "stopPairing")
  /\ Continues("worker", IF BleEnabled THEN <<"stopHost">> ELSE <<>>)
  /\ bleHost' = IF bleHost = "advertising" THEN "quiet" ELSE bleHost
  /\ UNCHANGED <<ble, usb, queued, timers, snap, rest>>

\* nimble_port_stop waits for the host task to finish the event it is in; a
\* link may end without a disconnect event.  When nimble_port_deinit fails
\* BLE stays enabled with its host gone.
StopHost ==
  /\ Runs("worker", "stopHost")
  /\ todo["ble"] = <<>>
  /\ \/ bleHost' = "off" /\ ble' = "down"
     \/ bleHost' = "dead" /\ ble' = ble
  /\ Completes("worker")
  /\ UNCHANGED <<usb, queued, timers, snap, rest>>

\* network_prepare_for_deep_sleep
PowerDown ==
  /\ Runs("worker", "powerDown")
  /\ halow' = "down"
  /\ Completes("worker")
  /\ UNCHANGED <<links, timers, snap, deviceType, power, idleFor, events>>

\* esp_deep_sleep_start: everything but the real-time clock stops, a session
\* that began after the pass's check included.
DeepSleep ==
  /\ Runs("worker", "deepSleep")
  /\ power' = "asleep"
  /\ bleHost' = "off" /\ ble' = "down" /\ usb' = "log" /\ queued' = 0
  /\ Completes("worker")
  /\ UNCHANGED <<timers, snap, deviceType, halow, idleFor, events>>

-----------------------------------------------------------------------------
\* A minute passes; a snapshot's deadlines come closer until they are judged.
Tick ==
  /\ power = "on"
  /\ bleTimer' = Left(bleTimer)
  /\ sleepTimer' = Left(sleepTimer)
  /\ snap' = [snap EXCEPT !.ble = Left(@), !.sleep = Left(@)]
  /\ idleFor' = IF idleFor < LongWindow THEN idleFor + 1 ELSE idleFor
  /\ UNCHANGED <<links, unload, todo, deviceType, halow, power, events>>

SharedStep(t) ==
  \/ CancelBle(t) \/ CancelSleep(t) \/ ClearUnload(t)
  \/ IfAlone(t) \/ ApplyType(t)
  \/ ScheduleBle(t) \/ ScheduleSleep(t)
  \/ ArmBle(t) \/ ArmSleep(t) \/ AskUnload(t) \/ StartHalow(t)

WorkerStep ==
  \/ WorkerWake \/ WorkerCheck \/ WorkerUnload \/ WorkerCheckPolicy
  \/ WorkerTrySleep \/ StopPairing \/ StopHost \/ PowerDown \/ DeepSleep

PhoneStep ==
  \/ BleLink \/ BlePair \/ BleDrop
  \/ UsbEnter \/ UsbExit \/ UsbQueue
  \/ \E t \in Phones : InitHalow(t)
  \/ \E t \in Phones, type \in {"user", "autonomous"} : SetDeviceType(t, type)

Next ==
  \/ PhoneStep
  \/ \E t \in Tasks : SharedStep(t)
  \/ WorkerStep
  \/ Tick

Spec == Init /\ [][Next]_vars

\* Every task is scheduled again and again and the worker's wait has a
\* timeout of a second; the phones promise nothing.
Fairness ==
  /\ \A t \in Tasks : WF_vars(SharedStep(t))
  /\ WF_vars(WorkerStep)
  /\ WF_vars(Tick)

FairSpec == Spec /\ Fairness

-----------------------------------------------------------------------------
(* Properties *)

TypeOK ==
  /\ deviceType \in {"user", "autonomous"}
  /\ bleHost \in {"advertising", "quiet", "dead", "off"}
  /\ ble \in {"down", "linked", "secured"}
  /\ usb \in {"log", "control"}
  /\ queued \in 0..MaxEvents
  /\ halow \in {"up", "down"}
  /\ bleTimer \in Off..BleWindow
  /\ sleepTimer \in Off..LongWindow
  /\ unload \in {"asked", "no"}
  /\ snap \in [ble : Off..BleWindow, sleep : Off..LongWindow,
               unload : {"asked", "no"}]
  /\ todo \in [Tasks -> Seq(Steps)]
  /\ power \in {"on", "asleep"}
  /\ idleFor \in 0..LongWindow
  /\ events \in 0..MaxEvents

Settled == power = "on" /\ \A t \in Tasks : todo[t] = <<>>

\* No sleep before its window: between handlers, with no phone connected, a
\* pending sleep timer leaves at least the short window counted from the
\* moment the last phone ended its session, whatever order the disconnect of
\* one interface and the connect and disconnect of the other armed, cancelled
\* and armed it again in.
NoEarlySleep ==
  Settled /\ ~Connected /\ sleepTimer # Off
    => sleepTimer + idleFor >= ShortWindow

\* A disconnect handler that passed its check may arm the timers after the
\* connect handler of the other interface cancelled them.  If a phone then
\* stays connected, the worker's passes disarm everything for good.
ConnectedDisarms ==
  <>[]Connected => <>[](bleTimer = Off /\ sleepTimer = Off /\ unload = "no")

\* What the policy left pending when the last handler finished is carried out:
\* a user device on its own goes to sleep, unless a phone connects or the type
\* changes first.
IdleDeviceSleeps ==
  (Settled /\ SleepsWhenIdle /\ ~Connected /\ sleepTimer # Off)
    ~> (power = "asleep" \/ Connected \/ ~SleepsWhenIdle)

\* ... and an unload the last phone's disconnect asked for reaches the radio.
UnloadReachesRadio ==
  (Settled /\ SleepsWhenIdle /\ ~Connected /\ unload = "asked")
    ~> (halow = "down" \/ Connected \/ ~SleepsWhenIdle)

\* A user device that is left alone saves its power.
PowersDown == IdleDeviceSleeps /\ UnloadReachesRadio
=============================================================================
