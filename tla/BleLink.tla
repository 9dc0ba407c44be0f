------------------------------ MODULE BleLink -------------------------------
(***************************************************************************)
(* The BLE peripheral: host start and stop, pairing mode, advertising and  *)
(* the one link to a phone (platform/esp32/ble_control.c).  The            *)
(* application task enables BLE and pairing while the host task            *)
(* synchronises with the controller and delivers GAP events; the power     *)
(* task switches BLE off.  The host may reset at any time.                 *)
(*                                                                         *)
(* A control frame arrives in two writes; the receive buffer of the        *)
(* endpoint holds the first until the second completes it.  Once a link is  *)
(* encrypted the device asks for a longer data length, and then for the 2M  *)
(* PHY, once for each link.                                                *)
(***************************************************************************)
EXTENDS Naturals

CONSTANT MaxLinks   \* bound: links in a behaviour

VARIABLES
    enabled,    \* s_ble_enabled
    pairing,    \* s_ble_pairing_enabled
    synced,     \* s_ble_host_synced
    host,       \* nimble_port: "down" or "up"
    adv,        \* the controller advertises
    link,       \* s_ble_conn_handle, or 0
    secured,    \* s_ble_secured
    app,        \* step of the task that enables pairing
    event,      \* step of the host task
    off,        \* step of the task that disables BLE
    rx,         \* the link whose half frame the buffer holds, or 0
    length,     \* s_ble_data_len_requested
    phy,        \* s_ble_phy_requested: the link it was requested of, or 0
    links,      \* history: number of links
    mixed       \* history: a frame was put together from two links

flags == <<enabled, pairing, synced, secured>>
radio == <<host, adv, link>>
tasks == <<app, event, off>>
input == <<rx, mixed>>
fast  == <<length, phy>>
vars  == <<flags, radio, tasks, input, fast, links>>

TypeOK ==
    /\ enabled \in BOOLEAN /\ pairing \in BOOLEAN
    /\ synced \in BOOLEAN /\ secured \in BOOLEAN
    /\ host \in {"down", "up"} /\ adv \in BOOLEAN
    /\ link \in 0 .. MaxLinks /\ links \in 0 .. MaxLinks
    /\ app \in {"idle", "init", "pairing", "look", "advertise", "done"}
    /\ event \in {"idle", "synced", "advertise"}
    /\ off \in {"idle", "stopping", "stopped"}
    /\ rx \in 0 .. MaxLinks /\ mixed \in BOOLEAN
    /\ length \in BOOLEAN /\ phy \in 0 .. MaxLinks

----------------------------------------------------------------------------
(* ble_control_start_advertising                                           *)
MayAdvertise == enabled /\ synced /\ pairing

StartsAdvertising == adv' = (adv \/ (MayAdvertise /\ host = "up" /\ link = 0))

(* ble_control_set_pairing_enabled(true), which enables BLE first.         *)
Enable ==
    /\ app = "idle" /\ off = "idle"
    /\ app' = "init"
    /\ IF enabled THEN UNCHANGED host ELSE host' = "up"
    /\ UNCHANGED <<flags, adv, link, event, off, input, links, fast>>

\* the host task runs before the flag is set
Enabled ==
    /\ app = "init"
    /\ enabled' = TRUE
    /\ app' = "pairing"
    /\ UNCHANGED <<pairing, synced, secured, radio, event, off, input, links, fast>>

AllowPairing ==
    /\ app = "pairing"
    /\ pairing' = TRUE
    /\ app' = "look"
    /\ UNCHANGED <<enabled, synced, secured, radio, event, off, input, links, fast>>

Look ==
    /\ app = "look"
    /\ app' = IF synced THEN "advertise" ELSE "done"
    /\ UNCHANGED <<flags, radio, event, off, input, links, fast>>

Advertise ==
    /\ app = "advertise"
    /\ StartsAdvertising
    /\ app' = "done"
    /\ UNCHANGED <<flags, host, link, event, off, input, links, fast>>

----------------------------------------------------------------------------
(* The host task.                                                          *)
HostRuns == host = "up" /\ event = "idle" /\ off # "stopped"

\* ble_control_on_sync: the flag first, then pairing is read
Sync ==
    /\ HostRuns /\ ~synced
    /\ synced' = TRUE
    /\ event' = "synced"
    /\ UNCHANGED <<enabled, pairing, secured, radio, app, off, input, links, fast>>

Synced ==
    /\ event = "synced"
    /\ event' = IF pairing THEN "advertise" ELSE "idle"
    /\ UNCHANGED <<flags, radio, app, off, input, links, fast>>

HostAdvertises ==
    /\ event = "advertise"
    /\ StartsAdvertising
    /\ event' = "idle"
    /\ UNCHANGED <<flags, host, link, app, off, input, links, fast>>

\* Mutant: only a disconnect forgets what was asked of a link.
Connect_KeepsFast ==
    /\ HostRuns /\ synced /\ adv /\ links < MaxLinks
    /\ adv' = FALSE
    /\ links' = links + 1 /\ link' = links'
    /\ secured' = FALSE
    /\ rx' = 0
    /\ UNCHANGED <<enabled, pairing, synced, host, tasks, mixed, fast>>

\* BLE_GAP_EVENT_CONNECT ends advertising
Connect ==
    /\ HostRuns /\ synced /\ adv /\ links < MaxLinks
    /\ adv' = FALSE
    /\ links' = links + 1 /\ link' = links'
    /\ secured' = FALSE
    /\ rx' = 0 /\ length' = FALSE /\ phy' = 0
    /\ UNCHANGED <<enabled, pairing, synced, host, tasks, mixed>>

\* BLE_GAP_EVENT_ADV_COMPLETE, and a connection that was not established
AdvEnds ==
    /\ HostRuns /\ synced /\ adv
    /\ adv' = FALSE
    /\ event' = IF enabled /\ pairing THEN "advertise" ELSE "idle"
    /\ UNCHANGED <<flags, host, link, app, off, input, links, fast>>

\* BLE_GAP_EVENT_ENC_CHANGE; a failure terminates the link, which Disconnect
\* then reports
Secure ==
    /\ HostRuns /\ link # 0 /\ ~secured
    /\ secured' = TRUE
    /\ UNCHANGED <<enabled, pairing, synced, radio, tasks, input, links, fast>>

\* MUTANT: advertising is left to the application.
Disconnect_Silent ==
    /\ HostRuns /\ link # 0
    /\ link' = 0 /\ secured' = FALSE
    /\ rx' = 0
    /\ UNCHANGED <<enabled, pairing, synced, host, adv, tasks, mixed, links, fast>>

\* BLE_GAP_EVENT_DISCONNECT
Disconnect ==
    /\ HostRuns /\ link # 0
    /\ link' = 0 /\ secured' = FALSE
    /\ rx' = 0 /\ length' = FALSE /\ phy' = 0
    /\ event' = IF enabled /\ pairing THEN "advertise" ELSE "idle"
    /\ UNCHANGED <<enabled, pairing, synced, host, adv, app, off, mixed, links>>

Unsecure ==
    /\ HostRuns /\ link # 0 /\ secured
    /\ secured' = FALSE
    /\ UNCHANGED <<enabled, pairing, synced, radio, tasks, input, links, fast>>

\* ble_control_request_2m_phy; a request the host rejects is repeated at the
\* next occasion
AsksForPhy == phy' \in IF phy = 0 THEN {0, link} ELSE {phy}

\* ble_control_request_data_length: once for a link, and if the link has it
\* already the PHY at once
AsksForLength ==
    /\ ~length /\ length' = TRUE
    /\ AsksForPhy \/ UNCHANGED phy

\* BLE_GAP_EVENT_CONN_UPDATE
ConnUpdate ==
    /\ HostRuns /\ link # 0 /\ secured
    /\ AsksForLength
    /\ UNCHANGED <<flags, radio, tasks, input, links>>

\* BLE_GAP_EVENT_DATA_LEN_CHG
LengthChanged ==
    /\ HostRuns /\ link # 0 /\ secured
    /\ AsksForPhy
    /\ UNCHANGED <<flags, radio, tasks, input, length, links>>

\* the controller is gone: its link is reported first, then ble_control_on_reset
Reset ==
    /\ HostRuns /\ synced /\ link = 0
    /\ synced' = FALSE /\ adv' = FALSE
    /\ UNCHANGED <<enabled, pairing, secured, host, link, tasks, input, links, fast>>

\* ble_control_gatt_access on the control characteristic
Write ==
    /\ HostRuns /\ link # 0 /\ secured
    /\ IF rx = 0 THEN rx' = link /\ UNCHANGED mixed
       ELSE rx' = 0 /\ mixed' = (mixed \/ rx # link)
    /\ UNCHANGED <<flags, radio, tasks, links, fast>>

----------------------------------------------------------------------------
(* ble_control_set_enabled(false)                                          *)
StopPairing ==
    /\ off = "idle" /\ enabled /\ app = "done"
    /\ adv' = FALSE /\ pairing' = FALSE
    /\ off' = "stopping"
    /\ UNCHANGED <<enabled, synced, secured, host, link, app, event, input, links, fast>>

\* nimble_port_stop: the host task leaves its loop
StopHost ==
    /\ off = "stopping" /\ event = "idle"
    /\ off' = "stopped"
    /\ adv' = FALSE
    /\ UNCHANGED <<flags, host, link, app, event, input, links, fast>>

Deinit ==
    /\ off = "stopped"
    /\ host' = "down"
    /\ link' = 0 /\ rx' = 0
    /\ synced' = FALSE /\ enabled' = FALSE
    /\ off' = "idle" /\ app' = "idle"
    /\ UNCHANGED <<pairing, secured, adv, event, mixed, links, fast>>

----------------------------------------------------------------------------
Init ==
    /\ enabled = FALSE /\ pairing = FALSE /\ synced = FALSE /\ secured = FALSE
    /\ host = "down" /\ adv = FALSE /\ link = 0
    /\ app = "idle" /\ event = "idle" /\ off = "idle"
    /\ rx = 0 /\ links = 0 /\ mixed = FALSE
    /\ length = FALSE /\ phy = 0

App  == Enable \/ Enabled \/ AllowPairing \/ Look \/ Advertise
Host == Sync \/ Synced \/ HostAdvertises
Gap  == Connect \/ AdvEnds \/ Secure \/ Unsecure \/ ConnUpdate \/ LengthChanged
          \/ Disconnect \/ Reset \/ Write
Off  == StopPairing \/ StopHost \/ Deinit

Next == App \/ Host \/ Gap \/ Off

\* the tasks run, and the host synchronises with its controller again
Fairness == WF_vars(App) /\ WF_vars(Host)

Spec == Init /\ [][Next]_vars /\ Fairness

----------------------------------------------------------------------------
(* With pairing allowed and no phone connected the device comes to be      *)
(* advertised, in whatever order the application enables pairing and the   *)
(* host synchronises, and however links end and the host resets            *)
(* (ble_control_set_pairing_enabled, ble_control_on_sync,                  *)
(* ble_control_gap_event).                                                 *)
Waiting == enabled /\ pairing /\ link = 0 /\ off = "idle"
Discoverable == Waiting ~> (adv \/ ~Waiting)

(* What a link is given is its own: a control frame never consists of      *)
(* writes of two links, and a link that was not asked for the 2M PHY is    *)
(* not taken for one that was, however the link before it ended            *)
(* (ble_control_gap_event, ble_control_set_enabled).                       *)
LinkIsFresh == ~mixed /\ (link # 0 => phy \in {0, link})
=============================================================================
