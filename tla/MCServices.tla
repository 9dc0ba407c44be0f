----------------------------- MODULE MCServices -----------------------------
(***************************************************************************)
(* The services around the mesh for TLC: the life of the radio, the        *)
(* interfaces of the scripts, the status LED, the BLE link and the         *)
(* upstream Wi-Fi.  The modules share no variable; a behaviour runs the    *)
(* one of its turn.                                                        *)
(***************************************************************************)
EXTENDS RadioLifecycle

CONSTANTS MaxGeneration, MaxLinks, MaxEvents, MaxSettings

VARIABLES
  turn,
  inRun, open, uart, rs485, rail, busy, call, touched, clash,
  logic, suspended, owned, asked, asleep, rmt, generation, ioLock, pixel,
  drawer, drawn, switcher, borrower, sleeper,
  enabled, pairing, synced, secured, host, adv, link, app, event, off, rx,
  length, phy, links, mixed,
  inflight, station, driver, events, handler, joiner, settings, ap

Wires   == INSTANCE ScriptInterfaces WITH run <- inRun
Led     == INSTANCE StatusLed
             WITH mutex <- ioLock, setter <- switcher, sampler <- borrower
Ble     == INSTANCE BleLink
Wifi    == INSTANCE UpstreamWifi
             WITH started <- station, setter <- joiner

wireVars    == <<inRun, open, uart, rs485, rail, busy, call, touched, clash>>
ledVars     == <<logic, suspended, owned, asked, asleep, rmt, generation, ioLock,
                 pixel, drawer, drawn, switcher, borrower, sleeper>>
bleVars     == <<enabled, pairing, synced, secured, host, adv, link, app, event,
                 off, rx, length, phy, links, mixed>>
wifiVars    == <<inflight, station, driver, events, handler, joiner, settings, ap>>

\* The modules that are not in turn start in one of their states.
MCInit ==
  /\ turn \in {"radio", "wires", "led", "ble", "wifi"}
  /\ Init /\ Wires!Init /\ Led!Init /\ Ble!Init /\ Wifi!Init
  /\ turn # "radio" => country = None /\ job[Boot] = Idle
  /\ turn # "wifi" => ap

Turn(t) == turn = t /\ UNCHANGED turn

RadioTurn ==
  Turn("radio") /\ Next
  /\ UNCHANGED <<wireVars, ledVars, bleVars, wifiVars>>
WiresTurn ==
  Turn("wires") /\ Wires!Next
  /\ UNCHANGED <<vars, ledVars, bleVars, wifiVars>>
LedTurn ==
  Turn("led") /\ Led!Next
  /\ UNCHANGED <<vars, wireVars, bleVars, wifiVars>>
BleTurn ==
  Turn("ble") /\ Ble!Next
  /\ UNCHANGED <<vars, wireVars, ledVars, wifiVars>>
WifiTurn ==
  Turn("wifi") /\ Wifi!Next
  /\ UNCHANGED <<vars, wireVars, ledVars, bleVars>>

MCNext ==
  RadioTurn \/ WiresTurn \/ LedTurn \/ BleTurn \/ WifiTurn

MCSpec ==
  MCInit
  /\ [][MCNext]_<<turn, vars, wireVars, ledVars, bleVars, wifiVars>>

-----------------------------------------------------------------------------
(* What the modules state, each under the fairness of its own module. *)

RunReleasesAll == Wires!RunReleasesAll
PinIsQuiet     == Led!PinIsQuiet
LinkIsFresh    == Ble!LinkIsFresh

FairRequestsEnd == turn = "radio" /\ Fairness => RequestsEnd

\* The LED goes dark for a sleep, a device whose pairing is on is discoverable
\* or connected, and the station connects again after a loss.
ServicesSettle ==
  /\ turn = "led" /\ Led!Fairness => Led!SleepsDark
  /\ turn = "ble" /\ Ble!Fairness => Ble!Discoverable
  /\ turn = "wifi" /\ Wifi!Fairness => Wifi!Reconnects
=============================================================================
