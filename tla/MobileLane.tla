----------------------------- MODULE MobileLane -----------------------------
(***************************************************************************)
(* The way from the radio to the phone: one queue for control, realtime    *)
(* and log frames, the task that delivers them over BLE or USB, the USB    *)
(* writer behind it, and the log stream, which feeds the very queue whose  *)
(* delivery raises log lines (mesh/halow_sync_bridge.c and                 *)
(* platform/esp32/usb_control_transport.c).                                *)
(*                                                                         *)
(* A frame is its kind.  Delivering a frame may raise a log line: a failed *)
(* notification, a failed UART write, a diagnostic of the BLE host.  The   *)
(* three USB lanes behind the task are one queue here; FrameQueue models   *)
(* them in detail.                                                         *)
(***************************************************************************)
EXTENDS Naturals, Sequences

CONSTANTS
    Depth,      \* frames in the mobile queue
    WireDepth   \* frames in the USB queue

VARIABLES
    lane,       \* s_mobile_rx_queue
    wire,       \* s_halow_to_mobile_*_queue
    stream,     \* s_mobile_log_stream_enabled
    link,       \* the connected interfaces
    task,       \* mobile_rx_task: the frame in its hands and its step
    radio,      \* the radio task: "free", or waiting with a realtime frame
    quiet       \* nothing new is sent to the phone any more

vars == <<lane, wire, stream, link, task, radio, quiet>>

Kinds == {"control", "realtime", "log"}
Links == {"ble", "usb"}
Room  == Len(lane) < Depth
Idle  == [kind |-> "none", at |-> "idle"]
Goes(s) == task' = [task EXCEPT !.at = s]

TypeOK ==
    /\ lane \in Seq(Kinds) /\ Len(lane) <= Depth
    /\ wire \in Seq(Kinds) /\ Len(wire) <= WireDepth
    /\ stream \in BOOLEAN
    /\ link \subseteq Links
    /\ task \in [kind : Kinds \cup {"none"}, at : {"idle", "sends", "pushes", "ends"}]
    /\ radio \in {"free", "waits"}
    /\ quiet \in BOOLEAN

----------------------------------------------------------------------------
(* Log lines.                                                              *)

\* s_mobile_log_delivery_active
Active == task.kind = "log"

\* MUTANT: the diagnostics of a log delivery are captured as well.
Captured_Always == stream /\ link # {}

\* usb_log_vprintf: a line becomes a log frame
Captured == ~Active /\ stream /\ link # {}

\* the lane after a line was raised with `rest` in it; it never waits
WithLine(rest) ==
    IF Captured /\ Len(rest) < Depth THEN Append(rest, "log") ELSE rest

Raises == lane' \in {lane, WithLine(lane)}

OtherLogs ==
    /\ ~quiet
    /\ lane' = WithLine(lane)
    /\ UNCHANGED <<wire, stream, link, task, radio, quiet>>

----------------------------------------------------------------------------
(* Producers.                                                              *)

\* bridge_send_voice_frame waits for room without a timeout
RadioSends ==
    /\ ~quiet /\ radio = "free"
    /\ IF Room
       THEN lane' = Append(lane, "realtime") /\ UNCHANGED radio
       ELSE radio' = "waits" /\ UNCHANGED lane
    /\ UNCHANGED <<wire, stream, link, task, quiet>>

RadioResumes ==
    /\ radio = "waits" /\ Room
    /\ lane' = Append(lane, "realtime")
    /\ radio' = "free"
    /\ UNCHANGED <<wire, stream, link, task, quiet>>

\* send_network_packet: it gives up when there is no room for 20 ms
ControlSends ==
    /\ ~quiet
    /\ Room
    /\ lane' = Append(lane, "control")
    /\ UNCHANGED <<wire, stream, link, task, radio, quiet>>

----------------------------------------------------------------------------
(* mobile_rx_task and the USB writer.                                      *)

Take ==
    /\ task = Idle /\ lane # <<>>
    /\ task' = [kind |-> Head(lane), at |-> "sends"]
    /\ lane' = Tail(lane)
    /\ UNCHANGED <<wire, stream, link, radio, quiet>>

\* BLE is preferred: the notification succeeds or fails at once
Notify ==
    /\ task.at = "sends"
    /\ "ble" \in link
    /\ Goes("ends")
    /\ Raises
    /\ UNCHANGED <<wire, stream, link, radio, quiet>>

\* without BLE the frame goes to the USB queue if a session is open
GoesToUsb ==
    /\ task.at = "sends"
    /\ "ble" \notin link
    /\ Goes(IF "usb" \in link THEN "pushes" ELSE "ends")
    /\ UNCHANGED <<lane, wire, stream, link, radio, quiet>>

\* a log frame does not wait for a free slot
Push ==
    /\ task.at = "pushes"
    /\ \/ Len(wire) < WireDepth /\ wire' = Append(wire, task.kind)
       \/ Len(wire) = WireDepth /\ task.kind = "log" /\ UNCHANGED wire
    /\ Goes("ends")
    /\ UNCHANGED <<lane, stream, link, radio, quiet>>

Delivered ==
    /\ task.at = "ends"
    /\ task' = Idle
    /\ UNCHANGED <<lane, wire, stream, link, radio, quiet>>

\* usb_halow_to_mobile_task: only a failed write of another kind is logged
Complains(kind) == kind # "log"

Write ==
    /\ wire # <<>>
    /\ wire' = Tail(wire)
    /\ IF "usb" \in link /\ Complains(Head(wire)) THEN Raises ELSE UNCHANGED lane
    /\ UNCHANGED <<stream, link, task, radio, quiet>>

----------------------------------------------------------------------------
(* Sessions and the log command.                                           *)

BleConnects ==
    /\ "ble" \notin link
    /\ link' = link \cup {"ble"} /\ stream' = FALSE
    /\ UNCHANGED <<lane, wire, task, radio, quiet>>

BleLeaves ==
    /\ "ble" \in link
    /\ link' = link \ {"ble"} /\ stream' = FALSE
    /\ UNCHANGED <<lane, wire, task, radio, quiet>>

\* a USB session leaves the stream of a BLE phone alone
UsbChanges ==
    /\ link' = IF "usb" \in link THEN link \ {"usb"} ELSE link \cup {"usb"}
    /\ stream' = (stream /\ "ble" \in link)
    /\ UNCHANGED <<lane, wire, task, radio, quiet>>

\* The answer travels as a log frame, and NONE closes the stream behind it; a
\* level that is not known is answered and changes nothing.
Answers == ~quiet /\ lane' = IF Room THEN Append(lane, "log") ELSE lane

\* usb_set_log_level
SetLogLevel(on) ==
    /\ "usb" \in link
    /\ Answers
    /\ stream' \in {on, stream}
    /\ UNCHANGED <<wire, link, task, radio, quiet>>

\* ble_control_handle_log_command
LogCommand(on) ==
    /\ "ble" \in link
    /\ Answers
    /\ stream' \in {on, stream}
    /\ UNCHANGED <<wire, link, task, radio, quiet>>

Silence ==
    /\ ~quiet /\ quiet' = TRUE
    /\ UNCHANGED <<lane, wire, stream, link, task, radio>>

----------------------------------------------------------------------------
Init ==
    /\ lane = <<>> /\ wire = <<>>
    /\ stream = FALSE /\ link = {}
    /\ task = Idle /\ radio = "free"
    /\ quiet = FALSE

Deliver == Take \/ Notify \/ GoesToUsb \/ Push \/ Delivered

Sessions ==
    \/ BleConnects \/ BleLeaves \/ UsbChanges
    \/ \E on \in BOOLEAN : SetLogLevel(on) \/ LogCommand(on)

Next ==
    \/ OtherLogs \/ RadioSends \/ RadioResumes \/ ControlSends
    \/ Deliver \/ Write \/ Sessions \/ Silence

\* the tasks of the device run; phones and log lines need not come
Fairness == WF_vars(Deliver) /\ WF_vars(Write) /\ WF_vars(RadioResumes)

Spec == Init /\ [][Next]_vars /\ Fairness

----------------------------------------------------------------------------
(* When nothing new is sent, the lane becomes empty and the radio task gets *)
(* rid of its frame: no delivery keeps itself busy with the log lines it    *)
(* raises, and neither the delivering task nor the writer waits for the     *)
(* queue it has to empty (usb_log_vprintf, mobile_rx_task).                 *)
LaneCalms == quiet ~> (lane = <<>> /\ wire = <<>> /\ task = Idle /\ radio = "free")
=============================================================================
