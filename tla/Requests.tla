------------------------------ MODULE Requests ------------------------------
(***************************************************************************)
(* The dialogue with the phones: a host asks over BLE or USB, the bridge   *)
(* answers through the mobile lane, the status task reports unasked, and   *)
(* the lane's task delivers every frame to the phone it finds connected    *)
(* (mesh/halow_sync_bridge.c, protocol/, platform/esp32/ble_control.c and  *)
(* usb_control_transport.c).                                               *)
(*                                                                         *)
(* BLE requests and BLE events are handled by one task, the NimBLE host;   *)
(* USB requests by the dispatcher, while another task opens and closes the *)
(* USB session.  What a request does to the device is the subject of the   *)
(* other modules; here it is the answer it gets.                           *)
(***************************************************************************)
EXTENDS Naturals, Sequences, FiniteSets, SequencesExt

CONSTANTS
    Asked,      \* the requests hosts make
    LaneSize,   \* bound: frames in the mobile lane
    MaxAsks,    \* bound: requests in a behaviour
    MaxJoins,   \* bound: connections in a behaviour
    MaxReports  \* bound: reports of the status task

VARIABLES
    links,      \* ble_control_is_connected, usb_control_transport_is_connected
    active,     \* s_active_interface
    reports,    \* s_ble_profile_reports_remaining
    host,       \* per phone, the step of the task that handles its requests
    cable,      \* the task that opens and closes the USB session
    monitor,    \* status_report_task
    courier,    \* mobile_rx_task: the frame in its hands and its addressee
    lane,       \* s_mobile_rx_queue
    told,       \* history: answers delivered, and to whom
    lost,       \* history: answers dropped
    asked,      \* history: every request, with its host
    apart,      \* history: requests beside which another phone came or left
    profiled,   \* history: the mode was reported in this BLE session
    early,      \* history: a status report preceded it
    crossed,    \* history: a link changed while USB was marking itself active
    joins, wakes

phones  == <<links, active, reports>>
tasks   == <<host, cable, monitor, courier>>
ghosts  == <<told, lost, asked, apart, profiled, early, crossed>>
bounds  == <<joins, wakes>>
vars    == <<phones, tasks, lane, ghosts, bounds>>

Hosts   == {"ble", "usb"}
Other(h) == CHOOSE o \in Hosts : o # h

\* MUTANT: a fix that is no place is refused without a word.
AnswerOf_Silent(request) ==
    CASE request \in {"status", "init", "beacon"} -> "status"
      [] request = "settings"                     -> "settings"
      [] request = "script"                       -> "script"
      [] request = "routes"                       -> "routes"
      [] OTHER                                    -> "nothing"

\* the switch of halow_sync_bridge_handle_to_radio; a beacon that cannot be
\* decoded and a place that is none are answered as well
AnswerOf(request) ==
    CASE request \in {"status", "init", "beacon", "no_beacon", "place", "no_place"}
                              -> "status"
      [] request = "settings" -> "settings"
      [] request = "script"   -> "script"
      [] request = "routes"   -> "routes"
      [] OTHER                -> "nothing"

\* edgez_lua_rpc_is_request: answered over the transport it came by
Direct(request) == request = "rpc"

Frame(kind, n) == [kind |-> kind, n |-> n]
NoFrame == Frame("nothing", 0)
Rest    == [at |-> "idle", n |-> 0]

Loses(frame) == lost' = IF frame.n = 0 THEN lost ELSE lost \cup {frame}

\* bridge_queue_mobile_rx_frame, which waits 20 ms for room in a full lane
Queue(frame) ==
    IF Len(lane) < LaneSize
    THEN lane' = Append(lane, frame) /\ UNCHANGED lost
    ELSE UNCHANGED lane /\ Loses(frame)

\* a link changes: requests of other phones under way are no longer alone
Marking == host["usb"].at \in {"marks ble", "marks usb"}

Unsettles(h) ==
    apart' = apart \cup {n \in DOMAIN asked : asked[n].host # h}

----------------------------------------------------------------------------
(* BLE connects and leaves: BLE_GAP_EVENT_ENC_CHANGE, _DISCONNECT          *)
(* and halow_sync_bridge_note_ble_connected.                               *)
BleSecured ==
    /\ host["ble"] = Rest /\ "ble" \notin links /\ joins < MaxJoins
    /\ links' = links \cup {"ble"}
    /\ host' = [host EXCEPT !["ble"].at = "joins"]
    /\ joins' = joins + 1
    /\ Unsettles("ble")
    /\ crossed' = (crossed \/ Marking)
    /\ UNCHANGED <<active, reports, cable, monitor, courier, lane,
                   told, lost, asked, profiled, early, wakes>>

\* MUTANT: the reports of the mode are left to the first session.
BleJoined_Once ==
    /\ host["ble"].at = "joins"
    /\ active' = "ble"
    /\ reports' = IF joins = 1 THEN 3 ELSE reports
    /\ host' = [host EXCEPT !["ble"] = Rest]
    /\ profiled' = FALSE
    /\ UNCHANGED <<links, cable, monitor, courier, lane, told, lost, asked, apart,
                   early, crossed, bounds>>

BleJoined ==
    /\ host["ble"].at = "joins"
    /\ active' = "ble"
    /\ reports' = 3
    /\ host' = [host EXCEPT !["ble"] = Rest]
    /\ profiled' = FALSE
    /\ UNCHANGED <<links, cable, monitor, courier, lane, told, lost, asked, apart,
                   early, crossed, bounds>>

BleLost ==
    /\ host["ble"] = Rest /\ "ble" \in links
    /\ links' = links \ {"ble"}
    /\ host' = [host EXCEPT !["ble"].at = "leaves"]
    /\ apart' = apart \cup DOMAIN asked
    /\ crossed' = (crossed \/ Marking)
    /\ UNCHANGED <<active, reports, cable, monitor, courier, lane,
                   told, lost, asked, profiled, early, bounds>>

BleLeft ==
    /\ host["ble"].at = "leaves"
    /\ active' = IF active = "ble" THEN "none" ELSE active
    /\ reports' = 0
    /\ host' = [host EXCEPT !["ble"] = Rest]
    /\ UNCHANGED <<links, cable, monitor, courier, lane, ghosts, bounds>>

(* The USB session: usb_enter_control_mode_with_pong,                      *)
(* usb_control_transport_exit, halow_sync_bridge_note_usb_connected.       *)
UsbOpens ==
    /\ cable = "idle" /\ "usb" \notin links /\ joins < MaxJoins
    /\ links' = links \cup {"usb"}
    /\ cable' = "joins"
    /\ joins' = joins + 1
    /\ Unsettles("usb")
    /\ UNCHANGED <<active, reports, host, monitor, courier, lane,
                   told, lost, asked, profiled, early, crossed, wakes>>

\* reads the BLE link, then marks
UsbSees ==
    /\ cable = "joins"
    /\ cable' = IF "ble" \in links THEN "idle" ELSE "marks"
    /\ UNCHANGED <<phones, host, monitor, courier, lane, ghosts, bounds>>

UsbJoined ==
    /\ cable = "marks"
    /\ active' = "usb"
    /\ cable' = "idle"
    /\ UNCHANGED <<links, reports, host, monitor, courier, lane, ghosts, bounds>>

UsbCloses ==
    /\ cable = "idle" /\ "usb" \in links
    /\ links' = links \ {"usb"}
    /\ cable' = "leaves"
    /\ apart' = apart \cup DOMAIN asked
    /\ crossed' = (crossed \/ Marking)
    /\ UNCHANGED <<active, reports, host, monitor, courier, lane,
                   told, lost, asked, profiled, early, bounds>>

UsbLeft ==
    /\ cable = "leaves"
    /\ active' = IF active = "usb" THEN "none" ELSE active
    /\ cable' = "idle"
    /\ UNCHANGED <<links, reports, host, monitor, courier, lane, ghosts, bounds>>

----------------------------------------------------------------------------
(* Requests.                                                               *)
Asks(h, request, at) ==
    /\ host[h] = Rest /\ h \in links /\ Len(asked) < MaxAsks
    /\ asked' = Append(asked, [host |-> h, request |-> request])
    /\ host' = [host EXCEPT ![h] = [at |-> at, n |-> Len(asked')]]
    /\ apart' = apart \cup (IF links = {h} THEN {} ELSE {Len(asked')})
    /\ UNCHANGED <<links, reports, cable, monitor, courier, lane,
                   told, lost, profiled, early, crossed, bounds>>

\* ble_control_process_rx marks BLE; no BLE event can come in between
AskBle(request) == Asks("ble", request, "handles") /\ active' = "ble"

\* halow_sync_bridge_note_active_interface reads the BLE link ...
AskUsb(request) ==
    /\ Asks("usb", request, IF "ble" \in links THEN "marks ble" ELSE "marks usb")
    /\ UNCHANGED active

\* ... and marks the phone it found
MarkUsb ==
    /\ Marking
    /\ active' = IF host["usb"].at = "marks ble" THEN "ble" ELSE "usb"
    /\ host' = [host EXCEPT !["usb"].at = "handles"]
    /\ UNCHANGED <<links, reports, cable, monitor, courier, lane, ghosts, bounds>>

\* edgez_frame_protocol_handle_frame
Handle(h) ==
    LET n == host[h].n
        request == asked[n].request
        answer  == Frame(AnswerOf(request), n)
    IN  /\ host[h].at = "handles"
        /\ host' = [host EXCEPT ![h] = Rest]
        /\ IF Direct(request)
           THEN /\ told' = IF h \in links
                           THEN Append(told, [kind |-> "rpc", n |-> n, to |-> h]) ELSE told
                /\ lost' = IF h \in links THEN lost ELSE lost \cup {Frame("rpc", n)}
                /\ UNCHANGED lane
           ELSE IF answer.kind = "nothing" THEN UNCHANGED <<lane, told, lost>>
           ELSE Queue(answer) /\ UNCHANGED told
        /\ UNCHANGED <<phones, cable, monitor, courier, asked, apart,
                       profiled, early, crossed, bounds>>

----------------------------------------------------------------------------
(* status_report_task: send_periodic_status_frame.  The counter of mode    *)
(* reports is read, decremented and stored without a lock, in eight bits.  *)
Wake ==
    /\ monitor.at = "waits" /\ links # {} /\ wakes < MaxReports
    /\ wakes' = wakes + 1
    /\ monitor' = [at |-> "looks", old |-> 0,
                   session |-> IF host["ble"].at = "joins" THEN 0 ELSE joins]
    /\ UNCHANGED <<phones, host, cable, courier, lane, ghosts, joins>>

LookReports ==
    /\ monitor.at = "looks"
    /\ monitor' = [monitor EXCEPT !.at = IF reports > 0 THEN "loads" ELSE "status"]
    /\ UNCHANGED <<phones, host, cable, courier, lane, ghosts, bounds>>

LoadReports ==
    /\ monitor.at = "loads"
    /\ monitor' = [monitor EXCEPT !.at = "stores", !.old = reports]
    /\ UNCHANGED <<phones, host, cable, courier, lane, ghosts, bounds>>

StoreReports ==
    /\ monitor.at = "stores"
    /\ reports' = (monitor.old + 255) % 256
    /\ monitor' = [monitor EXCEPT !.at = "profile", !.old = 0]
    /\ UNCHANGED <<links, active, host, cable, courier, lane, ghosts, bounds>>

\* send_device_settings_frame, unasked
ReportMode ==
    /\ monitor.at = "profile"
    /\ Queue(Frame("settings", 0))
    /\ profiled' = TRUE
    /\ monitor' = [monitor EXCEPT !.at = "status"]
    /\ UNCHANGED <<phones, host, cable, courier, told, asked, apart, early, crossed, bounds>>

\* a report of a session that was whole when the task woke
Current == monitor.session = joins /\ links = {"ble"}

ReportStatus ==
    /\ monitor.at = "status"
    /\ Queue(Frame("status", 0))
    /\ early' = (early \/ (Current /\ ~profiled))
    /\ monitor' = [monitor EXCEPT !.at = "waits"]
    /\ UNCHANGED <<phones, host, cable, courier, told, asked, apart, profiled, crossed, bounds>>

----------------------------------------------------------------------------
(* mobile_rx_task: bridge_send_frame.                                      *)
Take ==
    /\ courier.to = "none" /\ lane # <<>>
    /\ courier' = [frame |-> Head(lane),
                   to |-> IF "ble" \in links THEN "ble"
                          ELSE IF "usb" \in links THEN "usb" ELSE "nobody"]
    /\ lane' = Tail(lane)
    /\ UNCHANGED <<phones, host, cable, monitor, ghosts, bounds>>

\* the transports look again
Deliver ==
    /\ courier.to # "none"
    /\ LET f == courier.frame
       IN  IF courier.to \in links
           THEN /\ told' = IF f.n = 0 THEN told
                           ELSE Append(told, [kind |-> f.kind, n |-> f.n, to |-> courier.to])
                /\ UNCHANGED lost
           ELSE Loses(f) /\ UNCHANGED told
    /\ courier' = [frame |-> NoFrame, to |-> "none"]
    /\ UNCHANGED <<phones, host, cable, monitor, lane, asked, apart,
                   profiled, early, crossed, bounds>>

----------------------------------------------------------------------------
Init ==
    /\ links = {} /\ active = "none" /\ reports = 0
    /\ host = [h \in Hosts |-> Rest]
    /\ cable = "idle"
    /\ monitor = [at |-> "waits", old |-> 0, session |-> 0]
    /\ courier = [frame |-> NoFrame, to |-> "none"]
    /\ lane = <<>> /\ told = <<>> /\ lost = {} /\ asked = <<>> /\ apart = {}
    /\ profiled = FALSE /\ early = FALSE /\ crossed = FALSE
    /\ joins = 0 /\ wakes = 0

Links ==
    \/ BleSecured \/ BleJoined \/ BleLost \/ BleLeft
    \/ UsbOpens \/ UsbSees \/ UsbJoined \/ UsbCloses \/ UsbLeft
Dialogue ==
    \/ \E request \in Asked : AskBle(request) \/ AskUsb(request)
    \/ MarkUsb
    \/ \E h \in Hosts : Handle(h)
Reporting == Wake \/ LookReports \/ LoadReports \/ StoreReports \/ ReportMode \/ ReportStatus
Delivery  == Take \/ Deliver

Next == Links \/ Dialogue \/ Reporting \/ Delivery

Spec == Init /\ [][Next]_vars

TypeOK ==
    /\ links \subseteq Hosts /\ active \in Hosts \cup {"none"}
    /\ reports \in 0 .. 255
    /\ \A h \in Hosts : host[h].at \in
           {"idle", "joins", "leaves", "marks ble", "marks usb", "handles"}
    /\ Len(lane) <= LaneSize

----------------------------------------------------------------------------
(* Every request is answered once, by the answer of its kind, wherever the *)
(* handlers, the status task and the lane's task stand: the answer waits   *)
(* in the lane, is in the task's hands, was delivered or was dropped.      *)
InFlight ==
    ToSet(lane) \cup {[kind |-> r.kind, n |-> r.n] : r \in ToSet(told)} \cup lost
        \cup {courier.frame}
Due(n) == IF Direct(asked[n].request) THEN "rpc"
          ELSE IF \E h \in Hosts : host[h].n = n THEN "nothing"
          ELSE CASE asked[n].request \in {"settings", "script", "routes"} -> asked[n].request
                 [] asked[n].request \in {"text", "unknown"} -> "nothing"
                 [] OTHER -> "status"
Handled(n) == \A h \in Hosts : host[h].n # n
Matched ==
    \A n \in DOMAIN asked :
        {f \in InFlight : f.n = n} =
            IF Handled(n) /\ Due(n) # "nothing" THEN {Frame(Due(n), n)} ELSE {}

(* A phone that is the only one connected from its request to the delivery *)
(* of the answer is the one that gets it.                                  *)
Home == \A i \in DOMAIN told :
    told[i].n \notin apart => told[i].to = asked[told[i].n].host

(* The answers to one phone leave in the order of its requests.            *)
InOrder == \A i, j \in DOMAIN told :
    /\ i < j /\ told[i].kind # "rpc" /\ told[j].kind # "rpc"
    /\ asked[told[i].n].host = asked[told[j].n].host
    => told[i].n < told[j].n

(* With BLE alone, no periodic status precedes the report of the mode in a *)
(* session (the comment of send_periodic_status_frame).                    *)
ModeFirst == ~early

(* The interface marked as active is connected, or about to be noted gone, *)
(* unless a link changed between the two halves of a mark.                 *)
ActiveIsThere ==
    \/ crossed
    \/ active \in links \cup {"none"}
    \/ active = "ble" /\ host["ble"].at = "leaves"
    \/ active = "usb" /\ cable = "leaves"

DialogueKept == Matched /\ Home /\ InOrder /\ ModeFirst /\ ActiveIsThere
=============================================================================
