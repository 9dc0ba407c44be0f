-------------------------- MODULE ScriptInterfaces --------------------------
(***************************************************************************)
(* The sensor interfaces (the Lua functions of sampling.c,                 *)
(* edgez_lua_rpc.c, script_interface_runtime.c, local_interface.c,         *)
(* interface_bridge.c).                                                    *)
(*                                                                         *)
(* Two users call connect, close, read and write in any order they like:   *)
(* the script of a sampling run, and a phone by Lua RPC, whose calls run in *)
(* the task that received them.  Nothing locks one against the other.  The *)
(* drivers may refuse at every step, and opening or closing a UART waits in *)
(* the middle.  When the run ends, in whichever way, the three interfaces   *)
(* are closed, whoever opened them.  Two layers remember what is open: the  *)
(* script runtime (open) and the bridge below it (uart, rs485).  The UART   *)
(* shares a pin with the status LED and a supply with the I2C sensors.      *)
(***************************************************************************)
EXTENDS Naturals, FiniteSets

VARIABLES
  run,       \* the sampling run: "no", "yes", "ending"
  open,      \* s_open of script_interface_runtime.c
  uart,      \* the UART slot of the bridge: driver installed, ready
  rs485,     \* the RS485 slot
  rail,      \* GPIO14, the supply of the UART and I2C sensors, is on
  busy,      \* s_gpio_busy_count of the status LED
  call,      \* what each user is in the middle of
  touched,   \* history: the interfaces the phone used since the last run ended
  clash      \* history: calls of two users met in one interface

vars == <<run, open, uart, rs485, rail, busy, call, touched, clash>>

Users == {"script", "phone"}
Kinds == {"i2c", "rs485", "uart"}
Slots == [installed : BOOLEAN, ready : BOOLEAN]

\* The places where a call waits: the UART driver is installed, the UART has
\* settled, the UART drains, the RS485 driver is installed, RS485 has settled.
\* then is what the call does to open when it succeeds.
Idle  == [at |-> "idle", then |-> FALSE]
Waits == {"installing", "settling", "draining", "reinstalling", "resettling"}
Kind(c) == IF c.at \in {"reinstalling", "resettling"} THEN "rs485" ELSE "uart"
\* What open[k] becomes when call c succeeds: a read or write leaves it.
Then(c, k) == open' = [open EXCEPT ![k] = @ \/ c.then]

\* The busy count is explored up to here; only clashes raise it above 1.
MaxBusy == 2

TypeOK ==
  /\ run \in {"no", "yes", "ending"}
  /\ open \in [Kinds -> BOOLEAN]
  /\ {uart, rs485} \subseteq Slots
  /\ {rail, clash} \subseteq BOOLEAN
  /\ busy \in 0 .. MaxBusy
  /\ call \in [Users -> [at : Waits \cup {"idle"}, then : BOOLEAN]]
  /\ touched \subseteq Kinds

Init ==
  /\ run = "no"
  /\ open = [k \in Kinds |-> FALSE]
  /\ uart = [installed |-> FALSE, ready |-> FALSE]
  /\ rs485 = [installed |-> FALSE, ready |-> FALSE]
  /\ rail = FALSE
  /\ busy = 0
  /\ call = [u \in Users |-> Idle]
  /\ touched = {}
  /\ clash = FALSE

\* The script calls while its run lasts, the phone whenever it likes.
MayCall(u) == call[u] = Idle /\ (u = "script" => run = "yes")

\* Book-keeping of a step of u in interface k.
Notes(u, k) ==
  /\ touched' = IF u = "phone" THEN touched \cup {k} ELSE touched
  /\ clash' = (clash \/ \E v \in Users \ {u} : call[v] # Idle /\ Kind(call[v]) = k)

\* The run closes ks; what the phone is in the middle of it goes on using.
Clears(ks) ==
  LET met == \E k \in ks : call["phone"] # Idle /\ Kind(call["phone"]) = k
  IN /\ touched' = {k \in touched : k \in ks => met /\ Kind(call["phone"]) = k}
     /\ clash' = (clash \/ met)

RunIsOver == run' = "no" /\ Clears({"uart"})

Waiting(u, at, then) == call' = [call EXCEPT ![u] = [at |-> at, then |-> then]]
Returns(u)           == call' = [call EXCEPT ![u] = Idle]

-----------------------------------------------------------------------------
(* I2C: the runtime drives the controller itself and keeps the driver. *)

\* sensor_power_on: both rails are switched on, or one of the steps fails.
PoweredOn(ok) == rail' \in IF ok THEN {TRUE} ELSE {rail, TRUE}

\* connect_i2c
ConnectI2c(u) ==
  /\ MayCall(u)
  /\ \E powered \in BOOLEAN, ok \in BOOLEAN :
       /\ ok => powered
       /\ PoweredOn(powered)
       /\ open' = [open EXCEPT !["i2c"] = @ \/ ok]
  /\ Notes(u, "i2c")
  /\ UNCHANGED <<run, uart, rs485, busy, call>>

\* script_interface_close leaves the driver where it is.
CloseI2c(u) ==
  /\ MayCall(u) /\ open["i2c"]
  /\ open' = [open EXCEPT !["i2c"] = FALSE]
  /\ Notes(u, "i2c")
  /\ UNCHANGED <<run, uart, rs485, rail, busy, call>>

-----------------------------------------------------------------------------
(* RS485 *)

\* bridge_rs485_open(true) removes the driver first; ready is left alone.
Rs485Opens(u, then) ==
  /\ rs485' = [rs485 EXCEPT !.installed = FALSE]
  /\ Waiting(u, "reinstalling", then)
  /\ Notes(u, "rs485")
  /\ UNCHANGED <<run, open, uart, busy>>

\* connect_rs485
ConnectRs485(u) ==
  /\ MayCall(u)
  /\ \/ PoweredOn(TRUE) /\ Rs485Opens(u, TRUE)
     \/ /\ PoweredOn(FALSE)
        /\ UNCHANGED <<run, open, uart, rs485, busy, call, touched, clash>>

\* bridge_rs485_tx and _rx open a slot that is not ready on the way.
UseRs485(u) ==
  /\ MayCall(u) /\ open["rs485"] /\ ~rs485.ready
  /\ Rs485Opens(u, FALSE)
  /\ UNCHANGED rail

\* The driver is installed again, or a step of it fails: then no driver is left.
Rs485Installed(u) ==
  /\ call[u].at = "reinstalling"
  /\ \/ /\ rs485' = [installed |-> TRUE, ready |-> TRUE]
        /\ Waiting(u, "resettling", call[u].then)
     \/ /\ rs485' = [rs485 EXCEPT !.installed = FALSE]
        /\ Returns(u)
  /\ Notes(u, "rs485")
  /\ UNCHANGED <<run, open, uart, rail, busy>>

Rs485Settled(u) ==
  /\ call[u].at = "resettling"
  /\ Then(call[u], "rs485")
  /\ Returns(u)
  /\ Notes(u, "rs485")
  /\ UNCHANGED <<run, uart, rs485, rail, busy>>

\* bridge_rs485_open(false)
Rs485Closed ==
  IF open["rs485"] THEN [installed |-> FALSE, ready |-> FALSE] ELSE rs485

CloseRs485(u) ==
  /\ MayCall(u) /\ open["rs485"]
  /\ rs485' = Rs485Closed
  /\ open' = [open EXCEPT !["rs485"] = FALSE]
  /\ Notes(u, "rs485")
  /\ UNCHANGED <<run, uart, rail, busy, call>>

-----------------------------------------------------------------------------
(* UART *)

\* The LED counts the users of its pin, and does not count below 0.
Released == IF busy > 0 THEN busy - 1 ELSE 0

\* bridge_uart_open(true): a ready slot gives the LED's pin back first.
UartOpens(u, then) ==
  /\ busy' = IF uart.ready THEN Released ELSE busy
  /\ uart' = [uart EXCEPT !.ready = FALSE]
  /\ Waiting(u, "installing", then)
  /\ Notes(u, "uart")
  /\ UNCHANGED <<run, open, rs485, rail>>

\* connect_uart
ConnectUart(u) == MayCall(u) /\ UartOpens(u, TRUE)

\* bridge_uart_tx and _rx: a ready slot is used as it is.
UseUart(u) ==
  /\ MayCall(u) /\ open["uart"] /\ ~uart.ready
  /\ UartOpens(u, FALSE)

\* How far it comes: the port is configured and the driver installed, once,
\* and the signals are routed to the pins.
Reaches == {"config", "route", "done"}

\* Mutant: the pin is not given back when the signals cannot be routed.
BusyAfter_Leaks(got) == busy + (IF got # "config" THEN 1 ELSE 0)

\* The LED's pin is taken for the routing and given back if it fails.
BusyAfter(got) == busy + (IF got = "done" THEN 1 ELSE 0)

UartInstalled(u) ==
  /\ call[u].at = "installing"
  /\ \E got \in Reaches :
       /\ BusyAfter(got) <= MaxBusy
       /\ busy' = BusyAfter(got)
       /\ uart' = [installed |-> uart.installed \/ got # "config",
                   ready |-> uart.ready \/ got = "done"]
       /\ rail' = (rail \/ got = "done")
       /\ IF got = "done" THEN Waiting(u, "settling", call[u].then) ELSE Returns(u)
  /\ Notes(u, "uart")
  /\ UNCHANGED <<run, open, rs485>>

UartSettled(u) ==
  /\ call[u].at = "settling"
  /\ Then(call[u], "uart")
  /\ Returns(u)
  /\ Notes(u, "uart")
  /\ UNCHANGED <<run, uart, rs485, rail, busy>>

\* bridge_uart_open(false) lets a ready UART drain, gives the pin back, and
\* switches the supply off: the bridge knows of no other open interface.
UartCloses(u) ==
  /\ uart.ready
  /\ Waiting(u, "draining", FALSE)
  /\ UNCHANGED <<open, uart, rail, busy>>

UartClosed(released) ==
  /\ busy' = IF released THEN Released ELSE busy
  /\ uart' = [uart EXCEPT !.ready = FALSE]
  /\ rail' = FALSE
  /\ open' = [open EXCEPT !["uart"] = FALSE]

\* script_interface_close
CloseUart(u) ==
  /\ MayCall(u) /\ open["uart"]
  /\ \/ UartCloses(u)
     \/ ~uart.ready /\ UartClosed(FALSE) /\ UNCHANGED call
  /\ Notes(u, "uart")
  /\ UNCHANGED <<run, rs485>>

\* A script drains its UART also when the run ends.
UartDrained(u) ==
  /\ call[u].at = "draining"
  /\ UartClosed(TRUE)
  /\ Returns(u)
  /\ IF u = "script" /\ run = "ending" THEN RunIsOver ELSE Notes(u, "uart") /\ UNCHANGED run
  /\ UNCHANGED rs485

-----------------------------------------------------------------------------
(* The sampling run *)

\* sample_execute_script_and_log_results
Begins ==
  /\ run = "no"
  /\ run' = "yes"
  /\ UNCHANGED <<open, uart, rs485, rail, busy, call, touched, clash>>

\* sample_close_lua_sensor_interfaces, also after a script that failed: I2C
\* and RS485 are closed, then the UART, which may wait.
Ends ==
  /\ run = "yes" /\ call["script"] = Idle
  /\ run' = "ending"
  /\ open' = [open EXCEPT !["i2c"] = FALSE, !["rs485"] = FALSE]
  /\ rs485' = Rs485Closed
  /\ Clears({"i2c", "rs485"})
  /\ UNCHANGED <<uart, rail, busy, call>>

EndsUart ==
  /\ run = "ending" /\ call["script"] = Idle
  /\ \/ open["uart"] /\ UartCloses("script") /\ Notes("script", "uart") /\ UNCHANGED run
     \/ open["uart"] /\ ~uart.ready /\ UartClosed(FALSE) /\ RunIsOver /\ UNCHANGED call
     \/ ~open["uart"] /\ RunIsOver /\ UNCHANGED <<open, uart, rail, busy, call>>
  /\ UNCHANGED rs485

CallsI2c(u)   == ConnectI2c(u) \/ CloseI2c(u)
CallsRs485(u) ==
  ConnectRs485(u) \/ UseRs485(u) \/ Rs485Installed(u) \/ Rs485Settled(u) \/ CloseRs485(u)
CallsUart(u) ==
  ConnectUart(u) \/ UseUart(u) \/ UartInstalled(u) \/ UartSettled(u) \/ CloseUart(u)
  \/ UartDrained(u)

\* The functions of script_interface_runtime.c that both users are given; two
\* of them, resetting the cursor and setting the size, open nothing.
Calls(u) == CallsI2c(u) \/ CallsRs485(u) \/ CallsUart(u)

\* edgez_lua_rpc_handle
Rpc == Calls("phone")

Next == Begins \/ Ends \/ EndsUart \/ Calls("script") \/ Rpc

Spec == Init /\ [][Next]_vars

-----------------------------------------------------------------------------
(* Properties *)

\* Whatever the users did and whatever failed, as long as no two calls met in
\* one interface: the LED is suspended exactly while the UART is ready, a ready
\* UART has its supply, and a run leaves nothing behind in an interface that
\* the phone has not used since the run closed it.
RunReleasesAll ==
  ~clash =>
    /\ busy = (IF uart.ready THEN 1 ELSE 0)
    /\ uart.ready => rail
    /\ run = "no" /\ "uart" \notin touched => ~uart.ready
    /\ run = "no" /\ "rs485" \notin touched => ~rs485.installed
=============================================================================
