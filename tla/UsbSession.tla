----------------------------- MODULE UsbSession -----------------------------
(***************************************************************************)
(* The control session of usb_control_transport.c: one UART is shared by   *)
(* plain-text logs and framed records, and the nonce handshake, the exit   *)
(* request and the activity timeout switch between the two.                *)
(*                                                                         *)
(* The receive task serves the host and is the only one to change the      *)
(* mode.  The writers (usb_halow_to_mobile_task and the TX_ACK of          *)
(* usb_mobile_to_halow_task) look at the mode and then wait for the        *)
(* transmit lock; a logging task looks at the mode and then prints.  One   *)
(* action is one access to the mode, the lock or the line.                 *)
(*                                                                         *)
(* The queues behind the writers are FrameQueue's; here only the number of *)
(* records a writer has to send is kept.  strays counts what reaches the   *)
(* line in the wrong mode, begun and ended the sessions; answered: the     *)
(* exit response of the last session is out.                               *)
(***************************************************************************)
EXTENDS UsbSessionConstants

VARIABLES
  mode,    \* s_transport_mode
  lock,    \* s_tx_lock: "free" or its holder
  rx,      \* where the receive task is
  writer,  \* where each writer is
  logger,  \* where each logging task is
  todo,    \* records queued for each writer
  silent,  \* USB_HOST_ACTIVITY_TIMEOUT_MS have passed without a frame
  noted,   \* what halow_sync_bridge_note_usb_connected was told last
  strays,  \* records and lines sent in the wrong mode
  begun, ended, answered,  \* handshakes begun, sessions ended; exit answered
  requests, records, texts \* bounds

ghosts == <<strays, begun, ended, answered>>
bounds == <<requests, records, texts>>
vars == <<mode, lock, rx, writer, logger, todo, silent, noted, ghosts, bounds>>

InSession == mode = "control" \* usb_control_transport_is_connected

Acquire(task) == lock = "free" /\ lock' = task
Held == lock # "free"
RxGoes(from, to) == rx = from /\ rx' = to

-----------------------------------------------------------------------------
(* usb_consume_rx: a frame of the host *)

Request ==
  /\ rx = "idle"
  /\ requests < MaxRequests
  /\ requests' = requests + 1
  /\ silent' = FALSE

\* A valid ping: answered within a session, else the handshake begins.
Ping ==
  /\ Request
  /\ \/ InSession /\ rx' = "echo" /\ UNCHANGED <<mode, begun>>
     \/ mode = "log" /\ mode' = "entering" /\ rx' = "enter" /\ begun' = begun + 1
  /\ answered' = FALSE
  /\ UNCHANGED <<lock, writer, logger, todo, noted, strays, ended, records, texts>>

\* Any other frame: queued for the dispatcher, which acknowledges it, or
\* ignored outside a session.
Frame ==
  /\ Request
  /\ IF InSession /\ records < MaxRecords
     THEN /\ \E w \in Writers : todo' = [todo EXCEPT ![w] = @ + 1]
          /\ records' = records + 1
     ELSE UNCHANGED <<todo, records>>
  /\ UNCHANGED <<mode, lock, rx, writer, logger, noted, ghosts, texts>>

Exit ==
  /\ Request
  /\ rx' = IF InSession THEN "answer" ELSE "idle"
  /\ UNCHANGED <<mode, lock, writer, logger, todo, noted, ghosts, records, texts>>

\* usb_rx_task: nothing to read for a while.
ActivityTimeout ==
  /\ InSession
  /\ silent
  /\ RxGoes("idle", "exit")
  /\ UNCHANGED <<mode, lock, writer, logger, todo, silent, noted, ghosts, bounds>>

FallSilent ==
  /\ ~silent
  /\ silent' = TRUE
  /\ UNCHANGED <<mode, lock, rx, writer, logger, todo, noted, ghosts, bounds>>

-----------------------------------------------------------------------------
(* The handshake: usb_enter_control_mode_with_pong *)

rxLocal == <<writer, logger, todo, silent, strays, begun, bounds>>
rxKept == <<ended, answered, rxLocal>>

\* Mutant: the mode is not restored when the lock does not come free.
TakeForPong_StaysEntering ==
  /\ \/ Acquire("rx") /\ RxGoes("enter", "pong")
     \/ Held /\ RxGoes("enter", "idle") /\ UNCHANGED lock
  /\ UNCHANGED <<mode, noted, rxKept>>

TakeForPong ==
  /\ \/ Acquire("rx") /\ RxGoes("enter", "pong") /\ UNCHANGED mode
     \/ Held /\ RxGoes("enter", "idle") /\ mode' = "log" /\ UNCHANGED lock
  /\ UNCHANGED <<noted, rxKept>>

\* The line is drained and the pong written, or one of the two times out.
Pong ==
  /\ \/ RxGoes("pong", "entered") /\ mode' = "control"
     \/ RxGoes("pong", "idle") /\ mode' = "log"
  /\ lock' = "free"
  /\ UNCHANGED <<noted, rxKept>>

NoteEntered ==
  /\ RxGoes("entered", "idle")
  /\ noted' = TRUE
  /\ silent' = FALSE
  /\ UNCHANGED <<mode, lock, writer, logger, todo, ghosts, bounds>>

-----------------------------------------------------------------------------
(* Answers within a session, written by usb_write_raw *)

\* The next thing the task does after its answer.
AfterAnswer == [echo |-> "idle", answer |-> "exit"]
Answering(r) == IF r = "echo" THEN "echoing" ELSE "answering"

TakeForAnswer ==
  /\ rx \in {"echo", "answer"}
  /\ \/ Acquire("rx") /\ rx' = Answering(rx)
     \/ Held /\ rx' = AfterAnswer[rx] /\ UNCHANGED lock
  /\ UNCHANGED <<mode, noted, rxKept>>

Answer ==
  /\ \/ RxGoes("echoing", "idle") /\ UNCHANGED answered
     \/ RxGoes("answering", "exit") /\ answered' \in {answered, TRUE}
  /\ lock' = "free"
  /\ UNCHANGED <<mode, noted, ended, rxLocal>>

-----------------------------------------------------------------------------
(* usb_control_transport_exit *)

\* Mutant: the mode is changed without the lock when it does not come free.
TakeForExit_Regardless ==
  /\ \/ Acquire("rx") /\ RxGoes("exit", "close") /\ UNCHANGED <<mode, ended>>
     \/ Held /\ RxGoes("exit", "left") /\ mode' = "log" /\ ended' = ended + 1
        /\ UNCHANGED lock
  /\ UNCHANGED <<noted, answered, rxLocal>>

\* Mutant: the bridge is told although the session goes on.
TakeForExit_NotesAnyway ==
  /\ \/ Acquire("rx") /\ RxGoes("exit", "close")
     \/ Held /\ RxGoes("exit", "left") /\ UNCHANGED lock
  /\ UNCHANGED <<mode, noted, rxKept>>

TakeForExit ==
  /\ \/ Acquire("rx") /\ RxGoes("exit", "close")
     \/ Held /\ RxGoes("exit", "idle") /\ UNCHANGED lock
  /\ UNCHANGED <<mode, noted, rxKept>>

Close ==
  /\ RxGoes("close", "left")
  /\ mode' = "log"
  /\ lock' = "free"
  /\ ended' = ended + 1
  /\ UNCHANGED <<noted, answered, rxLocal>>

NoteLeft ==
  /\ RxGoes("left", "idle")
  /\ noted' = FALSE
  /\ UNCHANGED <<mode, lock, rxKept>>

-----------------------------------------------------------------------------
(* The writers *)

WriterGoes(w, from, to) == writer[w] = from /\ writer' = [writer EXCEPT ![w] = to]

\* The bridge sends a record: dropped outside a session.
Submit(w) ==
  /\ InSession
  /\ records < MaxRecords
  /\ records' = records + 1
  /\ todo' = [todo EXCEPT ![w] = @ + 1]
  /\ UNCHANGED <<mode, lock, rx, writer, logger, silent, noted, ghosts, requests, texts>>

writerLocal == <<mode, rx, logger, silent, noted, begun, ended, answered, bounds>>

Look(w) ==
  /\ todo[w] > 0
  /\ todo' = [todo EXCEPT ![w] = @ - 1]
  /\ IF InSession THEN WriterGoes(w, "idle", "wait")
                  ELSE writer[w] = "idle" /\ UNCHANGED writer
  /\ UNCHANGED <<lock, strays, writerLocal>>

TakeForWrite(w) ==
  /\ \/ Acquire(w) /\ WriterGoes(w, "wait", "write")
     \/ Held /\ WriterGoes(w, "wait", "idle") /\ UNCHANGED lock
  /\ UNCHANGED <<todo, strays, writerLocal>>

Write(w) ==
  /\ WriterGoes(w, "write", "idle")
  /\ lock' = "free"
  /\ strays' = IF InSession THEN strays ELSE [strays EXCEPT !.records = @ + 1]
  /\ UNCHANGED <<todo, writerLocal>>

-----------------------------------------------------------------------------
(* usb_log_vprintf *)

LoggerGoes(g, from, to) == logger[g] = from /\ logger' = [logger EXCEPT ![g] = to]

\* Text goes to the line in log mode only; the records made of log lines are
\* submitted by the bridge.
LogLook(g) ==
  /\ mode = "log"
  /\ texts < MaxTexts
  /\ texts' = texts + 1
  /\ LoggerGoes(g, "idle", "print")
  /\ UNCHANGED <<mode, lock, rx, writer, todo, silent, noted, ghosts, requests, records>>

LogPrint(g) ==
  /\ LoggerGoes(g, "print", "idle")
  /\ strays' = IF mode = "log" THEN strays ELSE [strays EXCEPT !.lines = @ + 1]
  /\ UNCHANGED <<mode, lock, rx, writer, todo, silent, noted, begun, ended, answered, bounds>>

-----------------------------------------------------------------------------
Init ==
  /\ mode = "log" /\ lock = "free" /\ rx = "idle"
  /\ writer = [w \in Writers |-> "idle"]
  /\ logger = [g \in Loggers |-> "idle"]
  /\ todo = [w \in Writers |-> 0]
  /\ silent = FALSE /\ noted = FALSE
  /\ strays = [records |-> 0, lines |-> 0]
  /\ begun = 0 /\ ended = 0 /\ answered = FALSE
  /\ requests = 0 /\ records = 0 /\ texts = 0

Host == Ping \/ Frame \/ Exit \/ FallSilent

RxStep ==
  \/ ActivityTimeout
  \/ TakeForPong \/ Pong \/ NoteEntered
  \/ TakeForAnswer \/ Answer
  \/ TakeForExit \/ Close \/ NoteLeft

WriterStep(w) == Look(w) \/ TakeForWrite(w) \/ Write(w)
LoggerStep(g) == LogLook(g) \/ LogPrint(g)

Next ==
  \/ Host \/ RxStep
  \/ \E w \in Writers : Submit(w) \/ WriterStep(w)
  \/ \E g \in Loggers : LoggerStep(g)

Spec == Init /\ [][Next]_vars

\* The tasks run; the host and the bridge need not do anything.
Fairness == WF_vars(RxStep) /\ \A w \in Writers : WF_vars(WriterStep(w))

FairSpec == Spec /\ Fairness

-----------------------------------------------------------------------------
(* Properties *)

RxStates == {"idle", "enter", "pong", "entered", "echo", "echoing", "answer",
             "answering", "exit", "close", "left"}

\* The task that writes holds the lock, and it alone.
LockHeld ==
  /\ lock = "rx" <=> rx \in {"pong", "echoing", "answering", "close"}
  /\ \A w \in Writers : lock = w <=> writer[w] = "write"

TypeOK ==
  /\ LockHeld
  /\ mode \in {"log", "entering", "control"}
  /\ lock \in {"free", "rx"} \cup Writers
  /\ rx \in RxStates
  /\ writer \in [Writers -> {"idle", "wait", "write"}]
  /\ logger \in [Loggers -> {"idle", "print"}]
  /\ todo \in [Writers -> Nat]
  /\ silent \in BOOLEAN /\ noted \in BOOLEAN
  /\ strays \in [records : Nat, lines : Nat]
  /\ begun \in Nat /\ ended \in Nat /\ answered \in BOOLEAN
  /\ requests \in Nat /\ records \in Nat /\ texts \in Nat
\* Between two frames of the host the device is in a session or out of it,
\* and the bridge (with its sleep timers) knows which, even when the lock
\* did not come free for the handshake or the exit.
NotedIsMode == rx = "idle" => mode # "entering" /\ (noted <=> InSession)

\* A record that waited for the lock while the session ended still reaches
\* the line, and so does a line of text that was being printed when the
\* handshake began: at most one of each task and session.
StraysBounded ==
  /\ strays.records <= Cardinality(Writers) * ended
  /\ strays.lines <= Cardinality(Loggers) * begun

\* Bridge and line agree with the session.
SessionAgrees == NotedIsMode /\ StraysBounded

\* A session begins and ends between two records, never within one.
SessionsCutNoRecord ==
  [][mode # mode' /\ "control" \in {mode, mode'}
       => \A w \in Writers : writer[w] # "write"]_vars

\* Once the exit response is out and the mode is back, the UART carries
\* plain text only: no framed record is being written.
AfterExitOnlyText ==
  answered /\ mode = "log" => \A w \in Writers : writer[w] # "write"

\* The handshake comes to an end although the lock may not come free.
EnteringEnds == mode = "entering" ~> mode # "entering"

\* A host that went away without an exit request does not keep the device
\* in the session (and awake).
SilentSessionEnds == InSession /\ silent ~> ~InSession \/ ~silent

\* Neither a handshake nor a session lasts for ever without the host.
SessionsSettle == EnteringEnds /\ SilentSessionEnds
=============================================================================
