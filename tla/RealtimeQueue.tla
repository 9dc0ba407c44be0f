---------------------------- MODULE RealtimeQueue ----------------------------
(***************************************************************************)
(* The realtime lane of halow_sync_bridge.c: voice and speed-test frames   *)
(* of the phones, and speed-test frames to relay, wait in one bounded      *)
(* queue for the transmit task.  A speed frame takes a free place or is    *)
(* refused.  A voice frame prefers the newest: if more wait than the path  *)
(* to its target deserves, the oldest frame gives way.                     *)
(*                                                                         *)
(* The BLE host task, the USB dispatcher and the radio task enqueue        *)
(* concurrently.  One action is one call of the queue, or one attempt to   *)
(* transmit.                                                               *)
(*                                                                         *)
(* The cache of path limits only repeats an answer of the last 250 ms, so  *)
(* the limit of a voice frame is any limit a path may have.  The bound on  *)
(* the backlog is stated against allowed, the largest limit used so far.   *)
(***************************************************************************)
EXTENDS RealtimeQueueConstants, Sequences

VARIABLES
  queue,    \* s_voice_tx_queue
  call,     \* per producer: its point in voice_tx_enqueue and its locals
  item,     \* the frame of voice_tx_task, stale while tries = 0
  tries,    \* its attempt under way; 0 when the task waits for a frame
  aired,    \* per producer: its newest frame that went out
  raced,    \* producers in whose call, after it measured, another one sent
  allowed,  \* largest backlog an enqueue has allowed so far
  submitted \* bound, and the name of the next frame

worker == <<item, tries, aired>>
vars == <<queue, call, worker, raced, allowed, submitted>>

Kinds == {"voice", "speed"}
Frame(nr, p, kind) == [nr |-> nr, from |-> p, kind |-> kind]
FrameOf(p) == Frame(call[p].nr, p, call[p].kind)

Quiet == [at |-> "idle", nr |-> 0, kind |-> "voice", limit |-> 0, dropped |-> "no"]

Waiting == Len(queue) \* uxQueueMessagesWaiting

-----------------------------------------------------------------------------
(* realtime_tx_path_limit *)

Smaller(a, b) == IF a < b THEN a ELSE b
Larger(a, b) == IF a < b THEN b ELSE a

\* Link quality (four ranges of tq), hops and age of the best route.
Paths ==
  [tq : {"best", "good", "fair", "poor"}, hops : 0 .. 3, age : {"fresh", "old"}]

LimitByQuality == [best |-> Depth, good |-> High, fair |-> Mid, poor |-> Low]

PathLimit(path) ==
  Smaller(LimitByQuality[path.tq],
          IF path.hops >= 3 \/ path.age = "old" THEN Low
          ELSE IF path.hops = 2 THEN Mid ELSE Depth)

\* Without a route the limit is that of a poor one.
PathLimits == {Low} \cup {PathLimit(path) : path \in Paths}

-----------------------------------------------------------------------------
(* voice_tx_enqueue *)

At(p, where) == call[p].at = where
Goes(p, where) == call' = [call EXCEPT ![p].at = where]
Drops(p, where) ==
  call' = [call EXCEPT ![p] = [@ EXCEPT !.at = where, !.dropped = "yes"]]
Returns(p) == call' = [call EXCEPT ![p] = Quiet] /\ raced' = raced \ {p}

\* The producers that rely on what they saw of the queue.
Relying == {p \in Callers : call[p].at \in {"drop", "send", "late", "resend"}}

Submits(p, kind, where, limit) ==
  /\ At(p, "idle")
  /\ submitted < MaxCalls
  /\ submitted' = submitted + 1
  /\ call' = [call EXCEPT ![p] =
       [at |-> where, nr |-> submitted + 1, kind |-> kind,
        limit |-> limit, dropped |-> "no"]]
  /\ allowed' = Larger(allowed, limit)
  /\ UNCHANGED <<queue, worker, raced>>

SubmitVoice(p) == \E limit \in PathLimits : Submits(p, "voice", "measure", limit)

SubmitSpeed(p) == Submits(p, "speed", "send", Depth)

\* Mutant: one more frame than the limit may wait.
Measure_OffByOne(p) ==
  /\ At(p, "measure")
  /\ Goes(p, IF Waiting > call[p].limit THEN "drop" ELSE "send")
  /\ UNCHANGED <<queue, worker, raced, allowed, submitted>>

Measure(p) ==
  /\ At(p, "measure")
  /\ Goes(p, IF Waiting >= call[p].limit THEN "drop" ELSE "send")
  /\ UNCHANGED <<queue, worker, raced, allowed, submitted>>

DropOldest(p) ==
  /\ At(p, "drop")
  /\ \/ Waiting > 0 /\ Drops(p, "send") /\ queue' = Tail(queue)
     \/ Waiting = 0 /\ Goes(p, "send") /\ UNCHANGED queue
  /\ UNCHANGED <<worker, raced, allowed, submitted>>

\* xQueueSend with a place free: the call returns.
Enqueues(p) ==
  /\ Waiting < Depth
  /\ queue' = Append(queue, FrameOf(p))
  /\ call' = [call EXCEPT ![p] = Quiet]
  /\ raced' = (raced \cup Relying) \ {p}

Send(p) ==
  /\ At(p, "send")
  /\ \/ Enqueues(p)
     \/ /\ Waiting = Depth
        /\ call[p].kind = "voice" /\ call[p].dropped = "no"
        /\ Goes(p, "late")
        /\ UNCHANGED <<queue, raced>>
     \/ /\ Waiting = Depth
        /\ call[p].kind = "speed" \/ call[p].dropped = "yes"
        /\ Returns(p)
        /\ UNCHANGED queue
  /\ UNCHANGED <<worker, allowed, submitted>>

\* The queue filled up after it was measured: the oldest gives way now.
DropLate(p) ==
  /\ At(p, "late")
  /\ \/ /\ Waiting > 0
        /\ Drops(p, "resend")
        /\ queue' = Tail(queue)
        /\ UNCHANGED raced
     \/ Waiting = 0 /\ Returns(p) /\ UNCHANGED queue
  /\ UNCHANGED <<worker, allowed, submitted>>

Resend(p) ==
  /\ At(p, "resend")
  /\ Enqueues(p) \/ (Waiting = Depth /\ Returns(p) /\ UNCHANGED queue)
  /\ UNCHANGED <<worker, allowed, submitted>>

-----------------------------------------------------------------------------
(* voice_tx_task *)

Attempts(kind) == IF kind = "speed" THEN SpeedAttempts ELSE VoiceAttempts

TakeFrame ==
  /\ tries = 0
  /\ Waiting > 0
  /\ item' = Head(queue)
  /\ queue' = Tail(queue)
  /\ tries' = 1
  /\ UNCHANGED <<call, aired, raced, allowed, submitted>>

\* Mutant: the frame goes back to the end of the queue.
Retry_Requeues ==
  /\ tries < Attempts(item.kind)
  /\ Waiting < Depth
  /\ queue' = Append(queue, item)
  /\ tries' = 0
  /\ UNCHANGED <<item, aired>>

\* The radio is under pressure: the frame stays with the task.
Retry ==
  /\ tries < Attempts(item.kind)
  /\ tries' = tries + 1
  /\ UNCHANGED <<queue, item, aired>>

\* The last attempt failed, or the error is not one to retry.
GiveUp == tries' = 0 /\ UNCHANGED <<queue, item, aired>>

Sent ==
  /\ aired' = [aired EXCEPT ![item.from] = item.nr]
  /\ tries' = 0
  /\ UNCHANGED <<queue, item>>

Transmit ==
  /\ tries > 0
  /\ Sent \/ Retry \/ GiveUp
  /\ UNCHANGED <<call, raced, allowed, submitted>>

-----------------------------------------------------------------------------

Init ==
  /\ queue = <<>>
  /\ call = [p \in Callers |-> Quiet]
  /\ item = Frame(0, CHOOSE p \in Callers : TRUE, "voice")
  /\ tries = 0
  /\ aired = [p \in Callers |-> 0]
  /\ raced = {}
  /\ allowed = Low
  /\ submitted = 0

Enqueue(p) ==
  SubmitVoice(p) \/ SubmitSpeed(p) \/ Measure(p) \/ DropOldest(p)
  \/ Send(p) \/ DropLate(p) \/ Resend(p)

Next == (\E p \in Callers : Enqueue(p)) \/ TakeFrame \/ Transmit

Spec == Init /\ [][Next]_vars

\* The transmit task runs and the radio answers each attempt.
Fairness == WF_vars(TakeFrame) /\ WF_vars(Transmit)

FairSpec == Spec /\ Fairness

-----------------------------------------------------------------------------
(* Properties *)

Points == {"idle", "measure", "drop", "send", "late", "resend"}
Numbers == 0 .. MaxCalls
Frames == [nr : Numbers, from : Callers, kind : Kinds]
Calls == [at : Points, nr : Numbers, kind : Kinds,
          limit : 0 .. Depth, dropped : {"yes", "no"}]

TypeOK ==
  /\ queue \in Seq(Frames) /\ Waiting <= Depth
  /\ call \in [Callers -> Calls]
  /\ item \in Frames
  /\ tries \in 0 .. Attempts(item.kind)
  /\ aired \in [Callers -> Numbers]
  /\ raced \subseteq Callers
  /\ allowed \in 1 .. Depth
  /\ submitted \in Numbers

\* The voice frames about to be sent; each may still become one waiting.
Sending ==
  {p \in Callers : call[p].kind = "voice" /\ call[p].at \in {"send", "resend"}}

\* A voice frame always finds a place when no other task sent after it
\* measured: the newest frame is refused only because of a race.
NewestFits ==
  \A p \in Callers :
    p \in Sending /\ p \notin raced => Waiting < Depth

\* The backlog stays within the largest limit in use.  Tasks that measured at
\* the same moment may overshoot it, each other one by a single frame, however
\* often they do.
BacklogBounded ==
  Waiting + Cardinality(Sending) <= allowed + Cardinality(Callers) - 1

\* The frames of a task go out in the order they were submitted, each at most
\* once, through retries, drops and refusals: what waits is newer than what
\* went out, and newest at the end.
StreamsInOrder ==
  /\ \A i, j \in 1 .. Waiting :
       i < j /\ queue[i].from = queue[j].from => queue[i].nr < queue[j].nr
  /\ \A i \in 1 .. Waiting :
       /\ aired[queue[i].from] < queue[i].nr
       /\ tries > 0 /\ item.from = queue[i].from => item.nr < queue[i].nr
  /\ tries > 0 => aired[item.from] < item.nr

\* The frame with this number waits in the queue or is with the task.
Pending(nr) ==
  \/ \E i \in 1 .. Waiting : queue[i].nr = nr
  \/ tries > 0 /\ item.nr = nr

\* An accepted frame is sent, dropped or given up; it blocks the lane for no
\* more than its attempts, whatever the radio answers.
FramesResolve == \A nr \in 1 .. MaxCalls : Pending(nr) ~> ~Pending(nr)
=============================================================================
