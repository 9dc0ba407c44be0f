---------------------------- MODULE Mesh_proofs ----------------------------
(***************************************************************************)
(* What is proved of the mesh side of a device: the realtime queue keeps    *)
(* its backlog, its streams and the place of the newest voice frame, late   *)
(* copies of a message die out, a speed test keeps its path, and a report   *)
(* names the neighbours there are.                                          *)
(***************************************************************************)
EXTENDS MCMesh, FiniteSetTheorems, WellFoundedInduction, TLAPS

-----------------------------------------------------------------------------
(* The realtime queue (RealtimeQueue)                                       *)

LEMMA LimitsInRange == PathLimits \subseteq 1 .. Depth
<1>1. Low \in 1 .. Depth /\ Mid \in 1 .. Depth /\ High \in 1 .. Depth /\ Depth \in 1 .. Depth
  BY RealtimeQueueAssumption
<1>2. ASSUME NEW way \in Paths
      PROVE  PathLimit(way) \in 1 .. Depth
  <2>1. LimitByQuality[way.tq] \in 1 .. Depth
    BY <1>1 DEF LimitByQuality, Paths
  <2> QED
    BY <1>1, <2>1 DEF PathLimit, Smaller
<1> QED
  BY <1>1, <1>2 DEF PathLimits

(* What the operators on one call do to the calls.                         *)
LEMMA Goes_Call ==
  ASSUME TypeOK, NEW p \in Callers, NEW where \in Points, Goes(p, where)
  PROVE  /\ call' \in [Callers -> Calls]
         /\ call'[p].at = where
         /\ call'[p].nr = call[p].nr /\ call'[p].kind = call[p].kind
         /\ call'[p].limit = call[p].limit
         /\ \A q \in Callers \ {p} : call'[q] = call[q]
<1>1. call[p] \in Calls
  BY DEF TypeOK
<1>2. call' = [call EXCEPT ![p] = [call[p] EXCEPT !.at = where]]
  BY DEF Goes
<1>3. [call[p] EXCEPT !.at = where] \in Calls
  BY <1>1 DEF Calls
<1>4. call'[p] = [call[p] EXCEPT !.at = where]
  BY <1>2 DEF TypeOK
<1>5. call' \in [Callers -> Calls] /\ \A q \in Callers \ {p} : call'[q] = call[q]
  BY <1>2, <1>3 DEF TypeOK
<1> QED
  BY <1>1, <1>4, <1>5 DEF Calls

LEMMA Drops_Call ==
  ASSUME TypeOK, NEW p \in Callers, NEW where \in Points, Drops(p, where)
  PROVE  /\ call' \in [Callers -> Calls]
         /\ call'[p].at = where
         /\ call'[p].nr = call[p].nr /\ call'[p].kind = call[p].kind
         /\ call'[p].limit = call[p].limit
         /\ \A q \in Callers \ {p} : call'[q] = call[q]
<1> DEFINE after == [call[p] EXCEPT !.at = where, !.dropped = "yes"]
<1>1. call[p] \in Calls
  BY DEF TypeOK
<1>2. /\ after \in Calls
      /\ after.at = where /\ after.nr = call[p].nr /\ after.kind = call[p].kind
      /\ after.limit = call[p].limit
  BY <1>1 DEF Calls
<1>3. call' = [call EXCEPT ![p] = after]
  BY DEF Drops
<1>4. /\ call' \in [Callers -> Calls] /\ call'[p] = after
      /\ \A q \in Callers \ {p} : call'[q] = call[q]
  BY <1>2, <1>3 DEF TypeOK
<1> QED
  BY <1>2, <1>4

LEMMA Quiet_Call ==
  ASSUME TypeOK, NEW p \in Callers, call' = [call EXCEPT ![p] = Quiet]
  PROVE  /\ call' \in [Callers -> Calls]
         /\ call'[p] = Quiet
         /\ \A q \in Callers \ {p} : call'[q] = call[q]
<1>1. Quiet \in Calls
  BY RealtimeQueueAssumption DEF Quiet, Calls, Points, Kinds, Numbers
<1> QED
  BY <1>1 DEF TypeOK

LEMMA Submits_Call ==
  ASSUME TypeOK, NEW p \in Callers, NEW kind \in Kinds, NEW where \in Points,
         NEW limit \in 1 .. Depth, Submits(p, kind, where, limit)
  PROVE  /\ call' \in [Callers -> Calls]
         /\ call'[p] = [at |-> where, nr |-> submitted + 1, kind |-> kind,
                        limit |-> limit, dropped |-> "no"]
         /\ \A q \in Callers \ {p} : call'[q] = call[q]
         /\ allowed' \in 1 .. Depth /\ allowed' >= allowed /\ allowed' >= limit
         /\ submitted' = submitted + 1 /\ submitted' \in Numbers
<1> DEFINE new == [at |-> where, nr |-> submitted + 1, kind |-> kind,
                   limit |-> limit, dropped |-> "no"]
<1>1. submitted + 1 \in Numbers /\ limit \in 0 .. Depth
  BY RealtimeQueueAssumption DEF TypeOK, Submits, Numbers
<1>2. new \in Calls
  BY <1>1 DEF Calls
<1>3. call' = [call EXCEPT ![p] = new]
  BY DEF Submits
<1>4. /\ call' \in [Callers -> Calls] /\ call'[p] = new
      /\ \A q \in Callers \ {p} : call'[q] = call[q]
  BY <1>2, <1>3 DEF TypeOK
<1>5. allowed' \in 1 .. Depth /\ allowed' >= allowed /\ allowed' >= limit
  BY RealtimeQueueAssumption DEF TypeOK, Submits, Larger
<1> QED
  BY <1>1, <1>4, <1>5 DEF Submits

(* What the queue becomes.                                                 *)
LEMMA Tail_Queue ==
  ASSUME TypeOK, Waiting > 0, queue' = Tail(queue)
  PROVE  /\ queue' \in Seq(Frames)
         /\ Waiting' = Waiting - 1 /\ Waiting \in Nat
         /\ \A i \in 1 .. Waiting' : i + 1 \in 1 .. Waiting /\ queue'[i] = queue[i + 1]
<1>1. queue \in Seq(Frames) /\ queue # <<>> /\ Len(queue) \in Nat
  BY DEF TypeOK, Waiting
<1>2. Tail(queue) \in Seq(Frames) /\ Len(Tail(queue)) = Len(queue) - 1
  BY <1>1
<1>3. \A i \in 1 .. Len(queue) - 1 : Tail(queue)[i] = queue[i + 1]
  BY <1>1
<1> QED
  BY <1>1, <1>2, <1>3 DEF Waiting

LEMMA Append_Queue ==
  ASSUME TypeOK, NEW p \in Callers, Enqueues(p)
  PROVE  /\ queue' \in Seq(Frames) /\ FrameOf(p) \in Frames
         /\ Waiting' = Waiting + 1 /\ Waiting \in Nat
         /\ \A i \in 1 .. Waiting : queue'[i] = queue[i]
         /\ queue'[Waiting'] = FrameOf(p)
<1>1. queue \in Seq(Frames) /\ Len(queue) \in Nat
  BY DEF TypeOK
<1>2. FrameOf(p) \in Frames
  BY DEF TypeOK, FrameOf, Frame, Calls, Frames
<1>3. queue' = Append(queue, FrameOf(p))
  BY DEF Enqueues
<1> QED
  BY <1>1, <1>2, <1>3 DEF Waiting

-----------------------------------------------------------------------------
(* Types *)

LEMMA InitTypeOK == Init => TypeOK
<1> SUFFICES ASSUME Init PROVE TypeOK
  OBVIOUS
<1> USE RealtimeQueueAssumption DEF Init
<1>1. (CHOOSE p \in Callers : TRUE) \in Callers
  OBVIOUS
<1>2. queue \in Seq(Frames) /\ Waiting <= Depth
  BY DEF Waiting
<1>3. call \in [Callers -> Calls]
  BY DEF Quiet, Calls, Points, Numbers, Kinds
<1>4. item \in Frames /\ tries \in 0 .. Attempts(item.kind)
  BY <1>1 DEF Frame, Frames, Numbers, Kinds, Attempts
<1>5. aired \in [Callers -> Numbers] /\ raced \subseteq Callers /\ submitted \in Numbers
  BY DEF Numbers
<1>6. allowed \in 1 .. Depth
  OBVIOUS
<1> QED
  BY <1>2, <1>3, <1>4, <1>5, <1>6 DEF TypeOK

LEMMA EnqueueTypeOK ==
  ASSUME TypeOK, NEW p \in Callers, Enqueue(p)
  PROVE  TypeOK'
<1> USE DEF Points
<1>0. Waiting \in Nat /\ Depth \in Nat
  BY RealtimeQueueAssumption DEF TypeOK, Waiting
<1>1. CASE SubmitVoice(p)
  <2>1. PICK limit \in PathLimits : Submits(p, "voice", "measure", limit)
    BY <1>1 DEF SubmitVoice
  <2>2. limit \in 1 .. Depth /\ "voice" \in Kinds
    BY LimitsInRange DEF Kinds
  <2>3. call' \in [Callers -> Calls] /\ allowed' \in 1 .. Depth /\ submitted' \in Numbers
    BY <2>1, <2>2, Submits_Call
  <2>4. UNCHANGED <<queue, worker, raced>>
    BY <2>1 DEF Submits
  <2> QED
    BY <2>3, <2>4 DEF TypeOK, worker, Waiting
<1>2. CASE SubmitSpeed(p)
  <2>1. Submits(p, "speed", "send", Depth)
    BY <1>2 DEF SubmitSpeed
  <2>2. Depth \in 1 .. Depth /\ "speed" \in Kinds
    BY RealtimeQueueAssumption DEF Kinds
  <2>3. call' \in [Callers -> Calls] /\ allowed' \in 1 .. Depth /\ submitted' \in Numbers
    BY <2>1, <2>2, Submits_Call
  <2>4. UNCHANGED <<queue, worker, raced>>
    BY <2>1 DEF Submits
  <2> QED
    BY <2>3, <2>4 DEF TypeOK, worker, Waiting
<1>3. CASE Measure(p)
  <2>1. PICK where \in {"drop", "send"} : Goes(p, where)
    BY <1>3 DEF Measure
  <2>2. call' \in [Callers -> Calls]
    BY <2>1, Goes_Call
  <2>3. UNCHANGED <<queue, worker, raced, allowed, submitted>>
    BY <1>3 DEF Measure
  <2> QED
    BY <2>2, <2>3 DEF TypeOK, worker, Waiting
<1>4. CASE DropOldest(p)
  <2>1. call' \in [Callers -> Calls]
    BY <1>4, Goes_Call, Drops_Call DEF DropOldest
  <2>2. queue' \in Seq(Frames) /\ Waiting' <= Depth
    <3>0. (Waiting > 0 /\ queue' = Tail(queue)) \/ queue' = queue
      BY <1>4 DEF DropOldest
    <3>1. CASE Waiting > 0 /\ queue' = Tail(queue)
      BY <1>0, <3>1, Tail_Queue DEF TypeOK
    <3>2. CASE queue' = queue
      BY <3>2 DEF TypeOK, Waiting
    <3> QED
      BY <3>0, <3>1, <3>2
  <2>3. UNCHANGED <<worker, raced, allowed, submitted>>
    BY <1>4 DEF DropOldest
  <2> QED
    BY <2>1, <2>2, <2>3 DEF TypeOK, worker
<1>5. ASSUME Enqueues(p), UNCHANGED <<worker, allowed, submitted>>
      PROVE  TypeOK'
  <2>1. call' \in [Callers -> Calls]
    BY <1>5, Quiet_Call DEF Enqueues
  <2>2. queue' \in Seq(Frames) /\ Waiting' <= Depth
    <3>1. Waiting < Depth
      BY <1>5 DEF Enqueues
    <3>2. queue' \in Seq(Frames) /\ Waiting' = Waiting + 1
      BY <1>5, Append_Queue
    <3> QED
      BY <1>0, <3>1, <3>2
  <2>3. raced' \subseteq Callers
    BY <1>5 DEF Enqueues, Relying, TypeOK
  <2> QED
    BY <1>5, <2>1, <2>2, <2>3 DEF TypeOK, worker
<1>6. ASSUME Returns(p), UNCHANGED <<queue, worker, allowed, submitted>>
      PROVE  TypeOK'
  <2>1. call' \in [Callers -> Calls]
    BY <1>6, Quiet_Call DEF Returns
  <2>2. raced' \subseteq Callers
    BY <1>6 DEF Returns, TypeOK
  <2> QED
    BY <1>6, <2>1, <2>2 DEF TypeOK, worker, Waiting
<1>7. CASE Send(p)
  <2>1. CASE Goes(p, "late") /\ UNCHANGED <<queue, raced>>
    <3>1. call' \in [Callers -> Calls]
      BY <2>1, Goes_Call
    <3>2. UNCHANGED <<worker, allowed, submitted>>
      BY <1>7 DEF Send
    <3> QED
      BY <2>1, <3>1, <3>2 DEF TypeOK, worker, Waiting
  <2> QED
    BY <1>5, <1>6, <1>7, <2>1 DEF Send
<1>8. CASE DropLate(p)
  <2>1. CASE Waiting > 0 /\ Drops(p, "resend") /\ queue' = Tail(queue) /\ UNCHANGED raced
    <3>1. call' \in [Callers -> Calls]
      BY <2>1, Drops_Call
    <3>2. queue' \in Seq(Frames) /\ Waiting' <= Depth
      BY <1>0, <2>1, Tail_Queue DEF TypeOK
    <3>3. UNCHANGED <<worker, allowed, submitted>>
      BY <1>8 DEF DropLate
    <3> QED
      BY <2>1, <3>1, <3>2, <3>3 DEF TypeOK, worker
  <2> QED
    BY <1>6, <1>8, <2>1 DEF DropLate
<1>9. CASE Resend(p)
  BY <1>5, <1>6, <1>9 DEF Resend
<1> QED
  BY <1>1, <1>2, <1>3, <1>4, <1>7, <1>8, <1>9 DEF Enqueue

LEMMA WorkerTypeOK ==
  ASSUME TypeOK, TakeFrame \/ Transmit
  PROVE  TypeOK'
<1>1. CASE TakeFrame
  <2>0. Waiting > 0 /\ queue' = Tail(queue) /\ item' = Head(queue) /\ tries' = 1
    BY <1>1 DEF TakeFrame
  <2>1. queue' \in Seq(Frames) /\ Waiting' <= Depth
    <3>1. queue' \in Seq(Frames) /\ Waiting' = Waiting - 1 /\ Waiting \in Nat
      BY <2>0, Tail_Queue
    <3> QED
      BY <3>1, RealtimeQueueAssumption DEF TypeOK
  <2>2. item' \in Frames
    BY <2>0 DEF TypeOK, Waiting
  <2>3. tries' \in 0 .. Attempts(item'.kind)
    BY <2>0, <2>2, RealtimeQueueAssumption DEF Attempts, Frames, Kinds
  <2>4. UNCHANGED <<call, aired, raced, allowed, submitted>>
    BY <1>1 DEF TakeFrame
  <2> QED
    BY <2>1, <2>2, <2>3, <2>4 DEF TypeOK
<1>2. CASE Transmit
  <2>0. UNCHANGED <<queue, item, call, raced, allowed, submitted>>
    BY <1>2 DEF Transmit, Sent, Retry, GiveUp
  <2>1. Attempts(item.kind) \in Nat
    BY RealtimeQueueAssumption DEF TypeOK, Attempts, Frames, Kinds
  <2>2. tries' \in 0 .. Attempts(item.kind)
    BY <1>2, <2>1 DEF Transmit, Sent, Retry, GiveUp, TypeOK
  <2>3. aired' \in [Callers -> Numbers]
    BY <1>2 DEF Transmit, Sent, Retry, GiveUp, TypeOK, Frames
  <2> QED
    BY <2>0, <2>2, <2>3 DEF TypeOK, Waiting
<1> QED
  BY <1>1, <1>2

LEMMA StutterTypeOK == TypeOK /\ UNCHANGED vars => TypeOK'
  BY DEF TypeOK, vars, worker, Waiting

(* The queue, the calls and the transmit task keep their types; in         *)
(* particular more than Depth frames never wait and a frame is never       *)
(* attempted more often than its kind allows.                              *)
THEOREM TypeCorrect == Spec => []TypeOK
<1>1. TypeOK /\ [Next]_vars => TypeOK'
  BY EnqueueTypeOK, WorkerTypeOK, StutterTypeOK DEF Next
<1> QED
  BY <1>1, InitTypeOK, PTL DEF Spec

-----------------------------------------------------------------------------
(* The newest voice frame *)

LEMMA EnqueueFits ==
  ASSUME TypeOK, NewestFits, NEW p \in Callers, Enqueue(p)
  PROVE  NewestFits'
<1> USE DEF Points
<1>0. Waiting \in Nat /\ Depth \in Nat \ {0} /\ Waiting <= Depth
  BY RealtimeQueueAssumption DEF TypeOK, Waiting
<1>1. ASSUME NEW q \in Sending', q \notin raced'
      PROVE  Waiting' < Depth
  <2>q. q \in Callers /\ call'[q].kind = "voice" /\ call'[q].at \in {"send", "resend"}
    BY <1>1 DEF Sending
  \* A call that neither sends nor makes p one of the senders.
  <2>a. ASSUME Waiting' <= Waiting, raced \ {p} \subseteq raced',
               \A o \in Callers \ {p} : call'[o] = call[o], q # p
        PROVE  Waiting' < Depth
    <3>1. q \in Sending /\ q \notin raced
      BY <1>1, <2>q, <2>a DEF Sending
    <3>2. Waiting < Depth
      BY <2>q, <3>1 DEF NewestFits
    <3>3. Waiting' \in Nat
      BY EnqueueTypeOK DEF TypeOK, Waiting
    <3> QED
      BY <1>0, <2>a, <3>2, <3>3
  <2>b. ASSUME Enqueues(p)
        PROVE  Waiting' < Depth
    <3>1. call'[p] = Quiet /\ \A o \in Callers \ {p} : call'[o] = call[o]
      BY <2>b, Quiet_Call DEF Enqueues
    <3>2. q # p
      BY <2>q, <3>1 DEF Quiet
    <3>3. q \in Relying
      BY <2>q, <3>1, <3>2 DEF Relying
    <3> QED
      BY <1>1, <2>b, <3>2, <3>3 DEF Enqueues
  <2>c. ASSUME Returns(p), UNCHANGED queue
        PROVE  Waiting' < Depth
    <3>1. call'[p] = Quiet /\ \A o \in Callers \ {p} : call'[o] = call[o]
      BY <2>c, Quiet_Call DEF Returns
    <3>2. q # p
      BY <2>q, <3>1 DEF Quiet
    <3>3. Waiting' <= Waiting /\ raced \ {p} \subseteq raced'
      BY <1>0, <2>c DEF Returns, Waiting
    <3> QED
      BY <2>a, <3>1, <3>2, <3>3
  <2>d. ASSUME Waiting > 0, queue' = Tail(queue)
        PROVE  Waiting' < Depth
    <3>1. Waiting' = Waiting - 1
      BY <2>d, Tail_Queue
    <3> QED
      BY <1>0, <3>1
  <2>1. CASE SubmitVoice(p)
    <3>1. PICK limit \in PathLimits : Submits(p, "voice", "measure", limit)
      BY <2>1 DEF SubmitVoice
    <3>2. /\ call'[p].at = "measure" /\ UNCHANGED <<queue, raced>>
          /\ \A o \in Callers \ {p} : call'[o] = call[o]
      BY <3>1, LimitsInRange, Submits_Call DEF Submits, Kinds
    <3> QED
      BY <1>0, <2>a, <2>q, <3>2 DEF Waiting
  <2>2. CASE SubmitSpeed(p)
    <3>1. Submits(p, "speed", "send", Depth) /\ Depth \in 1 .. Depth
      BY <1>0, <2>2 DEF SubmitSpeed
    <3>2. /\ call'[p].kind = "speed" /\ UNCHANGED <<queue, raced>>
          /\ \A o \in Callers \ {p} : call'[o] = call[o]
      BY <3>1, Submits_Call DEF Submits, Kinds
    <3> QED
      BY <1>0, <2>a, <2>q, <3>2 DEF Waiting
  <2>3. CASE Measure(p)
    <3>1. UNCHANGED <<queue, raced>>
      BY <2>3 DEF Measure
    <3>2. CASE Waiting < call[p].limit
      <4>1. call[p].limit \in 0 .. Depth
        BY DEF TypeOK, Calls
      <4> QED
        BY <1>0, <3>1, <3>2, <4>1 DEF Waiting
    <3>3. CASE ~(Waiting < call[p].limit)
      <4>0. call[p].limit \in 0 .. Depth
        BY DEF TypeOK, Calls
      <4>1. Goes(p, "drop")
        BY <1>0, <2>3, <3>3, <4>0 DEF Measure
      <4>2. call'[p].at = "drop" /\ \A o \in Callers \ {p} : call'[o] = call[o]
        BY <4>1, Goes_Call
      <4> QED
        BY <1>0, <2>a, <2>q, <3>1, <4>2 DEF Waiting
    <3> QED
      BY <3>2, <3>3
  <2>4. CASE DropOldest(p)
    <3>1. (Waiting > 0 /\ queue' = Tail(queue)) \/ (Waiting = 0 /\ queue' = queue)
      BY <2>4 DEF DropOldest
    <3>2. CASE Waiting = 0 /\ queue' = queue
      BY <1>0, <3>2 DEF Waiting
    <3> QED
      BY <2>d, <3>1, <3>2
  <2>5. CASE Send(p)
    <3>1. CASE Goes(p, "late") /\ UNCHANGED <<queue, raced>>
      <4>1. call'[p].at = "late" /\ \A o \in Callers \ {p} : call'[o] = call[o]
        BY <3>1, Goes_Call
      <4> QED
        BY <1>0, <2>a, <2>q, <3>1, <4>1 DEF Waiting
    <3> QED
      BY <2>5, <2>b, <2>c, <3>1 DEF Send
  <2>6. CASE DropLate(p)
    BY <2>6, <2>c, <2>d DEF DropLate
  <2>7. CASE Resend(p)
    BY <2>7, <2>b, <2>c DEF Resend
  <2> QED
    BY <2>1, <2>2, <2>3, <2>4, <2>5, <2>6, <2>7 DEF Enqueue
<1> QED
  BY <1>1 DEF NewestFits

LEMMA WorkerFits ==
  ASSUME TypeOK, NewestFits, TakeFrame \/ Transmit
  PROVE  NewestFits'
<1>0. Waiting \in Nat /\ Depth \in Nat \ {0} /\ Waiting <= Depth
  BY RealtimeQueueAssumption DEF TypeOK, Waiting
<1>1. UNCHANGED <<call, raced>>
  BY DEF TakeFrame, Transmit
<1>2. Waiting' <= Waiting /\ Waiting' \in Nat
  <2>1. CASE TakeFrame
    <3>1. Waiting > 0 /\ queue' = Tail(queue)
      BY <2>1 DEF TakeFrame
    <3>2. Waiting' = Waiting - 1
      BY <3>1, Tail_Queue
    <3> QED
      BY <1>0, <3>1, <3>2
  <2>2. CASE Transmit
    <3>1. queue' = queue
      BY <2>2 DEF Transmit, Sent, Retry, GiveUp
    <3> QED
      BY <1>0, <3>1 DEF Waiting
  <2> QED
    BY <2>1, <2>2
<1>3. Sending' = Sending /\ Sending \subseteq Callers /\ raced' = raced
  BY <1>1 DEF Sending
<1>4. ASSUME NEW q \in Sending', q \notin raced'
      PROVE  Waiting' < Depth
  <2>1. Waiting < Depth
    BY <1>3, <1>4 DEF NewestFits
  <2> QED
    BY <1>0, <1>2, <2>1
<1> QED
  BY <1>4 DEF NewestFits

(* A voice frame is refused only when another task sent after it measured: *)
(* for every number of tasks and every limit.                              *)
THEOREM NewestHasPlace == Spec => []NewestFits
<1>1. Init => NewestFits
  BY DEF Init, NewestFits, Sending, Quiet
<1>2. TypeOK /\ NewestFits /\ [Next]_vars => NewestFits'
  <2> SUFFICES ASSUME TypeOK, NewestFits, [Next]_vars PROVE NewestFits'
    OBVIOUS
  <2>1. CASE UNCHANGED vars
    BY <2>1 DEF NewestFits, Sending, vars, Waiting
  <2> QED
    BY <2>1, EnqueueFits, WorkerFits DEF Next
<1> QED
  BY <1>1, <1>2, TypeCorrect, PTL DEF Spec

-----------------------------------------------------------------------------
(* The backlog *)

(* Who measured with a limit allowed it: the part of the invariant that    *)
(* says why a frame about to be sent is paid for.                          *)
LimitsAllowed ==
  \A p \in Callers :
    /\ call[p].limit <= allowed
    /\ call[p].kind = "speed" => call[p].limit = Depth

BacklogInv == LimitsAllowed /\ BacklogBounded

LEMMA Counts ==
  ASSUME NEW S \in SUBSET Callers
  PROVE  /\ IsFiniteSet(S) /\ Cardinality(S) \in Nat
         /\ Cardinality(S) <= Cardinality(Callers)
         /\ Cardinality(Callers) \in Nat \ {0}
         /\ \A p \in Callers :
              /\ Cardinality(S \cup {p}) <= Cardinality(S) + 1
              /\ p \in S => Cardinality(S \ {p}) = Cardinality(S) - 1
              /\ p \notin S => Cardinality(S) <= Cardinality(Callers) - 1
<1>1. IsFiniteSet(Callers) /\ Callers # {}
  BY RealtimeQueueAssumption
<1>2. /\ IsFiniteSet(S) /\ Cardinality(S) <= Cardinality(Callers)
      /\ Cardinality(S) \in Nat /\ Cardinality(Callers) \in Nat
  BY <1>1, FS_Subset, FS_CardinalityType
<1>3. Cardinality(Callers) # 0
  BY <1>1, FS_EmptySet
<1>4. ASSUME NEW p \in Callers
      PROVE  /\ Cardinality(S \cup {p}) <= Cardinality(S) + 1
             /\ p \in S => Cardinality(S \ {p}) = Cardinality(S) - 1
             /\ p \notin S => Cardinality(S) <= Cardinality(Callers) - 1
  <2>1. Cardinality(S \cup {p}) <= Cardinality(S) + 1
    <3>1. Cardinality(S \cup {p}) = IF p \in S THEN Cardinality(S) ELSE Cardinality(S) + 1
      BY <1>2, FS_AddElement
    <3> QED
      BY <1>2, <3>1
  <2>2. p \in S => Cardinality(S \ {p}) = Cardinality(S) - 1
    BY <1>2, FS_RemoveElement
  <2>3. ASSUME p \notin S
        PROVE  Cardinality(S) <= Cardinality(Callers) - 1
    <3>1. Cardinality(Callers \ {p}) = Cardinality(Callers) - 1
      BY <1>1, FS_RemoveElement
    <3>2. IsFiniteSet(Callers \ {p})
      BY <1>1, FS_RemoveElement
    <3>3. S \subseteq Callers \ {p}
      BY <2>3
    <3> QED
      BY <3>1, <3>2, <3>3, FS_Subset
  <2> QED
    BY <2>1, <2>2, <2>3
<1> QED
  BY <1>2, <1>3, <1>4

(* The senders differ at most by the producer that takes a step.           *)
LEMMA SendersOfStep ==
  ASSUME TypeOK, NEW p \in Callers,
         \A q \in Callers \ {p} : call'[q] = call[q]
  PROVE  /\ Sending \in SUBSET Callers /\ Sending' \in SUBSET Callers
         /\ Sending' \subseteq Sending \cup {p}
         /\ Cardinality(Sending') <= Cardinality(Sending) + 1
         /\ p \notin Sending' => /\ Sending' = Sending \ {p}
                                /\ Cardinality(Sending') <= Cardinality(Sending)
<1>1. /\ Sending \in SUBSET Callers /\ Sending' \in SUBSET Callers
      /\ Sending' \subseteq Sending \cup {p}
      /\ p \notin Sending' => Sending' = Sending \ {p}
  BY DEF Sending
<1>2. Cardinality(Sending') <= Cardinality(Sending) + 1
  <2>1. Sending \cup {p} \in SUBSET Callers
    BY <1>1
  <2>2. IsFiniteSet(Sending \cup {p}) /\ Cardinality(Sending \cup {p}) \in Nat
    BY <2>1, Counts
  <2>3. Cardinality(Sending') <= Cardinality(Sending \cup {p})
    BY <1>1, <2>2, FS_Subset
  <2>4. Cardinality(Sending \cup {p}) <= Cardinality(Sending) + 1
    BY <1>1, Counts
  <2>5. Cardinality(Sending) \in Nat /\ Cardinality(Sending') \in Nat
    BY <1>1, Counts
  <2> QED
    BY <2>2, <2>3, <2>4, <2>5
<1>3. ASSUME p \notin Sending'
      PROVE  Cardinality(Sending') <= Cardinality(Sending)
  <2>1. IsFiniteSet(Sending) /\ Sending' \subseteq Sending
    BY <1>1, <1>3, Counts
  <2> QED
    BY <2>1, FS_Subset
<1> QED
  BY <1>1, <1>2, <1>3

LEMMA EnqueueBacklog ==
  ASSUME TypeOK, BacklogInv, NEW p \in Callers, Enqueue(p)
  PROVE  BacklogInv'
<1> USE DEF Points
<1> DEFINE most == Cardinality(Callers)
           now  == Cardinality(Sending)
           next == Cardinality(Sending')
<1>t. TypeOK'
  BY EnqueueTypeOK
<1>0. /\ Waiting \in Nat /\ Waiting' \in Nat /\ allowed \in Nat \ {0} /\ allowed' \in Nat \ {0}
      /\ Depth \in Nat /\ Waiting <= Depth /\ Waiting' <= Depth /\ call[p] \in Calls
  BY <1>t, RealtimeQueueAssumption DEF TypeOK, Waiting
<1>m. Sending \in SUBSET Callers /\ Sending' \in SUBSET Callers
  BY DEF Sending
<1>n. most \in Nat \ {0} /\ now \in Nat /\ next \in Nat /\ now <= most /\ next <= most
  BY <1>m, Counts
<1>b. Waiting + now <= allowed + most - 1
  BY DEF BacklogInv, BacklogBounded
<1>l. call[p].limit <= allowed /\ call[p].limit \in Nat
  BY <1>0 DEF BacklogInv, LimitsAllowed, Calls
\* Any step of a call that goes on or returns, with its effect on the sum.
<1>a. ASSUME \A q \in Callers \ {p} : call'[q] = call[q],
             allowed' >= allowed, call'[p].limit <= allowed',
             call'[p].kind = "speed" => call'[p].limit = Depth,
             Waiting' + next <= allowed' + most - 1
      PROVE  BacklogInv'
  <2>1. ASSUME NEW q \in Callers
        PROVE  call'[q].limit <= allowed' /\ (call'[q].kind = "speed" => call'[q].limit = Depth)
    <3>1. CASE q = p
      BY <1>a, <3>1
    <3>2. CASE q # p
      <4>1. call'[q] = call[q] /\ call[q].limit <= allowed
        BY <1>a, <3>2 DEF BacklogInv, LimitsAllowed
      <4>2. call[q].limit \in Nat
        BY <1>0 DEF TypeOK, Calls
      <4>3. call'[q].limit <= allowed'
        BY <1>0, <1>a, <4>1, <4>2
      <4> QED
        BY <4>1, <4>3 DEF BacklogInv, LimitsAllowed
    <3> QED
      BY <3>1, <3>2
  <2> QED
    BY <1>a, <2>1 DEF BacklogInv, LimitsAllowed, BacklogBounded
\* A step after which the same limit and kind stand.
<1>c. ASSUME \A q \in Callers \ {p} : call'[q] = call[q], UNCHANGED allowed,
             call'[p].limit = call[p].limit, call'[p].kind = call[p].kind,
             Waiting' + next <= allowed + most - 1
      PROVE  BacklogInv'
  BY <1>0, <1>a, <1>c, <1>l DEF BacklogInv, LimitsAllowed
\* A step after which the call has ended.
<1>d. ASSUME call' = [call EXCEPT ![p] = Quiet], UNCHANGED allowed,
             Waiting' + next <= allowed + most - 1
      PROVE  BacklogInv'
  <2>1. call'[p] = Quiet /\ \A q \in Callers \ {p} : call'[q] = call[q]
    BY <1>d, Quiet_Call
  <2> QED
    BY <1>0, <1>a, <1>d, <2>1 DEF Quiet
\* A drop, or a queue found empty: one frame more about to be sent is paid for.
<1>e. ASSUME (Waiting > 0 /\ queue' = Tail(queue)) \/ (Waiting = 0 /\ queue' = queue),
             \A q \in Callers \ {p} : call'[q] = call[q]
      PROVE  Waiting' + next <= allowed + most - 1
  <2>1. CASE Waiting > 0 /\ queue' = Tail(queue)
    <3>1. Waiting' = Waiting - 1 /\ next <= now + 1
      BY <1>e, <2>1, Tail_Queue, SendersOfStep
    <3> QED
      BY <1>0, <1>n, <1>b, <3>1
  <2>2. CASE Waiting = 0 /\ queue' = queue
    <3>1. Waiting' = 0
      BY <2>2 DEF Waiting
    <3> QED
      BY <1>0, <1>n, <3>1
  <2> QED
    BY <1>e, <2>1, <2>2
<1>f. ASSUME Enqueues(p), UNCHANGED allowed, At(p, "send") \/ At(p, "resend")
      PROVE  BacklogInv'
  <2>1. call' = [call EXCEPT ![p] = Quiet] /\ Waiting' = Waiting + 1
    BY <1>f, Append_Queue DEF Enqueues
  <2>2. call'[p] = Quiet /\ \A q \in Callers \ {p} : call'[q] = call[q]
    BY <2>1, Quiet_Call
  <2>3. p \notin Sending'
    BY <2>2 DEF Sending, Quiet
  <2>4. CASE p \in Sending
    <3>1. next = now - 1
      BY <1>m, <2>2, <2>3, <2>4, SendersOfStep, Counts
    <3> QED
      BY <1>0, <1>n, <1>b, <1>d, <1>f, <2>1, <3>1
  <2>5. CASE call[p].kind = "speed"
    <3>1. next <= most - 1
      BY <1>m, <2>3, Counts
    <3>2. Depth <= allowed
      BY <1>l, <2>5 DEF BacklogInv, LimitsAllowed
    <3>3. Waiting' + next <= allowed + most - 1
      BY <1>0, <1>n, <3>1, <3>2
    <3> QED
      BY <1>d, <1>f, <2>1, <3>3
  <2>6. p \in Sending \/ call[p].kind = "speed"
    BY <1>0, <1>f DEF Sending, At, Calls, Kinds
  <2> QED
    BY <2>4, <2>5, <2>6
<1>g. ASSUME Returns(p), UNCHANGED <<queue, allowed>>
      PROVE  BacklogInv'
  <2>1. call' = [call EXCEPT ![p] = Quiet] /\ Waiting' = Waiting
    BY <1>g DEF Returns, Waiting
  <2>2. call'[p] = Quiet /\ \A q \in Callers \ {p} : call'[q] = call[q]
    BY <2>1, Quiet_Call
  <2>3. next <= now
    BY <2>2, SendersOfStep DEF Sending, Quiet
  <2> QED
    BY <1>0, <1>n, <1>b, <1>d, <1>g, <2>1, <2>3
<1>1. CASE SubmitVoice(p)
  <2>1. PICK limit \in PathLimits : Submits(p, "voice", "measure", limit)
    BY <1>1 DEF SubmitVoice
  <2>2. /\ call'[p].at = "measure" /\ call'[p].kind = "voice" /\ call'[p].limit = limit
        /\ \A q \in Callers \ {p} : call'[q] = call[q]
        /\ allowed' >= allowed /\ allowed' >= limit /\ limit \in Nat
    <3>1. limit \in 1 .. Depth /\ "voice" \in Kinds /\ "measure" \in Points
      BY LimitsInRange DEF Kinds
    <3>2. /\ call'[p] = [at |-> "measure", nr |-> submitted + 1, kind |-> "voice",
                         limit |-> limit, dropped |-> "no"]
          /\ \A q \in Callers \ {p} : call'[q] = call[q]
          /\ allowed' >= allowed /\ allowed' >= limit
      BY <2>1, <3>1, Submits_Call
    <3> QED
      BY <1>0, <3>1, <3>2
  <2>3. Waiting' = Waiting
    BY <2>1 DEF Submits, Waiting
  <2>4. next <= now
    BY <2>2, SendersOfStep DEF Sending
  <2>5. Waiting' + next <= allowed' + most - 1
    BY <1>0, <1>n, <1>b, <2>2, <2>3, <2>4
  <2> QED
    BY <1>0, <1>a, <2>2, <2>5
<1>2. CASE SubmitSpeed(p)
  <2>1. Submits(p, "speed", "send", Depth) /\ Depth \in 1 .. Depth
    BY <1>2, RealtimeQueueAssumption DEF SubmitSpeed
  <2>2. /\ call'[p].kind = "speed" /\ call'[p].limit = Depth
        /\ \A q \in Callers \ {p} : call'[q] = call[q]
        /\ allowed' >= allowed /\ allowed' >= Depth
    <3>1. "speed" \in Kinds /\ "send" \in Points
      BY DEF Kinds
    <3>2. /\ call'[p] = [at |-> "send", nr |-> submitted + 1, kind |-> "speed",
                         limit |-> Depth, dropped |-> "no"]
          /\ \A q \in Callers \ {p} : call'[q] = call[q]
          /\ allowed' >= allowed /\ allowed' >= Depth
      BY <2>1, <3>1, Submits_Call
    <3> QED
      BY <3>2
  <2>3. Waiting' = Waiting
    BY <2>1 DEF Submits, Waiting
  <2>4. next <= now
    BY <2>2, SendersOfStep DEF Sending
  <2>5. Waiting' + next <= allowed' + most - 1
    BY <1>0, <1>n, <1>b, <2>2, <2>3, <2>4
  <2> QED
    BY <1>0, <1>a, <2>2, <2>5
<1>3. CASE Measure(p)
  <2>1. UNCHANGED <<queue, allowed>> /\ Waiting' = Waiting
    BY <1>3 DEF Measure, Waiting
  <2>2. PICK where \in {"drop", "send"} :
          Goes(p, where) /\ (where = "send" => ~(Waiting >= call[p].limit))
    BY <1>3 DEF Measure
  <2>3. /\ call'[p].at = where /\ call'[p].limit = call[p].limit
        /\ call'[p].kind = call[p].kind
        /\ \A q \in Callers \ {p} : call'[q] = call[q]
    BY <2>2, Goes_Call
  <2>4. CASE where = "send"
    <3>1. Waiting < call[p].limit
      BY <1>0, <1>l, <2>2, <2>4
    <3>2. Waiting' + next <= allowed + most - 1
      BY <1>0, <1>n, <1>l, <2>1, <3>1
    <3> QED
      BY <1>c, <2>1, <2>3, <3>2
  <2>5. CASE where = "drop"
    <3>1. next <= now
      BY <2>3, <2>5, SendersOfStep DEF Sending
    <3>2. Waiting' + next <= allowed + most - 1
      BY <1>0, <1>n, <1>b, <2>1, <3>1
    <3> QED
      BY <1>c, <2>1, <2>3, <3>2
  <2> QED
    BY <2>4, <2>5
<1>4. CASE DropOldest(p)
  <2>1. /\ (Waiting > 0 /\ queue' = Tail(queue)) \/ (Waiting = 0 /\ queue' = queue)
        /\ Drops(p, "send") \/ Goes(p, "send")
        /\ UNCHANGED allowed
    BY <1>4 DEF DropOldest
  <2>2. /\ call'[p].limit = call[p].limit /\ call'[p].kind = call[p].kind
        /\ \A q \in Callers \ {p} : call'[q] = call[q]
    BY <2>1, Goes_Call, Drops_Call
  <2> QED
    BY <1>c, <1>e, <2>1, <2>2
<1>5. CASE Send(p)
  <2>0. At(p, "send") /\ UNCHANGED allowed
    BY <1>5 DEF Send
  <2>1. CASE Goes(p, "late") /\ UNCHANGED <<queue, raced>>
    <3>1. /\ call'[p].at = "late" /\ call'[p].limit = call[p].limit
          /\ call'[p].kind = call[p].kind
          /\ \A q \in Callers \ {p} : call'[q] = call[q]
      BY <2>1, Goes_Call
    <3>2. next <= now
      BY <3>1, SendersOfStep DEF Sending
    <3>3. Waiting' = Waiting
      BY <2>1 DEF Waiting
    <3>4. Waiting' + next <= allowed + most - 1
      BY <1>0, <1>n, <1>b, <3>2, <3>3
    <3> QED
      BY <1>c, <2>0, <3>1, <3>4
  <2> QED
    BY <1>5, <1>f, <1>g, <2>0, <2>1 DEF Send
<1>6. CASE DropLate(p)
  <2>1. CASE Waiting > 0 /\ Drops(p, "resend") /\ queue' = Tail(queue)
    <3>1. /\ call'[p].limit = call[p].limit /\ call'[p].kind = call[p].kind
          /\ \A q \in Callers \ {p} : call'[q] = call[q]
      BY <2>1, Drops_Call
    <3>2. UNCHANGED allowed
      BY <1>6 DEF DropLate
    <3> QED
      BY <1>c, <1>e, <2>1, <3>1, <3>2
  <2> QED
    BY <1>6, <1>g, <2>1 DEF DropLate
<1>7. CASE Resend(p)
  BY <1>7, <1>f, <1>g DEF Resend
<1> QED
  BY <1>1, <1>2, <1>3, <1>4, <1>5, <1>6, <1>7 DEF Enqueue

LEMMA WorkerBacklog ==
  ASSUME TypeOK, BacklogInv, TakeFrame \/ Transmit
  PROVE  BacklogInv'
<1>1. UNCHANGED <<call, allowed>>
  BY DEF TakeFrame, Transmit
<1>2. Waiting' <= Waiting /\ Waiting \in Nat /\ Waiting' \in Nat
  <2>0. Waiting \in Nat
    BY DEF TypeOK, Waiting
  <2>1. CASE TakeFrame
    <3>1. Waiting > 0 /\ queue' = Tail(queue)
      BY <2>1 DEF TakeFrame
    <3>2. Waiting' = Waiting - 1
      BY <3>1, Tail_Queue
    <3> QED
      BY <2>0, <3>1, <3>2
  <2>2. CASE Transmit
    <3>1. queue' = queue
      BY <2>2 DEF Transmit, Sent, Retry, GiveUp
    <3> QED
      BY <2>0, <3>1 DEF Waiting
  <2> QED
    BY <2>1, <2>2
<1>3. Sending' = Sending /\ Cardinality(Sending) \in Nat /\ Cardinality(Callers) \in Nat
  <2>1. Sending \in SUBSET Callers
    BY DEF Sending
  <2> QED
    BY <1>1, <2>1, Counts DEF Sending
<1>4. LimitsAllowed'
  BY <1>1 DEF BacklogInv, LimitsAllowed
<1>5. Waiting + Cardinality(Sending) <= allowed + Cardinality(Callers) - 1
      /\ allowed \in Nat
  BY DEF BacklogInv, BacklogBounded, TypeOK
<1>6. Waiting' + Cardinality(Sending) <= allowed + Cardinality(Callers) - 1
  BY <1>2, <1>3, <1>5
<1>7. BacklogBounded'
  BY <1>1, <1>3, <1>6 DEF BacklogBounded
<1> QED
  BY <1>4, <1>7 DEF BacklogInv

(* However the tasks interleave, the backlog exceeds the largest limit in  *)
(* use by at most one frame for each other task.                           *)
THEOREM BacklogIsBounded == Spec => []BacklogBounded
<1>1. Init => BacklogInv
  <2> SUFFICES ASSUME Init PROVE BacklogInv
    OBVIOUS
  <2>1. \A p \in Callers : call[p] = Quiet
    BY DEF Init
  <2>2. LimitsAllowed
    BY <2>1, RealtimeQueueAssumption DEF LimitsAllowed, Quiet, Init
  <2>3. Sending = {}
    BY <2>1 DEF Sending, Quiet
  <2>4. Waiting = 0 /\ Cardinality(Sending) = 0 /\ allowed \in Nat \ {0}
    BY <2>3, FS_EmptySet, RealtimeQueueAssumption DEF Waiting, Init
  <2>5. Cardinality(Callers) \in Nat \ {0}
    BY Counts
  <2> QED
    BY <2>2, <2>4, <2>5 DEF BacklogInv, BacklogBounded
<1>2. TypeOK /\ BacklogInv /\ [Next]_vars => BacklogInv'
  <2> SUFFICES ASSUME TypeOK, BacklogInv, [Next]_vars PROVE BacklogInv'
    OBVIOUS
  <2>1. CASE UNCHANGED vars
    BY <2>1 DEF BacklogInv, LimitsAllowed, BacklogBounded, Sending, vars, Waiting
  <2> QED
    BY <2>1, EnqueueBacklog, WorkerBacklog DEF Next
<1>3. BacklogInv => BacklogBounded
  BY DEF BacklogInv
<1> QED
  BY <1>1, <1>2, <1>3, TypeCorrect, PTL DEF Spec

-----------------------------------------------------------------------------
(* The order of the streams *)

(* A frame that is still in a call is newer than all of its task, and none *)
(* is newer than the last submission.                                      *)
CallsNewest ==
  \A p \in Callers : call[p].at # "idle" =>
    /\ call[p].nr <= submitted
    /\ aired[p] < call[p].nr
    /\ \A i \in 1 .. Waiting : queue[i].from = p => queue[i].nr < call[p].nr
    /\ tries > 0 /\ item.from = p => item.nr < call[p].nr

NoneNewer ==
  /\ \A i \in 1 .. Waiting : queue[i].nr <= submitted
  /\ tries > 0 => item.nr <= submitted
  /\ \A p \in Callers : aired[p] <= submitted

OrderInv == StreamsInOrder /\ CallsNewest /\ NoneNewer

LEMMA Values ==
  ASSUME TypeOK
  PROVE  /\ Waiting \in Nat /\ submitted \in Nat /\ tries \in Nat
         /\ \A i \in 1 .. Waiting : queue[i] \in Frames
         /\ \A p \in Callers : call[p] \in Calls /\ aired[p] \in Nat /\ call[p].nr \in Nat
         /\ item \in Frames
         /\ \A f \in Frames : f.nr \in Nat /\ f.from \in Callers
<1>1. /\ Waiting \in Nat
      /\ \A i \in 1 .. Waiting : queue[i] \in Frames
  BY DEF TypeOK, Waiting
<1>2. submitted \in Nat /\ \A p \in Callers : aired[p] \in Nat
  BY RealtimeQueueAssumption DEF TypeOK, Numbers
<1>3. \A p \in Callers : call[p] \in Calls /\ call[p].nr \in Nat
  BY RealtimeQueueAssumption DEF TypeOK, Numbers, Calls
<1>4. item \in Frames /\ \A f \in Frames : f.nr \in Nat /\ f.from \in Callers
  BY RealtimeQueueAssumption DEF TypeOK, Numbers, Frames
<1>5. tries \in Nat
  BY <1>4, RealtimeQueueAssumption DEF TypeOK, Attempts
<1> QED
  BY <1>1, <1>2, <1>3, <1>4, <1>5

(* The order survives when the oldest frame leaves or nothing changes.     *)
LEMMA ShrinkOrder ==
  ASSUME TypeOK, OrderInv, UNCHANGED <<worker, submitted>>,
         (Waiting > 0 /\ queue' = Tail(queue)) \/ queue' = queue,
         \A p \in Callers : call'[p].at # "idle" =>
            call[p].at # "idle" /\ call'[p].nr = call[p].nr
  PROVE  OrderInv'
<1>0. UNCHANGED <<item, tries, aired, submitted>>
  BY DEF worker
<1>1. PICK d \in {0, 1} : /\ Waiting' = Waiting - d
                         /\ \A i \in 1 .. Waiting' :
                              i + d \in 1 .. Waiting /\ queue'[i] = queue[i + d]
  <2>1. CASE Waiting > 0 /\ queue' = Tail(queue)
    BY <2>1, Tail_Queue
  <2>2. CASE queue' = queue
    <3>1. Waiting' = Waiting - 0 /\ Waiting \in Nat
      BY <2>2, Values DEF Waiting
    <3>2. \A i \in 1 .. Waiting' : i + 0 \in 1 .. Waiting /\ queue'[i] = queue[i + 0]
      BY <2>2, <3>1
    <3> QED
      BY <3>1, <3>2
  <2> QED
    BY <2>1, <2>2
<1>2. Waiting \in Nat
  BY Values
<1>3. StreamsInOrder'
  <2>1. ASSUME NEW i \in 1 .. Waiting', NEW j \in 1 .. Waiting', i < j,
               queue'[i].from = queue'[j].from
        PROVE  queue'[i].nr < queue'[j].nr
    <3>1. /\ i + d \in 1 .. Waiting /\ j + d \in 1 .. Waiting /\ i + d < j + d
          /\ queue'[i] = queue[i + d] /\ queue'[j] = queue[j + d]
      BY <1>1, <1>2, <2>1
    <3> QED
      BY <2>1, <3>1 DEF OrderInv, StreamsInOrder
  <2>2. ASSUME NEW i \in 1 .. Waiting'
        PROVE  /\ aired'[queue'[i].from] < queue'[i].nr
               /\ tries' > 0 /\ item'.from = queue'[i].from => item'.nr < queue'[i].nr
    BY <1>0, <1>1, <2>2 DEF OrderInv, StreamsInOrder
  <2> QED
    BY <1>0, <2>1, <2>2 DEF OrderInv, StreamsInOrder
<1>4. CallsNewest'
  BY <1>0, <1>1 DEF OrderInv, CallsNewest
<1>5. NoneNewer'
  BY <1>0, <1>1 DEF OrderInv, NoneNewer
<1> QED
  BY <1>3, <1>4, <1>5 DEF OrderInv

LEMMA SubmitOrder ==
  ASSUME TypeOK, OrderInv, NEW p \in Callers, NEW kind \in Kinds,
         NEW where \in Points, NEW limit \in 1 .. Depth, Submits(p, kind, where, limit)
  PROVE  OrderInv'
<1>1. /\ call'[p].nr = submitted + 1
      /\ \A q \in Callers \ {p} : call'[q] = call[q]
      /\ submitted' = submitted + 1
  <2>1. /\ call'[p] = [at |-> where, nr |-> submitted + 1, kind |-> kind,
                       limit |-> limit, dropped |-> "no"]
        /\ \A q \in Callers \ {p} : call'[q] = call[q]
        /\ submitted' = submitted + 1
    BY Submits_Call
  <2> QED
    BY <2>1
<1>2. UNCHANGED <<queue, item, tries, aired>> /\ Waiting' = Waiting
  BY DEF Submits, worker, Waiting
<1>3. StreamsInOrder'
  BY <1>2 DEF OrderInv, StreamsInOrder
<1>4. NoneNewer'
  BY <1>1, <1>2, Values DEF OrderInv, NoneNewer
<1>5. ASSUME NEW q \in Callers, call'[q].at # "idle"
      PROVE  /\ call'[q].nr <= submitted'
             /\ aired'[q] < call'[q].nr
             /\ \A i \in 1 .. Waiting' : queue'[i].from = q => queue'[i].nr < call'[q].nr
             /\ tries' > 0 /\ item'.from = q => item'.nr < call'[q].nr
  <2>1. CASE q = p
    BY <1>1, <1>2, <2>1, Values DEF OrderInv, NoneNewer
  <2>2. CASE q # p
    <3>1. call'[q] = call[q]
      BY <1>1, <2>2
    <3> QED
      BY <1>1, <1>2, <1>5, <3>1, Values DEF OrderInv, CallsNewest
  <2> QED
    BY <2>1, <2>2
<1>6. CallsNewest'
  BY <1>5 DEF CallsNewest
<1> QED
  BY <1>3, <1>4, <1>6 DEF OrderInv

LEMMA AppendOrder ==
  ASSUME TypeOK, OrderInv, NEW p \in Callers, call[p].at # "idle",
         Enqueues(p), UNCHANGED <<worker, submitted>>
  PROVE  OrderInv'
<1> DEFINE new == FrameOf(p)
<1>0. UNCHANGED <<item, tries, aired, submitted>>
  BY DEF worker
<1>1. new.nr = call[p].nr /\ new.from = p
  BY DEF FrameOf, Frame
<1>2. /\ Waiting' = Waiting + 1 /\ Waiting \in Nat
      /\ \A i \in 1 .. Waiting : queue'[i] = queue[i]
      /\ queue'[Waiting'] = new
  BY Append_Queue
<1>3. call'[p].at = "idle" /\ \A q \in Callers \ {p} : call'[q] = call[q]
  BY Quiet_Call DEF Enqueues, Quiet
<1>4. \A i \in 1 .. Waiting' : i \in 1 .. Waiting \/ i = Waiting'
  BY <1>2
<1>5. StreamsInOrder'
  <2>1. ASSUME NEW i \in 1 .. Waiting', NEW j \in 1 .. Waiting', i < j,
               queue'[i].from = queue'[j].from
        PROVE  queue'[i].nr < queue'[j].nr
    <3>1. i \in 1 .. Waiting
      BY <1>2, <2>1
    <3>2. CASE j \in 1 .. Waiting
      BY <1>2, <2>1, <3>1, <3>2 DEF OrderInv, StreamsInOrder
    <3>3. CASE j = Waiting'
      BY <1>1, <1>2, <2>1, <3>1, <3>3 DEF OrderInv, CallsNewest
    <3> QED
      BY <1>4, <3>2, <3>3
  <2>2. ASSUME NEW i \in 1 .. Waiting'
        PROVE  /\ aired'[queue'[i].from] < queue'[i].nr
               /\ tries' > 0 /\ item'.from = queue'[i].from => item'.nr < queue'[i].nr
    <3>1. CASE i \in 1 .. Waiting
      BY <1>0, <1>2, <3>1 DEF OrderInv, StreamsInOrder
    <3>2. CASE i = Waiting'
      BY <1>0, <1>1, <1>2, <3>2 DEF OrderInv, CallsNewest
    <3> QED
      BY <1>4, <3>1, <3>2
  <2> QED
    BY <1>0, <2>1, <2>2 DEF OrderInv, StreamsInOrder
<1>6. ASSUME NEW q \in Callers, call'[q].at # "idle"
      PROVE  /\ call'[q].nr <= submitted'
             /\ aired'[q] < call'[q].nr
             /\ \A i \in 1 .. Waiting' : queue'[i].from = q => queue'[i].nr < call'[q].nr
             /\ tries' > 0 /\ item'.from = q => item'.nr < call'[q].nr
  <2>1. q # p /\ call'[q] = call[q]
    BY <1>3, <1>6
  <2>2. ASSUME NEW i \in 1 .. Waiting', queue'[i].from = q
        PROVE  queue'[i].nr < call'[q].nr
    <3>1. i \in 1 .. Waiting
      BY <1>1, <1>2, <1>4, <2>1, <2>2
    <3> QED
      BY <1>2, <1>6, <2>1, <2>2, <3>1 DEF OrderInv, CallsNewest
  <2> QED
    BY <1>0, <1>6, <2>1, <2>2 DEF OrderInv, CallsNewest
<1>7. CallsNewest'
  BY <1>6 DEF CallsNewest
<1>8. NoneNewer'
  <2>1. new.nr <= submitted
    BY <1>1 DEF OrderInv, CallsNewest
  <2> QED
    BY <1>0, <1>2, <1>4, <2>1 DEF OrderInv, NoneNewer
<1> QED
  BY <1>5, <1>7, <1>8 DEF OrderInv

LEMMA EnqueueOrder ==
  ASSUME TypeOK, OrderInv, NEW p \in Callers, Enqueue(p)
  PROVE  OrderInv'
<1> USE DEF Points
<1>a. ASSUME NEW where \in Points, Goes(p, where) \/ Drops(p, where), call[p].at # "idle",
             UNCHANGED <<worker, submitted>>,
             (Waiting > 0 /\ queue' = Tail(queue)) \/ queue' = queue
      PROVE  OrderInv'
  <2>1. call'[p].nr = call[p].nr /\ \A q \in Callers \ {p} : call'[q] = call[q]
    BY <1>a, Goes_Call, Drops_Call
  <2>2. \A q \in Callers : call'[q].at # "idle" => call[q].at # "idle" /\ call'[q].nr = call[q].nr
    BY <1>a, <2>1
  <2> QED
    BY <1>a, <2>2, ShrinkOrder
<1>b. ASSUME Returns(p), UNCHANGED <<queue, worker, submitted>>
      PROVE  OrderInv'
  <2>1. call'[p].at = "idle" /\ \A q \in Callers \ {p} : call'[q] = call[q]
    BY <1>b, Quiet_Call DEF Returns, Quiet
  <2>2. \A q \in Callers : call'[q].at # "idle" => call[q].at # "idle" /\ call'[q].nr = call[q].nr
    BY <2>1
  <2> QED
    BY <1>b, <2>2, ShrinkOrder
<1>1. CASE SubmitVoice(p)
  <2>1. PICK limit \in PathLimits : Submits(p, "voice", "measure", limit)
    BY <1>1 DEF SubmitVoice
  <2>2. limit \in 1 .. Depth /\ "voice" \in Kinds /\ "measure" \in Points
    BY LimitsInRange DEF Kinds
  <2> QED
    BY <2>1, <2>2, SubmitOrder
<1>2. CASE SubmitSpeed(p)
  <2>1. Submits(p, "speed", "send", Depth)
    BY <1>2 DEF SubmitSpeed
  <2>2. Depth \in 1 .. Depth /\ "speed" \in Kinds /\ "send" \in Points
    BY RealtimeQueueAssumption DEF Kinds
  <2> QED
    BY <2>1, <2>2, SubmitOrder
<1>3. CASE Measure(p)
  <2>1. PICK where \in {"drop", "send"} : Goes(p, where)
    BY <1>3 DEF Measure
  <2>2. call[p].at # "idle" /\ UNCHANGED <<worker, submitted, queue>>
    BY <1>3 DEF Measure, At
  <2> QED
    BY <1>a, <2>1, <2>2
<1>4. CASE DropOldest(p)
  <2>1. /\ (Waiting > 0 /\ queue' = Tail(queue)) \/ queue' = queue
        /\ Goes(p, "send") \/ Drops(p, "send")
        /\ call[p].at # "idle" /\ UNCHANGED <<worker, submitted>>
    BY <1>4 DEF DropOldest, At
  <2> QED
    BY <1>a, <2>1
<1>5. CASE Send(p)
  <2>1. call[p].at # "idle" /\ UNCHANGED <<worker, submitted>>
    BY <1>5 DEF Send, At
  <2>2. CASE Enqueues(p)
    BY <2>1, <2>2, AppendOrder
  <2>3. CASE Goes(p, "late") /\ UNCHANGED queue
    BY <1>a, <2>1, <2>3
  <2>4. CASE Returns(p) /\ UNCHANGED queue
    BY <1>b, <2>1, <2>4
  <2> QED
    BY <1>5, <2>2, <2>3, <2>4 DEF Send
<1>6. CASE DropLate(p)
  <2>1. call[p].at # "idle" /\ UNCHANGED <<worker, submitted>>
    BY <1>6 DEF DropLate, At
  <2>2. CASE Waiting > 0 /\ Drops(p, "resend") /\ queue' = Tail(queue)
    BY <1>a, <2>1, <2>2
  <2>3. CASE Returns(p) /\ UNCHANGED queue
    BY <1>b, <2>1, <2>3
  <2> QED
    BY <1>6, <2>2, <2>3 DEF DropLate
<1>7. CASE Resend(p)
  <2>1. call[p].at # "idle" /\ UNCHANGED <<worker, submitted>>
    BY <1>7 DEF Resend, At
  <2>2. CASE Enqueues(p)
    BY <2>1, <2>2, AppendOrder
  <2>3. CASE Returns(p) /\ UNCHANGED queue
    BY <1>b, <2>1, <2>3
  <2> QED
    BY <1>7, <2>2, <2>3 DEF Resend
<1> QED
  BY <1>1, <1>2, <1>3, <1>4, <1>5, <1>6, <1>7 DEF Enqueue

LEMMA TakeOrder ==
  ASSUME TypeOK, OrderInv, TakeFrame
  PROVE  OrderInv'
<1>0. UNCHANGED <<call, aired, submitted>> /\ tries' = 1
  BY DEF TakeFrame
<1>1. /\ Waiting' = Waiting - 1 /\ Waiting \in Nat /\ 1 \in 1 .. Waiting
      /\ \A i \in 1 .. Waiting' : i + 1 \in 1 .. Waiting /\ 1 < i + 1 /\ queue'[i] = queue[i + 1]
  <2>1. Waiting > 0 /\ queue' = Tail(queue)
    BY DEF TakeFrame
  <2>2. /\ Waiting' = Waiting - 1 /\ Waiting \in Nat
        /\ \A i \in 1 .. Waiting' : i + 1 \in 1 .. Waiting /\ queue'[i] = queue[i + 1]
    BY <2>1, Tail_Queue
  <2>3. 1 \in 1 .. Waiting
    BY <2>1, <2>2
  <2>4. \A i \in 1 .. Waiting' : 1 < i + 1
    OBVIOUS
  <2> QED
    BY <2>2, <2>3, <2>4
<1>2. item' = queue[1]
  BY DEF TakeFrame, TypeOK, Waiting
<1>3. StreamsInOrder'
  <2>1. ASSUME NEW i \in 1 .. Waiting', NEW j \in 1 .. Waiting', i < j,
               queue'[i].from = queue'[j].from
        PROVE  queue'[i].nr < queue'[j].nr
    <3>1. /\ i + 1 \in 1 .. Waiting /\ j + 1 \in 1 .. Waiting /\ i + 1 < j + 1
          /\ queue'[i] = queue[i + 1] /\ queue'[j] = queue[j + 1]
      BY <1>1, <2>1
    <3> QED
      BY <2>1, <3>1 DEF OrderInv, StreamsInOrder
  <2>2. ASSUME NEW i \in 1 .. Waiting'
        PROVE  /\ aired'[queue'[i].from] < queue'[i].nr
               /\ item'.from = queue'[i].from => item'.nr < queue'[i].nr
    BY <1>0, <1>1, <1>2, <2>2 DEF OrderInv, StreamsInOrder
  <2>3. aired'[item'.from] < item'.nr
    BY <1>0, <1>1, <1>2 DEF OrderInv, StreamsInOrder
  <2> QED
    BY <2>1, <2>2, <2>3 DEF StreamsInOrder
<1>4. CallsNewest'
  BY <1>0, <1>1, <1>2 DEF OrderInv, CallsNewest
<1>5. NoneNewer'
  BY <1>0, <1>1, <1>2 DEF OrderInv, NoneNewer
<1> QED
  BY <1>3, <1>4, <1>5 DEF OrderInv

LEMMA TransmitOrder ==
  ASSUME TypeOK, OrderInv, Transmit
  PROVE  OrderInv'
<1>0. UNCHANGED <<queue, item, call, submitted>> /\ tries > 0 /\ Waiting' = Waiting
  BY DEF Transmit, Sent, Retry, GiveUp, Waiting
<1>1. CASE Sent
  <2>1. tries' = 0 /\ aired' = [aired EXCEPT ![item.from] = item.nr]
    BY <1>1 DEF Sent
  <2>2. \A p \in Callers : aired'[p] = IF p = item.from THEN item.nr ELSE aired[p]
    BY <2>1 DEF TypeOK
  <2>3. ~(tries' > 0)
    BY <2>1
  <2>4. ASSUME NEW i \in 1 .. Waiting'
        PROVE  aired'[queue'[i].from] < queue'[i].nr
    <3>1. queue[i].from \in Callers
      BY <1>0, <2>4, Values
    <3> QED
      BY <1>0, <2>2, <2>4, <3>1 DEF OrderInv, StreamsInOrder
  <2>5. StreamsInOrder'
    BY <1>0, <2>3, <2>4 DEF OrderInv, StreamsInOrder
  <2>6. CallsNewest'
    BY <1>0, <2>2, <2>3 DEF OrderInv, CallsNewest
  <2>7. NoneNewer'
    BY <1>0, <2>2, <2>3 DEF OrderInv, NoneNewer
  <2> QED
    BY <2>5, <2>6, <2>7 DEF OrderInv
<1>2. CASE Retry \/ GiveUp
  <2>1. UNCHANGED aired
    BY <1>2 DEF Retry, GiveUp
  <2> QED
    BY <1>0, <2>1 DEF OrderInv, StreamsInOrder, CallsNewest, NoneNewer
<1> QED
  BY <1>1, <1>2 DEF Transmit

(* Every stream goes out in the order of its submission and no frame goes  *)
(* out twice, through every mix of drops, refusals and retries.            *)
THEOREM StreamsStayInOrder == Spec => []StreamsInOrder
<1>1. Init => OrderInv
  <2> SUFFICES ASSUME Init PROVE OrderInv
    OBVIOUS
  <2>1. Waiting = 0 /\ tries = 0 /\ submitted = 0
    BY DEF Init, Waiting
  <2>2. \A p \in Callers : aired[p] = 0 /\ call[p].at = "idle"
    BY DEF Init, Quiet
  <2> QED
    BY <2>1, <2>2 DEF OrderInv, StreamsInOrder, CallsNewest, NoneNewer
<1>2. TypeOK /\ OrderInv /\ [Next]_vars => OrderInv'
  <2> SUFFICES ASSUME TypeOK, OrderInv, [Next]_vars PROVE OrderInv'
    OBVIOUS
  <2>1. CASE UNCHANGED vars
    BY <2>1 DEF OrderInv, StreamsInOrder, CallsNewest, NoneNewer, vars, worker, Waiting
  <2> QED
    BY <2>1, EnqueueOrder, TakeOrder, TransmitOrder DEF Next
<1>3. OrderInv => StreamsInOrder
  BY DEF OrderInv
<1> QED
  BY <1>1, <1>2, <1>3, TypeCorrect, PTL DEF Spec

-----------------------------------------------------------------------------
(* Relaying.  The hop relayed last for a message is the best hop of the     *)
(* one entry that remembers it.                                             *)

Known == [slot : {"valid"}, id : Ids, best : Hops]
Relayed == [copy : {"relayed"}, hop : Hops]

RelayTypeOK ==
  /\ seen \in [Relay!Slots -> Known \cup {Relay!Free}]
  /\ replace \in Relay!Slots
  /\ relayed \in [Ids -> Relayed \cup {Relay!NoHop}]

OneEntry ==
  \A s, r \in Relay!Slots, i \in Ids : Relay!Holds(s, i) /\ Relay!Holds(r, i) => s = r

BestIsLast ==
  \A i \in Ids : relayed[i].copy = "relayed" =>
    \E s \in Relay!Slots : Relay!Holds(s, i) /\ seen[s].best = relayed[i].hop

RelayInv == RelayTypeOK /\ OneEntry /\ BestIsLast

LEMMA HopsCount ==
  ASSUME RelayInv
  PROVE  \A j \in Ids : relayed[j].copy = "relayed" => relayed[j].hop \in Nat
<1> SUFFICES ASSUME NEW j \in Ids, relayed[j].copy = "relayed"
             PROVE  relayed[j].hop \in Nat
  OBVIOUS
<1>1. relayed[j] \in Relayed \cup {Relay!NoHop}
  BY DEF RelayInv, RelayTypeOK
<1>2. relayed[j] \in Relayed
  BY <1>1 DEF Relay!NoHop
<1> QED
  BY <1>2, MeshAssumption DEF Relayed

LEMMA RelayInit == Relay!Init => RelayInv
<1> SUFFICES ASSUME Relay!Init PROVE RelayInv
  OBVIOUS
<1>1. 0 \in Relay!Slots
  BY MeshAssumption DEF Relay!Slots
<1>2. RelayTypeOK
  BY <1>1 DEF Relay!Init, RelayTypeOK
<1>3. OneEntry
  BY DEF Relay!Init, OneEntry, Relay!Holds, Relay!Free
<1>4. BestIsLast
  BY DEF Relay!Init, BestIsLast, Relay!NoHop
<1> QED
  BY <1>2, <1>3, <1>4 DEF RelayInv

(* An entry is written: only its slot changes, and it holds the message.   *)
Written(s, i, hop) ==
  /\ seen' = [seen EXCEPT ![s] = Relay!Entry(i, hop)]
  /\ replace' \in Relay!Slots
  /\ \A r \in Relay!Slots : Relay!Holds(r, i) => r = s

(* A copy goes on: it has no key or its entry is written, and a copy that   *)
(* was relayed before, with a hop that binds, had no lower one.             *)
LEMMA AdmitsWrites ==
  ASSUME RelayInv, NEW i \in Ids \cup {NoId}, NEW hop \in Hops, Relay!Admits(i, hop)
  PROVE  \/ i = NoId /\ UNCHANGED <<seen, replace>>
         \/ /\ i \in Ids
            /\ \E s \in Relay!Slots : Written(s, i, hop)
            /\ relayed[i].copy = "relayed" /\ relayed[i].hop # 0
               => hop <= relayed[i].hop
<1>1. CASE i = NoId
  BY <1>1 DEF Relay!Admits
<1>2. CASE i # NoId
  <2> USE <1>2
  <2>1. i \in Ids
    OBVIOUS
  <2>2. ASSUME NEW s \in Relay!Slots, Relay!Holds(s, i), Relay!Keeps(s, hop),
               seen' = [seen EXCEPT ![s] = Relay!Entry(i, hop)], UNCHANGED replace
        PROVE  /\ Written(s, i, hop)
               /\ relayed[i].copy = "relayed" /\ relayed[i].hop # 0
                  => hop <= relayed[i].hop
    <3>1. \A r \in Relay!Slots : Relay!Holds(r, i) => r = s
      BY <2>1, <2>2 DEF RelayInv, OneEntry
    <3>2. Written(s, i, hop)
      BY <2>2, <3>1 DEF Written, RelayInv, RelayTypeOK
    <3>3. ASSUME relayed[i].copy = "relayed" PROVE seen[s].best = relayed[i].hop
      BY <2>1, <3>1, <3>3 DEF RelayInv, BestIsLast
    <3>4. ASSUME relayed[i].copy = "relayed", relayed[i].hop # 0
          PROVE  hop <= relayed[i].hop
      BY <2>2, <3>3, <3>4 DEF Relay!Keeps
    <3> QED
      BY <3>2, <3>4
  <2>3. ASSUME ~Relay!Remembered(i), Relay!Remember(i, hop)
        PROVE  /\ \E s \in Relay!Slots : Written(s, i, hop)
               /\ relayed[i].copy = "relayed" /\ relayed[i].hop # 0
                  => hop <= relayed[i].hop
    <3>1. replace \in Relay!Slots /\ replace' \in Relay!Slots
      BY <2>3, MeshAssumption DEF Relay!Remember, Relay!Slots, RelayInv, RelayTypeOK
    <3>2. Written(replace, i, hop)
      BY <2>3, <3>1 DEF Relay!Remember, Relay!Remembered, Written
    <3>3. relayed[i].copy # "relayed"
      BY <2>1, <2>3 DEF RelayInv, BestIsLast, Relay!Remembered
    <3> QED
      BY <3>1, <3>2, <3>3
  <2> QED
    BY <2>1, <2>2, <2>3 DEF Relay!Admits
<1> QED
  BY <1>1, <1>2

LEMMA RelaysCopy ==
  ASSUME RelayInv, NEW i \in Ids \cup {NoId}, NEW hop \in Hops,
         Relay!Admits(i, hop), Relay!Noted(i, hop)
  PROVE  /\ RelayInv'
         /\ \A j \in Ids :
              /\ relayed[j].copy = "relayed" /\ relayed[j].hop # 0
              /\ relayed'[j].copy = "relayed"
              => relayed'[j].hop <= relayed[j].hop
<1>t. RelayTypeOK /\ OneEntry /\ BestIsLast
  BY DEF RelayInv
<1>n. \A j \in Ids :
        relayed'[j] = IF ~(\E s \in Relay!Slots : Relay!Holds(s, j)') THEN Relay!NoHop
                      ELSE IF j = i THEN Relay!Copy(hop) ELSE relayed[j]
  BY DEF Relay!Noted, Relay!Holds
<1>r. relayed' \in [Ids -> Relayed \cup {Relay!NoHop}]
  <2>1. relayed' = [j \in Ids |-> relayed'[j]]
    BY DEF Relay!Noted
  <2>2. \A j \in Ids : relayed'[j] \in Relayed \cup {Relay!NoHop}
    BY <1>t, <1>n DEF Relayed, Relay!Copy, RelayTypeOK
  <2> QED
    BY <2>1, <2>2
<1>1. CASE i = NoId /\ UNCHANGED <<seen, replace>>
  <2>1. \A j \in Ids : j # i
    BY <1>1, MeshAssumption
  <2>2. \A j \in Ids, s \in Relay!Slots : Relay!Holds(s, j)' <=> Relay!Holds(s, j)
    BY <1>1 DEF Relay!Holds
  <2>3. \A j \in Ids : relayed'[j].copy = "relayed" => relayed'[j] = relayed[j]
    BY <1>n, <2>1 DEF Relay!NoHop
  <2>4. RelayTypeOK' /\ OneEntry'
    BY <1>1, <1>t, <1>r DEF RelayTypeOK, OneEntry, Relay!Holds
  <2>5. BestIsLast'
    BY <1>1, <1>t, <2>2, <2>3 DEF BestIsLast
  <2>6. \A j \in Ids : relayed[j].copy = "relayed" => relayed[j].hop \in Nat
    BY HopsCount
  <2>7. ASSUME NEW j \in Ids, relayed[j].copy = "relayed", relayed'[j].copy = "relayed"
        PROVE  relayed'[j].hop <= relayed[j].hop
    BY <2>3, <2>6, <2>7
  <2> QED
    BY <2>4, <2>5, <2>7 DEF RelayInv
<1>2. CASE /\ i \in Ids
           /\ \E s \in Relay!Slots : Written(s, i, hop)
           /\ relayed[i].copy = "relayed" /\ relayed[i].hop # 0
              => hop <= relayed[i].hop
  <2>1. PICK s \in Relay!Slots : Written(s, i, hop)
    BY <1>2
  <2>2. seen' \in [Relay!Slots -> Known \cup {Relay!Free}]
    BY <1>2, <1>t, <2>1 DEF Written, RelayTypeOK, Known, Relay!Entry
  <2>3. seen'[s] = Relay!Entry(i, hop) /\ \A r \in Relay!Slots \ {s} : seen'[r] = seen[r]
    BY <1>t, <2>1 DEF Written, RelayTypeOK
  <2>4. \A j \in Ids : Relay!Holds(s, j)' <=> j = i
    BY <1>2, <2>3 DEF Relay!Holds, Relay!Entry
  <2>5. \A j \in Ids, r \in Relay!Slots \ {s} : Relay!Holds(r, j)' <=> Relay!Holds(r, j)
    BY <2>3 DEF Relay!Holds
  <2>6. \A r \in Relay!Slots \ {s} : ~Relay!Holds(r, i)
    BY <2>1 DEF Written
  <2>7. RelayTypeOK'
    BY <1>r, <2>1, <2>2 DEF RelayTypeOK, Written
  <2>8. OneEntry'
    BY <1>t, <2>4, <2>5, <2>6 DEF OneEntry
  <2>9. relayed'[i] = Relay!Copy(hop) /\ seen'[s].best = hop
    BY <1>2, <1>n, <2>3, <2>4 DEF Relay!Entry
  <2>10. ASSUME NEW j \in Ids \ {i}, relayed'[j].copy = "relayed"
         PROVE  /\ relayed'[j] = relayed[j]
                /\ \E r \in Relay!Slots \ {s} : Relay!Holds(r, j)'
    BY <1>n, <2>4, <2>10 DEF Relay!NoHop
  <2>11. ASSUME NEW j \in Ids, relayed'[j].copy = "relayed"
         PROVE  \E r \in Relay!Slots : Relay!Holds(r, j)' /\ seen'[r].best = relayed'[j].hop
    <3>1. CASE j = i
      BY <2>4, <2>9, <3>1 DEF Relay!Copy
    <3>2. CASE j # i
      <4>1. PICK r \in Relay!Slots \ {s} : Relay!Holds(r, j)'
        BY <2>10, <2>11, <3>2
      <4>2. Relay!Holds(r, j)
        BY <2>5, <4>1
      <4>3. relayed'[j] = relayed[j]
        BY <2>10, <2>11, <3>2
      <4>4. PICK q \in Relay!Slots : Relay!Holds(q, j) /\ seen[q].best = relayed[j].hop
        BY <1>t, <2>11, <4>3 DEF BestIsLast
      <4>5. q = r
        BY <1>t, <4>2, <4>4 DEF OneEntry
      <4> QED
        BY <2>3, <4>1, <4>3, <4>4, <4>5
    <3> QED
      BY <3>1, <3>2
  <2>12. BestIsLast'
    BY <2>11 DEF BestIsLast
  <2>13. ASSUME NEW j \in Ids, relayed[j].copy = "relayed", relayed[j].hop # 0,
                relayed'[j].copy = "relayed"
         PROVE  relayed'[j].hop <= relayed[j].hop
    <3>1. CASE j = i
      BY <1>2, <2>9, <2>13, <3>1 DEF Relay!Copy
    <3>2. CASE j # i
      <4>1. relayed[j].hop \in Nat
        BY <2>13, HopsCount
      <4> QED
        BY <2>10, <2>13, <3>2, <4>1
    <3> QED
      BY <3>1, <3>2
  <2> QED
    BY <2>7, <2>8, <2>12, <2>13 DEF RelayInv
<1> QED
  BY <1>1, <1>2, AdmitsWrites

LEMMA RelayStep ==
  ASSUME RelayInv, [Relay!Next]_(Relay!vars)
  PROVE  /\ RelayInv'
         /\ \A j \in Ids :
              /\ relayed[j].copy = "relayed" /\ relayed[j].hop # 0
              /\ relayed'[j].copy = "relayed"
              => relayed'[j].hop <= relayed[j].hop
<1> DEFINE NoneWorse == \A j \in Ids :
              /\ relayed[j].copy = "relayed" /\ relayed[j].hop # 0
              /\ relayed'[j].copy = "relayed"
              => relayed'[j].hop <= relayed[j].hop
<1>1. ASSUME NEW f \in Relay!Frames, Relay!RelayPrefixed(f)
      PROVE  RelayInv' /\ NoneWorse
  <2>1. f.id \in Ids /\ f.hop \in Hops
    BY DEF Relay!Frames
  <2>2. Relay!Admits(f.id, f.hop) /\ Relay!Noted(f.id, f.hop)
    BY <1>1 DEF Relay!RelayPrefixed
  <2> QED
    BY <2>1, <2>2, RelaysCopy
<1>2. ASSUME NEW f \in Relay!Frames, Relay!RelayBare(f)
      PROVE  RelayInv' /\ NoneWorse
  <2>1. f.id \in Ids /\ 0 \in Hops
    BY MeshAssumption DEF Relay!Frames
  <2>2. PICK i \in {f.id, NoId} : Relay!Admits(i, 0) /\ Relay!Noted(i, 0)
    BY <1>2 DEF Relay!RelayBare
  <2> QED
    BY <2>1, <2>2, RelaysCopy
<1>3. ASSUME UNCHANGED <<seen, replace, relayed>>
      PROVE  RelayInv' /\ NoneWorse
  <2>1. RelayTypeOK' /\ OneEntry' /\ BestIsLast'
    BY <1>3 DEF RelayInv, RelayTypeOK, OneEntry, BestIsLast, Relay!Holds
  <2>2. \A j \in Ids : relayed[j].copy = "relayed" => relayed[j].hop \in Nat
    BY HopsCount
  <2>3. relayed' = relayed
    BY <1>3
  <2> QED
    BY <2>1, <2>2, <2>3 DEF RelayInv
<1>4. ASSUME NEW f \in Relay!Frames, Relay!DropPrefixed(f)
      PROVE  UNCHANGED <<seen, replace, relayed>>
  BY <1>4 DEF Relay!DropPrefixed, Relay!vars, Relay!seenVars
<1>5. ASSUME Relay!Reroute PROVE UNCHANGED <<seen, replace, relayed>>
  BY <1>5 DEF Relay!Reroute, Relay!seenVars
<1>6. ASSUME UNCHANGED Relay!vars PROVE UNCHANGED <<seen, replace, relayed>>
  BY <1>6 DEF Relay!vars, Relay!seenVars
<1> QED
  BY <1>1, <1>2, <1>3, <1>4, <1>5, <1>6 DEF Relay!Next

(* While the table remembers a message, no copy with a higher hop than the  *)
(* one relayed before is relayed, for any number of neighbours, messages,   *)
(* hop counts and entries, and whatever the medium loses, repeats or        *)
(* reorders: seen_message_drop_higher_hop keeps one entry for a message.    *)
THEOREM CopiesDieOut == Relay!Spec => NoWorseCopy
<1>1. RelayInv /\ [Relay!Next]_(Relay!vars) => RelayInv'
  BY RelayStep
<1>2. RelayInv /\ [Relay!Next]_(Relay!vars) =>
        [\A i \in Ids :
           /\ relayed[i].copy = "relayed" /\ relayed[i].hop # 0
           /\ relayed'[i].copy = "relayed"
           => relayed'[i].hop <= relayed[i].hop]_(Relay!vars)
  BY RelayStep
<1> QED
  BY RelayInit, <1>1, <1>2, PTL DEF Relay!Spec, NoWorseCopy, Relay!NoWorseCopy

-----------------------------------------------------------------------------
(* The path of a speed test.  A pin has the waypoint and the idle time of   *)
(* its transfer; a transfer in use lost its pin only to PinSize others.     *)

Pins == [slot : {"valid"}, transfer : Transfers, way : Peers, age : Nat]

SpeedTypeOK ==
  /\ pins \in [Speed!PinSlots -> Pins \cup {Speed!Free}]
  /\ idle \in [Transfers -> 0 .. PinTTL]
  /\ waypoint \in [Transfers -> Peers \cup {Nobody}]

OnePin ==
  \A i, j \in Speed!PinSlots, t \in Transfers :
    Speed!Pinned(i, t) /\ Speed!Pinned(j, t) => i = j

PinFollows ==
  \A i \in Speed!PinSlots, t \in Transfers :
    Speed!Pinned(i, t) =>
      pins[i].way = waypoint[t] /\ pins[i].age = idle[t] /\ idle[t] < PinTTL

HasPin(t) == \E i \in Speed!PinSlots : Speed!Pinned(i, t)

CrowdedOut ==
  \A t \in Transfers :
    idle[t] < PinTTL /\ ~HasPin(t) => Speed!Cardinality(Speed!Since(t)) > PinSize

SpeedInv == SpeedTypeOK /\ OnePin /\ PinFollows /\ CrowdedOut

LEMMA PinNumbers ==
  /\ PinSize \in Nat \ {0} /\ PinTTL \in Nat \ {0}
  /\ Speed!PinSlots = 0 .. PinSize - 1
BY MeshAssumption DEF Speed!PinSlots

LEMMA SpeedInit == Speed!Init => SpeedInv
<1> SUFFICES ASSUME Speed!Init PROVE SpeedInv
  OBVIOUS
<1>1. SpeedTypeOK
  BY PinNumbers DEF Speed!Init, SpeedTypeOK
<1>2. \A i \in Speed!PinSlots, t \in Transfers : ~Speed!Pinned(i, t)
  BY DEF Speed!Init, Speed!Pinned, Speed!Free
<1>3. \A t \in Transfers : ~(idle[t] < PinTTL)
  BY PinNumbers DEF Speed!Init
<1> QED
  BY <1>1, <1>2, <1>3 DEF SpeedInv, OnePin, PinFollows, CrowdedOut

(* More transfers are counted only upwards.                                *)
LEMMA SinceGrows ==
  ASSUME NEW S \in SUBSET Transfers, NEW T \in SUBSET Transfers, S \subseteq T,
         Speed!Cardinality(S) > PinSize
  PROVE  Speed!Cardinality(T) > PinSize
<1>1. IsFiniteSet(T)
  BY MeshAssumption, FS_Subset
<1>2. IsFiniteSet(S) /\ Cardinality(S) <= Cardinality(T)
  BY <1>1, FS_Subset
<1>3. Cardinality(S) \in Nat /\ Cardinality(T) \in Nat
  BY <1>1, <1>2, FS_CardinalityType
<1> QED
  BY <1>2, <1>3, PinNumbers DEF Speed!Cardinality, Cardinality

(* The transfers of all pins, and one that has none, are more than PinSize. *)
LEMMA PinsAndOneMore ==
  ASSUME SpeedTypeOK, OnePin, NEW u \in Transfers, ~HasPin(u),
         NEW T \in SUBSET Transfers, u \in T,
         \A i \in Speed!PinSlots : pins[i].slot = "valid" /\ pins[i].transfer \in T
  PROVE  Speed!Cardinality(T) > PinSize
<1> DEFINE S == 0 .. PinSize
           f == [i \in S |-> IF i = PinSize THEN u ELSE pins[i].transfer]
<1>1. IsFiniteSet(T) /\ Cardinality(T) \in Nat
  BY MeshAssumption, FS_Subset, FS_CardinalityType
<1>2. IsFiniteSet(S) /\ Cardinality(S) = PinSize + 1
  BY FS_Interval, PinNumbers
<1>3. \A i \in S : i # PinSize => i \in Speed!PinSlots
  BY PinNumbers
<1>4. f \in [S -> T]
  BY <1>3
<1>5. ASSUME NEW i \in S, NEW j \in S, i # j PROVE f[i] # f[j]
  <2>1. ASSUME NEW k \in Speed!PinSlots PROVE Speed!Pinned(k, pins[k].transfer)
    BY <2>1 DEF Speed!Pinned
  <2>2. \A k \in Speed!PinSlots : pins[k].transfer # u /\ pins[k].transfer \in Transfers
    BY <2>1 DEF HasPin
  <2>3. CASE i = PinSize
    BY <1>3, <1>5, <2>2, <2>3
  <2>4. CASE j = PinSize
    BY <1>3, <1>5, <2>2, <2>4
  <2>5. CASE i # PinSize /\ j # PinSize
    <3>1. i \in Speed!PinSlots /\ j \in Speed!PinSlots
      BY <1>3, <2>5
    <3>2. pins[i].transfer # pins[j].transfer
      BY <1>5, <2>1, <2>2, <3>1 DEF OnePin
    <3> QED
      BY <2>5, <3>2
  <2> QED
    BY <2>3, <2>4, <2>5
<1> HIDE DEF S, f
<1>6. ~(Cardinality(T) < Cardinality(S))
  BY <1>1, <1>2, <1>4, <1>5, FS_PigeonHole
<1> QED
  BY <1>1, <1>2, <1>6, PinNumbers DEF Speed!Cardinality, Cardinality

(* A frame of a transfer that has a pin leaves by it and renews it.         *)
LEMMA FrameByPin ==
  ASSUME SpeedInv, NEW u \in Transfers, NEW k \in Speed!PinSlots,
         Speed!Pinned(k, u), Speed!Use(k, u), Speed!Leaves(u, pins[k].way)
  PROVE  SpeedInv' /\ waypoint' = waypoint
<1>t. SpeedTypeOK /\ OnePin /\ PinFollows /\ CrowdedOut
  BY DEF SpeedInv
<1>1. waypoint' = waypoint
  BY <1>t DEF Speed!Leaves, SpeedTypeOK, PinFollows
<1>2. idle' = [idle EXCEPT ![u] = 0]
  BY DEF Speed!Leaves
<1>3. /\ idle' \in [Transfers -> 0 .. PinTTL]
      /\ idle'[u] = 0 /\ \A t \in Transfers \ {u} : idle'[t] = idle[t]
  BY <1>t, <1>2, PinNumbers DEF SpeedTypeOK
<1>4. pins[k] \in Pins
  BY <1>t DEF SpeedTypeOK, Speed!Pinned, Speed!Free
<1>5. pins' = [pins EXCEPT ![k] = [pins[k] EXCEPT !.age = 0]]
  BY DEF Speed!Use
<1>6. /\ [pins[k] EXCEPT !.age = 0] \in Pins
      /\ [pins[k] EXCEPT !.age = 0].slot = pins[k].slot
      /\ [pins[k] EXCEPT !.age = 0].transfer = pins[k].transfer
      /\ [pins[k] EXCEPT !.age = 0].way = pins[k].way
      /\ [pins[k] EXCEPT !.age = 0].age = 0
  BY <1>4 DEF Pins
<1>7. /\ pins' \in [Speed!PinSlots -> Pins \cup {Speed!Free}]
      /\ \A i \in Speed!PinSlots \ {k} : pins'[i] = pins[i]
      /\ pins'[k].slot = pins[k].slot /\ pins'[k].transfer = pins[k].transfer
      /\ pins'[k].way = pins[k].way /\ pins'[k].age = 0
  BY <1>t, <1>5, <1>6 DEF SpeedTypeOK
<1>8. \A i \in Speed!PinSlots, t \in Transfers : Speed!Pinned(i, t)' <=> Speed!Pinned(i, t)
  BY <1>7 DEF Speed!Pinned
<1>9. SpeedTypeOK'
  BY <1>t, <1>1, <1>3, <1>7 DEF SpeedTypeOK
<1>10. OnePin'
  BY <1>t, <1>8 DEF OnePin
<1>11. PinFollows'
  <2> SUFFICES ASSUME NEW i \in Speed!PinSlots, NEW t \in Transfers, Speed!Pinned(i, t)
               PROVE  pins'[i].way = waypoint'[t] /\ pins'[i].age = idle'[t] /\ idle'[t] < PinTTL
    BY <1>8 DEF PinFollows
  <2>1. pins[i].way = waypoint[t] /\ pins[i].age = idle[t] /\ idle[t] < PinTTL
    BY <1>t DEF PinFollows
  <2>2. CASE i = k
    <3>1. t = u
      BY <2>2 DEF Speed!Pinned
    <3> QED
      BY <1>1, <1>3, <1>7, <2>1, <2>2, <3>1, PinNumbers
  <2>3. CASE i # k
    <3>1. t # u
      BY <1>t, <2>3 DEF OnePin
    <3> QED
      BY <1>1, <1>3, <1>7, <2>1, <2>3, <3>1
  <2> QED
    BY <2>2, <2>3
<1>12. CrowdedOut'
  <2> SUFFICES ASSUME NEW t \in Transfers, idle'[t] < PinTTL, ~HasPin(t)
               PROVE  Speed!Cardinality(Speed!Since(t)') > PinSize
    BY <1>8 DEF CrowdedOut, HasPin, Speed!Cardinality
  <2>1. t # u
    BY DEF HasPin
  <2>2. Speed!Cardinality(Speed!Since(t)) > PinSize
    BY <1>t, <1>3, <2>1 DEF CrowdedOut
  <2>3. Speed!Since(t) \subseteq Speed!Since(t)'
    BY <1>t, <1>3, <2>1, PinNumbers DEF Speed!Since, SpeedTypeOK
  <2>4. Speed!Since(t) \in SUBSET Transfers /\ Speed!Since(t)' \in SUBSET Transfers
    BY DEF Speed!Since
  <2> QED
    BY <2>2, <2>3, <2>4, SinceGrows
<1> QED
  BY <1>1, <1>9, <1>10, <1>11, <1>12 DEF SpeedInv

(* A transfer that has none is given a pin, at the cost of the oldest when  *)
(* the table is full.                                                      *)
LEMMA FrameTakesPin ==
  ASSUME SpeedInv, NEW u \in Transfers, ~HasPin(u),
         NEW k \in Speed!PinSlots, NEW way \in Peers,
         Speed!PinsAt(k), pins' = [pins EXCEPT ![k] = Speed!Pin(u, way)],
         Speed!Leaves(u, way)
  PROVE  /\ SpeedInv'
         /\ \A t \in Transfers \ {u} : waypoint'[t] = waypoint[t]
<1>t. SpeedTypeOK /\ OnePin /\ PinFollows /\ CrowdedOut
  BY DEF SpeedInv
<1>1. /\ waypoint' \in [Transfers -> Peers \cup {Nobody}]
      /\ waypoint'[u] = way /\ \A t \in Transfers \ {u} : waypoint'[t] = waypoint[t]
  BY <1>t DEF Speed!Leaves, SpeedTypeOK
<1>2. /\ idle' \in [Transfers -> 0 .. PinTTL]
      /\ idle'[u] = 0 /\ \A t \in Transfers \ {u} : idle'[t] = idle[t]
  BY <1>t, PinNumbers DEF SpeedTypeOK, Speed!Leaves
<1>3. /\ Speed!Pin(u, way) \in Pins
      /\ Speed!Pin(u, way).slot = "valid" /\ Speed!Pin(u, way).transfer = u
      /\ Speed!Pin(u, way).way = way /\ Speed!Pin(u, way).age = 0
  BY DEF Speed!Pin, Pins
<1>4. /\ pins' \in [Speed!PinSlots -> Pins \cup {Speed!Free}]
      /\ pins'[k] = Speed!Pin(u, way)
      /\ \A i \in Speed!PinSlots \ {k} : pins'[i] = pins[i]
  BY <1>t, <1>3 DEF SpeedTypeOK
<1>5. \A i \in Speed!PinSlots \ {k}, t \in Transfers : Speed!Pinned(i, t)' <=> Speed!Pinned(i, t)
  BY <1>4 DEF Speed!Pinned
<1>6. \A t \in Transfers : Speed!Pinned(k, t)' <=> t = u
  BY <1>3, <1>4 DEF Speed!Pinned
<1>7. \A i \in Speed!PinSlots : ~Speed!Pinned(i, u)
  BY DEF HasPin
<1>8. SpeedTypeOK'
  BY <1>1, <1>2, <1>4 DEF SpeedTypeOK
<1>9. OnePin'
  BY <1>t, <1>5, <1>6, <1>7 DEF OnePin
<1>10. PinFollows'
  <2> SUFFICES ASSUME NEW i \in Speed!PinSlots, NEW t \in Transfers, Speed!Pinned(i, t)'
               PROVE  pins'[i].way = waypoint'[t] /\ pins'[i].age = idle'[t] /\ idle'[t] < PinTTL
    BY DEF PinFollows
  <2>1. CASE i = k
    BY <1>1, <1>2, <1>3, <1>4, <1>6, <2>1, PinNumbers
  <2>2. CASE i # k
    <3>1. Speed!Pinned(i, t) /\ t # u
      BY <1>5, <1>7, <2>2
    <3> QED
      BY <1>t, <1>1, <1>2, <1>4, <2>2, <3>1 DEF PinFollows
  <2> QED
    BY <2>1, <2>2
<1>11. CrowdedOut'
  <2> SUFFICES ASSUME NEW t \in Transfers, idle'[t] < PinTTL, ~HasPin(t)'
               PROVE  Speed!Cardinality(Speed!Since(t)') > PinSize
    BY DEF CrowdedOut, Speed!Cardinality
  <2>1. t # u
    BY <1>6 DEF HasPin
  <2>2. Speed!Since(t) \in SUBSET Transfers /\ Speed!Since(t)' \in SUBSET Transfers
    BY DEF Speed!Since
  <2>3. CASE ~HasPin(t)
    <3>1. Speed!Cardinality(Speed!Since(t)) > PinSize
      BY <1>t, <1>2, <2>1, <2>3 DEF CrowdedOut
    <3>2. Speed!Since(t) \subseteq Speed!Since(t)'
      BY <1>t, <1>2, <2>1, PinNumbers DEF Speed!Since, SpeedTypeOK
    <3> QED
      BY <2>2, <3>1, <3>2, SinceGrows
  <2>4. CASE HasPin(t)
    <3>1. PICK i \in Speed!PinSlots : Speed!Pinned(i, t)
      BY <2>4 DEF HasPin
    <3>2. i = k
      BY <1>5, <3>1 DEF HasPin
    <3>3. \A j \in Speed!PinSlots : pins[j].slot # "free"
      BY <3>1, <3>2 DEF Speed!PinsAt, Speed!Pinned
    <3>4. \A j \in Speed!PinSlots : pins[j] \in Pins
      BY <1>t, <3>3 DEF SpeedTypeOK, Speed!Free
    <3>5. \A j \in Speed!PinSlots : pins[j].age <= pins[k].age
      BY <3>3, <3>4 DEF Speed!PinsAt, Pins
    <3>6. pins[k].age = idle[t]
      BY <1>t, <3>1, <3>2 DEF PinFollows
    <3>7. ASSUME NEW j \in Speed!PinSlots
          PROVE  pins[j].slot = "valid" /\ pins[j].transfer \in Speed!Since(t)'
      <4>1. pins[j].slot = "valid" /\ pins[j].transfer \in Transfers
        BY <3>4 DEF Pins
      <4> DEFINE v == pins[j].transfer
      <4>2. Speed!Pinned(j, v)
        BY <4>1 DEF Speed!Pinned
      <4>3. v # u
        BY <1>7, <4>2
      <4>4. idle[v] = pins[j].age /\ idle[v] < PinTTL
        BY <1>t, <4>1, <4>2 DEF PinFollows
      <4>5. idle'[v] <= idle'[t] /\ idle'[v] < PinTTL
        BY <1>2, <2>1, <3>5, <3>6, <4>1, <4>3, <4>4
      <4> QED
        BY <4>1, <4>5 DEF Speed!Since
    <3>8. u \in Speed!Since(t)'
      BY <1>2, PinNumbers DEF Speed!Since
    <3> QED
      BY <1>t, <2>2, <3>7, <3>8, PinsAndOneMore
  <2> QED
    BY <2>3, <2>4
<1> QED
  BY <1>1, <1>8, <1>9, <1>10, <1>11 DEF SpeedInv

(* Time passes for a pin and its transfer alike.                           *)
LEMMA SpeedTicks ==
  ASSUME SpeedInv, Speed!Tick
  PROVE  SpeedInv' /\ waypoint' = waypoint
<1>t. SpeedTypeOK /\ OnePin /\ PinFollows /\ CrowdedOut
  BY DEF SpeedInv
<1>1. waypoint' = waypoint
  BY DEF Speed!Tick
<1>2. idle' = [t \in Transfers |-> IF idle[t] < PinTTL THEN idle[t] + 1 ELSE PinTTL]
  BY DEF Speed!Tick
<1>3. idle' \in [Transfers -> 0 .. PinTTL]
  BY <1>t, <1>2, PinNumbers DEF SpeedTypeOK
<1>4. \A t \in Transfers : idle'[t] < PinTTL => idle'[t] = idle[t] + 1 /\ idle[t] < PinTTL
  BY <1>t, <1>2, PinNumbers DEF SpeedTypeOK
<1>5. \A t \in Transfers : idle[t] + 1 < PinTTL => idle'[t] = idle[t] + 1
  BY <1>t, <1>2, PinNumbers DEF SpeedTypeOK
<1>6. ASSUME NEW i \in Speed!PinSlots
      PROVE  \/ pins'[i] = Speed!Free
             \/ /\ pins[i] \in Pins /\ pins'[i] \in Pins
                /\ pins'[i].transfer = pins[i].transfer /\ pins'[i].way = pins[i].way
                /\ pins'[i].age = pins[i].age + 1 /\ pins[i].age + 1 < PinTTL
  <2>1. pins'[i] = IF pins[i].slot = "free" THEN Speed!Free
                   ELSE IF pins[i].age + 1 >= PinTTL THEN Speed!Free
                   ELSE [pins[i] EXCEPT !.age = @ + 1]
    BY DEF Speed!Tick
  <2>2. CASE pins[i].slot = "free" \/ pins[i].age + 1 >= PinTTL
    BY <2>1, <2>2
  <2>3. CASE pins[i].slot # "free" /\ ~(pins[i].age + 1 >= PinTTL)
    <3>1. pins[i] \in Pins
      BY <1>t, <2>3 DEF SpeedTypeOK, Speed!Free
    <3>2. pins'[i] = [pins[i] EXCEPT !.age = pins[i].age + 1]
      BY <2>1, <2>3
    <3>3. pins[i].age + 1 \in Nat /\ pins[i].age + 1 < PinTTL
      BY <2>3, <3>1, PinNumbers DEF Pins
    <3> QED
      BY <3>1, <3>2, <3>3 DEF Pins
  <2> QED
    BY <2>2, <2>3
<1>7. SpeedTypeOK'
  <2>1. pins' = [i \in Speed!PinSlots |-> pins'[i]]
    BY DEF Speed!Tick
  <2>2. pins' \in [Speed!PinSlots -> Pins \cup {Speed!Free}]
    BY <1>6, <2>1
  <2> QED
    BY <1>t, <1>1, <1>3, <2>2 DEF SpeedTypeOK
<1>8. ASSUME NEW i \in Speed!PinSlots, NEW t \in Transfers, Speed!Pinned(i, t)'
      PROVE  /\ Speed!Pinned(i, t)
             /\ pins'[i].way = pins[i].way
             /\ pins'[i].age = pins[i].age + 1 /\ pins[i].age + 1 < PinTTL
  <2>1. pins'[i] # Speed!Free
    BY <1>8 DEF Speed!Pinned, Speed!Free
  <2> QED
    BY <1>6, <1>8, <2>1 DEF Speed!Pinned, Pins
<1>9. OnePin'
  BY <1>t, <1>8 DEF OnePin
<1>10. PinFollows'
  <2> SUFFICES ASSUME NEW i \in Speed!PinSlots, NEW t \in Transfers, Speed!Pinned(i, t)'
               PROVE  pins'[i].way = waypoint'[t] /\ pins'[i].age = idle'[t] /\ idle'[t] < PinTTL
    BY DEF PinFollows
  <2>1. pins[i].way = waypoint[t] /\ pins[i].age = idle[t]
    BY <1>t, <1>8 DEF PinFollows
  <2> QED
    BY <1>1, <1>5, <1>8, <2>1
<1>11. ASSUME NEW t \in Transfers, idle'[t] < PinTTL, HasPin(t)
       PROVE  HasPin(t)'
  <2>1. PICK i \in Speed!PinSlots : Speed!Pinned(i, t)
    BY <1>11 DEF HasPin
  <2>2. pins[i].age = idle[t] /\ idle'[t] = idle[t] + 1
    BY <1>t, <1>4, <1>11, <2>1 DEF PinFollows
  <2>3. pins[i].slot = "valid" /\ ~(pins[i].age + 1 >= PinTTL)
    BY <1>3, <1>11, <2>1, <2>2, PinNumbers DEF Speed!Pinned
  <2>4. pins'[i] = [pins[i] EXCEPT !.age = pins[i].age + 1]
    BY <2>3 DEF Speed!Tick
  <2>5. pins[i] \in Pins
    BY <1>t, <2>3 DEF SpeedTypeOK, Speed!Free
  <2>6. Speed!Pinned(i, t)'
    BY <2>1, <2>4, <2>5 DEF Speed!Pinned, Pins
  <2> QED
    BY <2>6 DEF HasPin
<1>12. CrowdedOut'
  <2> SUFFICES ASSUME NEW t \in Transfers, idle'[t] < PinTTL, ~HasPin(t)'
               PROVE  Speed!Cardinality(Speed!Since(t)') > PinSize
    BY DEF CrowdedOut, Speed!Cardinality
  <2>1. idle[t] < PinTTL /\ idle'[t] = idle[t] + 1 /\ ~HasPin(t)
    BY <1>4, <1>11
  <2>2. Speed!Cardinality(Speed!Since(t)) > PinSize
    BY <1>t, <2>1 DEF CrowdedOut
  <2>3. ASSUME NEW v \in Transfers, idle[v] <= idle[t]
        PROVE  idle'[v] <= idle'[t] /\ idle'[v] < PinTTL
    <3>1. idle[v] \in Nat /\ idle[t] \in Nat /\ idle[t] + 1 < PinTTL
      BY <1>t, <2>1 DEF SpeedTypeOK
    <3>2. idle'[v] = idle[v] + 1
      BY <1>5, <2>3, <3>1, PinNumbers
    <3> QED
      BY <2>1, <2>3, <3>1, <3>2, PinNumbers
  <2>4. Speed!Since(t) \subseteq Speed!Since(t)'
    BY <2>3 DEF Speed!Since
  <2>5. Speed!Since(t) \in SUBSET Transfers /\ Speed!Since(t)' \in SUBSET Transfers
    BY DEF Speed!Since
  <2> QED
    BY <2>2, <2>4, <2>5, SinceGrows
<1> QED
  BY <1>1, <1>7, <1>9, <1>10, <1>12 DEF SpeedInv

(* What PathPinned says of one step.                                       *)
KeepsPath ==
  \A t \in Transfers :
    /\ sender' = t
    /\ idle[t] < PinTTL
    /\ Speed!Cardinality(Speed!Since(t)) <= PinSize
    => waypoint'[t] = waypoint[t]

LEMMA SpeedStep ==
  ASSUME SpeedInv, [Speed!Next]_(Speed!vars)
  PROVE  SpeedInv' /\ KeepsPath
<1>1. ASSUME NEW u \in Transfers, Speed!SpeedFrame(u) PROVE SpeedInv' /\ KeepsPath
  <2>1. CASE HasPin(u)
    <3>1. PICK k \in Speed!PinSlots :
            Speed!Pinned(k, u) /\ Speed!Use(k, u) /\ Speed!Leaves(u, pins[k].way)
      BY <1>1, <2>1 DEF Speed!SpeedFrame, HasPin
    <3> QED
      BY <3>1, FrameByPin DEF KeepsPath
  <2>2. CASE ~HasPin(u)
    <3>1. PICK k \in Speed!PinSlots, way \in Speed!Waypoints(MCTarget[u]) :
            /\ Speed!PinsAt(k) /\ pins' = [pins EXCEPT ![k] = Speed!Pin(u, way)]
            /\ Speed!Leaves(u, way)
      BY <1>1, <2>2 DEF Speed!SpeedFrame, HasPin
    <3>2. way \in Peers
      BY DEF Speed!Waypoints, Speed!Direct
    <3>3. SpeedInv' /\ \A t \in Transfers \ {u} : waypoint'[t] = waypoint[t]
      BY <2>2, <3>1, <3>2, FrameTakesPin
    <3>4. idle[u] < PinTTL => Speed!Cardinality(Speed!Since(u)) > PinSize
      BY <2>2 DEF SpeedInv, CrowdedOut
    <3>5. Speed!Cardinality(Speed!Since(u)) \in Nat
      <4>1. IsFiniteSet(Speed!Since(u))
        BY MeshAssumption, FS_Subset DEF Speed!Since
      <4> QED
        BY <4>1, FS_CardinalityType DEF Speed!Cardinality, Cardinality
    <3>6. ~(idle[u] < PinTTL /\ Speed!Cardinality(Speed!Since(u)) <= PinSize)
      BY <3>4, <3>5, PinNumbers
    <3> QED
      BY <3>3, <3>6 DEF KeepsPath
  <2> QED
    BY <2>1, <2>2
<1>2. ASSUME Speed!Tick PROVE SpeedInv' /\ KeepsPath
  BY <1>2, SpeedTicks DEF KeepsPath
<1>3. ASSUME UNCHANGED <<pins, waypoint, idle>> PROVE SpeedInv' /\ KeepsPath
  <2>1. SpeedTypeOK' /\ OnePin' /\ PinFollows'
    BY <1>3 DEF SpeedInv, SpeedTypeOK, OnePin, PinFollows, Speed!Pinned
  <2>2. CrowdedOut'
    <3>1. \A t \in Transfers : Speed!Since(t)' = Speed!Since(t)
      BY <1>3 DEF Speed!Since
    <3>2. \A t \in Transfers : HasPin(t)' <=> HasPin(t)
      BY <1>3 DEF HasPin, Speed!Pinned
    <3>3. idle' = idle /\ CrowdedOut
      BY <1>3 DEF SpeedInv
    <3> QED
      BY <3>1, <3>2, <3>3 DEF CrowdedOut, Speed!Cardinality
  <2> QED
    BY <1>3, <2>1, <2>2 DEF SpeedInv, KeepsPath
<1>4. ASSUME Speed!Reroute PROVE UNCHANGED <<pins, waypoint, idle>>
  BY <1>4 DEF Speed!Reroute
<1>5. ASSUME UNCHANGED Speed!vars PROVE UNCHANGED <<pins, waypoint, idle>>
  BY <1>5 DEF Speed!vars
<1> QED
  BY <1>1, <1>2, <1>3, <1>4, <1>5 DEF Speed!Next

(* The frames of a speed-test transfer keep to one path, for any number of  *)
(* transfers, any size of the pin table and any life of a pin, while BATMAN *)
(* changes its routes: a used pin is renewed and the oldest one gives way.   *)
THEOREM TransfersKeepPath == Speed!Spec => PathPinned
<1>1. SpeedInv /\ [Speed!Next]_(Speed!vars) => SpeedInv'
  BY SpeedStep
<1>2. SpeedInv /\ [Speed!Next]_(Speed!vars) =>
        [\A t \in Transfers :
           /\ sender' = t
           /\ idle[t] < PinTTL
           /\ Speed!Cardinality(Speed!Since(t)) <= PinSize
           => waypoint'[t] = waypoint[t]]_(Speed!vars)
  BY SpeedStep DEF KeepsPath
<1> QED
  BY SpeedInit, <1>1, <1>2, PTL DEF Speed!Spec, PathPinned, Speed!PathPinned
-----------------------------------------------------------------------------
(* The neighbours of a device (Neighbours)                                  *)

Anyone == Devices \cup {Nobody}

Entries ==
  [peer : Anyone, seen : 0 .. Near!Past, heard : 0 .. HeardFor + 1,
   linked : 0 .. LinkedFor + 1, data : Anyone]

Jobs == [at : {"idle", "senses", "links"}, peer : Anyone, todo : SUBSET Devices, moved : BOOLEAN]

NearTypeOK ==
  /\ table \in [Near!Slots -> Entries]
  /\ noted \in [Devices -> Entries]
  /\ linked \subseteq Devices
  /\ job \in [Near!Tasks -> Jobs]
  /\ job["events"].at = "senses" => job["events"].peer \in Devices

\* No device has two entries, ...
OnePlace ==
  \A s, r \in Near!Slots : table[s].peer # Nobody /\ table[s].peer = table[r].peer => s = r

\* ... and its entry says nothing that is fresher than what was noted of it.
EntryKnown ==
  \A s \in Near!Slots, p \in Devices :
    table[s].peer = p =>
      /\ table[s].seen = noted[p].seen
      /\ noted[p].heard <= table[s].heard
      /\ noted[p].linked <= table[s].linked
      /\ table[s].data \in {p, Nobody}

SeenFirst ==
  \A p \in Devices :
    /\ noted[p].heard <= HeardFor => noted[p].seen <= noted[p].heard
    /\ noted[p].linked <= LinkedFor => noted[p].seen <= noted[p].linked

\* What counts of a device is in its entry.
HasHeard(p)  == \E s \in Near!Slots : table[s].peer = p /\ table[s].heard = noted[p].heard
HasLinked(p) == \E s \in Near!Slots : table[s].peer = p /\ table[s].linked = noted[p].linked

Remembered ==
  \A p \in Devices :
    /\ Near!Counts(p, noted[p].heard, HeardFor) => HasHeard(p)
    /\ Near!Counts(p, noted[p].linked, LinkedFor) => HasLinked(p)

NearInv == NearTypeOK /\ OnePlace /\ EntryKnown /\ SeenFirst /\ Remembered

LEMMA NearNumbers ==
  /\ HeardFor \in Nat /\ LinkedFor \in Nat /\ MaxPeers \in Nat \ {0}
  /\ Near!Past \in Nat /\ HeardFor + 1 <= Near!Past /\ LinkedFor + 1 <= Near!Past
  /\ Near!Slots = 1 .. MaxPeers /\ Near!Slots # {}
<1>1. HeardFor \in Nat /\ LinkedFor \in Nat /\ MaxPeers \in Nat \ {0}
  BY MeshAssumption
<1>2. Near!Past \in Nat /\ HeardFor + 1 <= Near!Past /\ LinkedFor + 1 <= Near!Past
  BY <1>1 DEF Near!Past
<1>3. 1 \in 1 .. MaxPeers
  BY <1>1
<1> QED
  BY <1>1, <1>2, <1>3 DEF Near!Slots

LEMMA LeastOf ==
  ASSUME NEW S \in SUBSET Nat, S # {}
  PROVE  \E s \in S : \A r \in S : s <= r
<1> DEFINE R == {rs \in Nat \X Nat : rs[1] < rs[2]}
<1>1. IsWellFoundedOn(R, Nat)
  BY NatLessThanWellFounded DEF OpToRel
<1>2. \A r, s \in Nat : <<r, s>> \notin R => s <= r
  OBVIOUS
<1> HIDE DEF R
<1>3. \E s \in S : \A r \in S : ~(<<r, s>> \in R)
  BY <1>1, WFMin
<1> QED
  BY <1>2, <1>3

LEMMA FirstOf ==
  ASSUME NEW S \in SUBSET Near!Slots, S # {}
  PROVE  Near!First(S) \in S
<1>1. S \in SUBSET Nat
  BY NearNumbers
<1>2. \E s \in S : \A r \in S : s <= r
  BY <1>1, LeastOf
<1> QED
  BY <1>2 DEF Near!First

(* A peer is noted in its own entry.  One that has none takes a free slot,  *)
(* or in a full table one that no other was seen before.                    *)
LEMMA PlaceOf ==
  ASSUME NearTypeOK, NEW p \in Devices
  PROVE  LET k == Near!Place(table, p) IN
           /\ k \in Near!Slots
           /\ \/ table[k].peer = p
              \/ /\ \A s \in Near!Slots : table[s].peer # p
                 /\ \/ table[k].peer = Nobody
                    \/ \A s \in Near!Slots :
                         table[s].peer # Nobody /\ table[s].seen <= table[k].seen
<1> DEFINE mine   == Near!Mine(table, p)
           free   == Near!Mine(table, Nobody)
           oldest == {s \in Near!Slots : \A r \in Near!Slots : table[r].seen <= table[s].seen}
<1>1. \A q : /\ Near!Mine(table, q) \in SUBSET Near!Slots
             /\ \A s \in Near!Slots : s \in Near!Mine(table, q) <=> table[s].peer = q
  BY DEF Near!Mine
<1>2. oldest # {}
  <2> DEFINE ages == {Near!Past - table[s].seen : s \in Near!Slots}
  <2>1. \A s \in Near!Slots : table[s].seen \in 0 .. Near!Past
    BY DEF NearTypeOK, Entries
  <2>2. ages \in SUBSET Nat /\ ages # {}
    BY <2>1, NearNumbers
  <2>3. PICK a \in ages : \A b \in ages : a <= b
    <3> HIDE DEF ages
    <3> QED
      BY <2>2, LeastOf
  <2>4. PICK s \in Near!Slots : a = Near!Past - table[s].seen
    OBVIOUS
  <2>5. ASSUME NEW r \in Near!Slots PROVE table[r].seen <= table[s].seen
    <3>1. Near!Past - table[s].seen <= Near!Past - table[r].seen
      BY <2>3, <2>4
    <3> QED
      BY <2>1, <3>1, NearNumbers
  <2> QED
    BY <2>5
<1>3. CASE mine # {}
  <2>1. Near!First(mine) \in mine
    BY <1>1, <1>3, FirstOf
  <2> QED
    BY <1>1, <1>3, <2>1 DEF Near!Place
<1>4. CASE mine = {} /\ free # {}
  <2>1. Near!First(free) \in free
    BY <1>1, <1>4, FirstOf
  <2> QED
    BY <1>1, <1>4, <2>1 DEF Near!Place
<1>5. CASE mine = {} /\ free = {}
  <2>1. oldest \in SUBSET Near!Slots
    OBVIOUS
  <2>2. Near!First(oldest) \in oldest
    BY <1>2, <2>1, FirstOf
  <2>3. Near!Place(table, p) = Near!First(oldest)
    BY <1>5 DEF Near!Place
  <2> QED
    BY <1>1, <1>5, <2>2, <2>3
<1> QED
  BY <1>3, <1>4, <1>5

(* What a note does to the table and to the history of its peer.            *)
LEMMA NoteIsMade ==
  ASSUME NearTypeOK, NEW p \in Devices, NEW how, Near!Notes(p, how)
  PROVE  LET k == Near!Place(table, p) IN
           /\ table' \in [Near!Slots -> Entries] /\ noted' \in [Devices -> Entries]
           /\ \A s \in Near!Slots \ {k} : table'[s] = table[s]
           /\ \A q \in Devices \ {p} : noted'[q] = noted[q]
           /\ table'[k].peer = p /\ table'[k].seen = 0
           /\ how = "beacon" => table'[k].heard = 0
           /\ how = "link" => table'[k].linked = 0
           /\ table[k].peer = p =>
                /\ how # "beacon" => table'[k].heard = table[k].heard
                /\ how # "link" => table'[k].linked = table[k].linked
                /\ table'[k].data = table[k].data
           /\ table[k].peer # p =>
                /\ how # "beacon" => table'[k].heard = HeardFor + 1
                /\ how # "link" => table'[k].linked = LinkedFor + 1
                /\ table'[k].data = Nobody
           /\ noted'[p].seen = 0
           /\ noted'[p].heard = IF how = "beacon" THEN 0 ELSE noted[p].heard
           /\ noted'[p].linked = IF how = "link" THEN 0 ELSE noted[p].linked
<1> DEFINE k == Near!Place(table, p)
           e == Near!Taken(table[k], p)
           n == noted[p]
           eNew == [peer |-> p, seen |-> 0, heard |-> Near!Heard(e, how),
                    linked |-> Near!Linked(e, how), data |-> e.data]
           nNew == [noted[p] EXCEPT !.seen = 0, !.heard = Near!Heard(n, how),
                                    !.linked = Near!Linked(n, how)]
<1>1. k \in Near!Slots
  BY PlaceOf
<1>2. table' = [table EXCEPT ![k] = eNew]
  BY DEF Near!Notes, Near!Note
<1>3. noted' = [noted EXCEPT ![p] = nNew]
  BY DEF Near!Notes, Near!Recorded
<1>4. table[k] \in Entries /\ noted[p] \in Entries
  BY <1>1 DEF NearTypeOK
<1>5. Near!Free \in Entries /\ [Near!Free EXCEPT !.peer = p] \in Entries
  BY NearNumbers DEF Near!Free, Entries, Anyone
<1>6. /\ e \in Entries
      /\ table[k].peer = p => e = table[k]
      /\ table[k].peer # p =>
           e.heard = HeardFor + 1 /\ e.linked = LinkedFor + 1 /\ e.data = Nobody
  BY <1>4, <1>5 DEF Near!Taken, Near!Free
<1>7. /\ Near!Heard(e, how) = (IF how = "beacon" THEN 0 ELSE e.heard)
      /\ Near!Linked(e, how) = (IF how = "link" THEN 0 ELSE e.linked)
      /\ Near!Heard(n, how) = (IF how = "beacon" THEN 0 ELSE n.heard)
      /\ Near!Linked(n, how) = (IF how = "link" THEN 0 ELSE n.linked)
  BY DEF Near!Heard, Near!Linked
<1>8. /\ Near!Heard(e, how) \in 0 .. HeardFor + 1 /\ Near!Linked(e, how) \in 0 .. LinkedFor + 1
      /\ Near!Heard(n, how) \in 0 .. HeardFor + 1 /\ Near!Linked(n, how) \in 0 .. LinkedFor + 1
  <2>1. e.heard \in 0 .. HeardFor + 1 /\ e.linked \in 0 .. LinkedFor + 1
    BY <1>6 DEF Entries
  <2>2. n.heard \in 0 .. HeardFor + 1 /\ n.linked \in 0 .. LinkedFor + 1
    BY <1>4 DEF Entries
  <2>3. 0 \in 0 .. HeardFor + 1 /\ 0 \in 0 .. LinkedFor + 1
    BY NearNumbers
  <2> QED
    BY <1>7, <2>1, <2>2, <2>3
<1>9. 0 \in 0 .. Near!Past /\ p \in Anyone
  BY NearNumbers DEF Anyone
<1>10. eNew \in Entries
  BY <1>6, <1>8, <1>9 DEF Entries
<1>11. nNew \in Entries /\ nNew.seen = 0 /\ nNew.heard = Near!Heard(n, how)
         /\ nNew.linked = Near!Linked(n, how)
  BY <1>4, <1>8, <1>9 DEF Entries
<1>12. /\ eNew.peer = p /\ eNew.seen = 0 /\ eNew.heard = Near!Heard(e, how)
       /\ eNew.linked = Near!Linked(e, how) /\ eNew.data = e.data
  OBVIOUS
<1> HIDE DEF eNew, nNew
<1>13. /\ table' \in [Near!Slots -> Entries] /\ table'[k] = eNew
       /\ \A s \in Near!Slots \ {k} : table'[s] = table[s]
  BY <1>1, <1>2, <1>10 DEF NearTypeOK
<1>14. /\ noted' \in [Devices -> Entries] /\ noted'[p] = nNew
       /\ \A q \in Devices \ {p} : noted'[q] = noted[q]
  BY <1>3, <1>11 DEF NearTypeOK
<1> HIDE DEF k, e, n
<1>15. LET d == k IN
         /\ how = "beacon" => table'[d].heard = 0
         /\ how = "link" => table'[d].linked = 0
  BY <1>7, <1>12, <1>13
<1>16. /\ noted'[p].heard = IF how = "beacon" THEN 0 ELSE noted[p].heard
       /\ noted'[p].linked = IF how = "link" THEN 0 ELSE noted[p].linked
  BY <1>7, <1>11, <1>14 DEF n
<1> QED
  BY <1>6, <1>7, <1>11, <1>12, <1>13, <1>14, <1>15, <1>16 DEF k

(* Who was seen since an age grows with a note, of another device.          *)
LEMMA SinceFinite ==
  ASSUME NEW S \in SUBSET Devices
  PROVE  IsFiniteSet(S) /\ Near!Cardinality(S) \in Nat /\ Near!Cardinality(S) = Cardinality(S)
BY MeshAssumption, FS_Subset, FS_CardinalityType DEF Near!Cardinality, Cardinality

LEMMA SinceWithin ==
  ASSUME NEW S \in SUBSET Devices, NEW T \in SUBSET S, Near!Cardinality(S) < MaxPeers
  PROVE  Near!Cardinality(T) < MaxPeers
<1>1. Cardinality(T) <= Cardinality(S)
  BY SinceFinite, FS_Subset
<1> QED
  BY <1>1, SinceFinite, NearNumbers

(* A table full of others, and a newcomer, are as many as it holds.         *)
LEMMA OthersAreMany ==
  ASSUME NearTypeOK, OnePlace, NEW p \in Devices, NEW k \in Near!Slots,
         \A s \in Near!Slots : table[s].peer # Nobody /\ table[s].peer # p,
         NEW T \in SUBSET Devices, p \in T,
         \A s \in Near!Slots \ {k} : table[s].peer \in T
  PROVE  ~(Near!Cardinality(T) < MaxPeers)
<1> DEFINE f == [s \in Near!Slots |-> IF s = k THEN p ELSE table[s].peer]
<1>1. IsFiniteSet(T) /\ Near!Cardinality(T) = Cardinality(T) /\ Cardinality(T) \in Nat
  BY SinceFinite
<1>2. IsFiniteSet(Near!Slots) /\ Cardinality(Near!Slots) = MaxPeers
  BY FS_Interval, NearNumbers
<1>3. f \in [Near!Slots -> T]
  OBVIOUS
<1>4. ASSUME NEW i \in Near!Slots, NEW j \in Near!Slots, i # j PROVE f[i] # f[j]
  BY <1>4 DEF OnePlace
<1> HIDE DEF f
<1>5. ~(Cardinality(T) < Cardinality(Near!Slots))
  BY <1>1, <1>2, <1>3, <1>4, FS_PigeonHole
<1> QED
  BY <1>1, <1>2, <1>5

(* A note keeps what is known, also when it evicts: who gives way was seen  *)
(* before every other entry, so as many as the table holds were seen since. *)
LEMMA NoteKeeps ==
  ASSUME NearTypeOK, OnePlace, EntryKnown, SeenFirst, Remembered,
         NEW p \in Devices, NEW how, Near!Notes(p, how)
  PROVE  OnePlace' /\ EntryKnown' /\ SeenFirst' /\ Remembered'
<1> DEFINE k == Near!Place(table, p)
<1>0. /\ k \in Near!Slots
      /\ \/ table[k].peer = p
         \/ /\ \A s \in Near!Slots : table[s].peer # p
            /\ \/ table[k].peer = Nobody
               \/ \A s \in Near!Slots :
                    table[s].peer # Nobody /\ table[s].seen <= table[k].seen
  BY PlaceOf
<1>1. /\ table' \in [Near!Slots -> Entries] /\ noted' \in [Devices -> Entries]
      /\ \A s \in Near!Slots \ {k} : table'[s] = table[s]
      /\ \A q \in Devices \ {p} : noted'[q] = noted[q]
      /\ table'[k].peer = p /\ table'[k].seen = 0
      /\ how = "beacon" => table'[k].heard = 0
      /\ how = "link" => table'[k].linked = 0
      /\ table[k].peer = p =>
           /\ how # "beacon" => table'[k].heard = table[k].heard
           /\ how # "link" => table'[k].linked = table[k].linked
           /\ table'[k].data = table[k].data
      /\ table[k].peer # p =>
           /\ how # "beacon" => table'[k].heard = HeardFor + 1
           /\ how # "link" => table'[k].linked = LinkedFor + 1
           /\ table'[k].data = Nobody
      /\ noted'[p].seen = 0
      /\ noted'[p].heard = IF how = "beacon" THEN 0 ELSE noted[p].heard
      /\ noted'[p].linked = IF how = "link" THEN 0 ELSE noted[p].linked
  BY NoteIsMade
<1> HIDE DEF k
<1>2. p # Nobody
  BY MeshAssumption
<1>3. \A s \in Near!Slots \ {k} : table[s].peer # p
  BY <1>0, <1>2 DEF OnePlace
<1>4. /\ \A q \in Devices : /\ noted[q].seen \in 0 .. Near!Past
                            /\ noted[q].heard \in 0 .. HeardFor + 1
                            /\ noted[q].linked \in 0 .. LinkedFor + 1
      /\ \A s \in Near!Slots : /\ table[s].peer \in Anyone /\ table[s].seen \in 0 .. Near!Past
                               /\ table[s].heard \in 0 .. HeardFor + 1
                               /\ table[s].linked \in 0 .. LinkedFor + 1
  BY DEF NearTypeOK, Entries
<1>5. OnePlace'
  <2> SUFFICES ASSUME NEW s \in Near!Slots, NEW r \in Near!Slots,
                      table'[s].peer # Nobody, table'[s].peer = table'[r].peer
               PROVE  s = r
    BY DEF OnePlace, Near!Slots
  <2>1. CASE s = k \/ r = k
    BY <1>1, <1>3, <2>1
  <2>2. CASE s # k /\ r # k
    BY <1>1, <2>2 DEF OnePlace
  <2> QED
    BY <2>1, <2>2
<1>6. EntryKnown'
  <2> SUFFICES ASSUME NEW s \in Near!Slots, NEW q \in Devices, table'[s].peer = q
               PROVE  /\ table'[s].seen = noted'[q].seen
                      /\ noted'[q].heard <= table'[s].heard
                      /\ noted'[q].linked <= table'[s].linked
                      /\ table'[s].data \in {q, Nobody}
    BY DEF EntryKnown, Near!Slots
  <2>1. CASE s # k
    <3>1. q # p
      BY <1>1, <1>3, <2>1
    <3> QED
      BY <1>1, <2>1, <3>1 DEF EntryKnown
  <2>2. CASE s = k
    <3>1. q = p
      BY <1>1, <2>2
    <3>2. noted'[p].heard <= table'[k].heard
      <4>1. CASE how = "beacon"
        BY <1>1, <4>1
      <4>2. CASE how # "beacon" /\ table[k].peer = p
        BY <1>0, <1>1, <4>2 DEF EntryKnown
      <4>3. CASE how # "beacon" /\ table[k].peer # p
        BY <1>1, <1>4, <4>3, NearNumbers
      <4> QED
        BY <4>1, <4>2, <4>3
    <3>3. noted'[p].linked <= table'[k].linked
      <4>1. CASE how = "link"
        BY <1>1, <4>1
      <4>2. CASE how # "link" /\ table[k].peer = p
        BY <1>0, <1>1, <4>2 DEF EntryKnown
      <4>3. CASE how # "link" /\ table[k].peer # p
        BY <1>1, <1>4, <4>3, NearNumbers
      <4> QED
        BY <4>1, <4>2, <4>3
    <3>4. table'[k].data \in {p, Nobody}
      BY <1>0, <1>1 DEF EntryKnown
    <3> QED
      BY <1>1, <2>2, <3>1, <3>2, <3>3, <3>4
  <2> QED
    BY <2>1, <2>2
<1>7. SeenFirst'
  <2> SUFFICES ASSUME NEW q \in Devices
               PROVE  /\ noted'[q].heard <= HeardFor => noted'[q].seen <= noted'[q].heard
                      /\ noted'[q].linked <= LinkedFor => noted'[q].seen <= noted'[q].linked
    BY DEF SeenFirst
  <2>1. CASE q = p
    BY <1>1, <1>4, <2>1
  <2>2. CASE q # p
    BY <1>1, <2>2 DEF SeenFirst
  <2> QED
    BY <2>1, <2>2
<1>8. \A a \in Nat : Near!Since(p, a)' = Near!Since(p, a)
  BY <1>1 DEF Near!Since
<1>9. \A q \in Devices, a \in Nat : /\ Near!Since(q, a) \in SUBSET (Near!Since(q, a)')
                                    /\ Near!Since(q, a)' \in SUBSET Devices
                                    /\ q # p => p \in Near!Since(q, a)'
  BY <1>1 DEF Near!Since
<1>10. ASSUME NEW q \in Devices \ {p}, NEW a \in Nat, noted[q].seen <= a,
              Near!Cardinality(Near!Since(q, a)') < MaxPeers
       PROVE  table[k].peer # q
  <2> SUFFICES ASSUME table[k].peer = q PROVE FALSE
    OBVIOUS
  <2>1. /\ \A s \in Near!Slots : table[s].peer # p
        /\ \A s \in Near!Slots : table[s].peer # Nobody /\ table[s].seen <= table[k].seen
    BY <1>0, MeshAssumption
  <2>2. ASSUME NEW s \in Near!Slots \ {k} PROVE table[s].peer \in Near!Since(q, a)'
    <3> DEFINE r == table[s].peer
    <3>1. r \in Devices /\ r # p
      BY <1>4, <2>1 DEF Anyone
    <3>2. r # q
      BY <1>0, <2>1 DEF OnePlace
    <3>3. noted[r].seen = table[s].seen /\ noted[q].seen = table[k].seen
      BY <1>0, <3>1 DEF EntryKnown
    <3>4. noted[r].seen <= a
      BY <1>0, <1>4, <1>10, <2>1, <3>1, <3>3, NearNumbers
    <3>5. noted'[r] = noted[r]
      BY <1>1, <3>1
    <3> QED
      BY <3>1, <3>2, <3>4, <3>5 DEF Near!Since
  <2> DEFINE T == Near!Since(q, a)'
  <2>3. T \in SUBSET Devices /\ p \in T
    BY <1>9
  <2>4. \A s \in Near!Slots \ {k} : table[s].peer \in T
    BY <2>2
  <2>5. Near!Cardinality(T) < MaxPeers
    BY <1>10 DEF Near!Cardinality
  <2> HIDE DEF T
  <2> QED
    BY <1>0, <2>1, <2>3, <2>4, <2>5, OthersAreMany
<1>11. ASSUME NEW q \in Devices \ {p}, Near!Counts(q, noted[q].heard, HeardFor)'
       PROVE  HasHeard(q)'
  <2> DEFINE a == noted[q].heard
  <2>1. a \in Nat /\ a <= HeardFor /\ noted[q].seen <= a /\ noted'[q] = noted[q]
    BY <1>1, <1>4, <1>11, NearNumbers DEF Near!Counts, SeenFirst
  <2>2. Near!Cardinality(Near!Since(q, a)') < MaxPeers
    BY <1>11, <2>1 DEF Near!Counts, Near!Since, Near!Cardinality
  <2>3. Near!Cardinality(Near!Since(q, a)) < MaxPeers
    <3> DEFINE S == Near!Since(q, a)'
    <3>1. S \in SUBSET Devices /\ Near!Since(q, a) \in SUBSET S /\ Near!Cardinality(S) < MaxPeers
      BY <1>9, <2>1, <2>2
    <3> HIDE DEF S
    <3> QED
      BY <3>1, SinceWithin
  <2>4. PICK s \in Near!Slots : table[s].peer = q /\ table[s].heard = a
    BY <2>1, <2>3 DEF Remembered, Near!Counts, HasHeard
  <2>5. s # k
    BY <1>10, <2>1, <2>2, <2>4
  <2>6. table'[s] = table[s]
    BY <1>1, <2>5
  <2>7. \E r \in Near!Slots : table'[r].peer = q /\ table'[r].heard = noted'[q].heard
    BY <2>1, <2>4, <2>6
  <2> QED
    BY <2>7 DEF HasHeard, Near!Slots
<1>12. ASSUME NEW q \in Devices \ {p}, Near!Counts(q, noted[q].linked, LinkedFor)'
       PROVE  HasLinked(q)'
  <2> DEFINE a == noted[q].linked
  <2>1. a \in Nat /\ a <= LinkedFor /\ noted[q].seen <= a /\ noted'[q] = noted[q]
    BY <1>1, <1>4, <1>12, NearNumbers DEF Near!Counts, SeenFirst
  <2>2. Near!Cardinality(Near!Since(q, a)') < MaxPeers
    BY <1>12, <2>1 DEF Near!Counts, Near!Since, Near!Cardinality
  <2>3. Near!Cardinality(Near!Since(q, a)) < MaxPeers
    <3> DEFINE S == Near!Since(q, a)'
    <3>1. S \in SUBSET Devices /\ Near!Since(q, a) \in SUBSET S /\ Near!Cardinality(S) < MaxPeers
      BY <1>9, <2>1, <2>2
    <3> HIDE DEF S
    <3> QED
      BY <3>1, SinceWithin
  <2>4. PICK s \in Near!Slots : table[s].peer = q /\ table[s].linked = a
    BY <2>1, <2>3 DEF Remembered, Near!Counts, HasLinked
  <2>5. s # k
    BY <1>10, <2>1, <2>2, <2>4
  <2>6. table'[s] = table[s]
    BY <1>1, <2>5
  <2>7. \E r \in Near!Slots : table'[r].peer = q /\ table'[r].linked = noted'[q].linked
    BY <2>1, <2>4, <2>6
  <2> QED
    BY <2>7 DEF HasLinked, Near!Slots
<1>13. ASSUME Near!Counts(p, noted[p].heard, HeardFor)'
       PROVE  HasHeard(p)'
  <2>1. table'[k].heard = noted'[p].heard
    <3>1. CASE how = "beacon"
      BY <1>1, <3>1
    <3>2. CASE how # "beacon"
      <4> DEFINE a == noted[p].heard
      <4>1. a \in Nat /\ noted'[p].heard = a
        BY <1>1, <1>4, <3>2, NearNumbers
      <4>2. a <= HeardFor /\ Near!Cardinality(Near!Since(p, a)') < MaxPeers
        BY <1>13, <4>1 DEF Near!Counts, Near!Since, Near!Cardinality
      <4>3. Near!Counts(p, a, HeardFor)
        BY <1>8, <4>1, <4>2 DEF Near!Counts
      <4>4. PICK s \in Near!Slots : table[s].peer = p /\ table[s].heard = a
        BY <4>3 DEF Remembered, HasHeard
      <4>5. s = k
        BY <1>3, <4>4
      <4> QED
        BY <1>1, <3>2, <4>1, <4>4, <4>5
    <3> QED
      BY <3>1, <3>2
  <2>2. \E r \in Near!Slots : table'[r].peer = p /\ table'[r].heard = noted'[p].heard
    BY <1>0, <1>1, <2>1
  <2> QED
    BY <2>2 DEF HasHeard, Near!Slots
<1>14. ASSUME Near!Counts(p, noted[p].linked, LinkedFor)'
       PROVE  HasLinked(p)'
  <2>1. table'[k].linked = noted'[p].linked
    <3>1. CASE how = "link"
      BY <1>1, <3>1
    <3>2. CASE how # "link"
      <4> DEFINE a == noted[p].linked
      <4>1. a \in Nat /\ noted'[p].linked = a
        BY <1>1, <1>4, <3>2, NearNumbers
      <4>2. a <= LinkedFor /\ Near!Cardinality(Near!Since(p, a)') < MaxPeers
        BY <1>14, <4>1 DEF Near!Counts, Near!Since, Near!Cardinality
      <4>3. Near!Counts(p, a, LinkedFor)
        BY <1>8, <4>1, <4>2 DEF Near!Counts
      <4>4. PICK s \in Near!Slots : table[s].peer = p /\ table[s].linked = a
        BY <4>3 DEF Remembered, HasLinked
      <4>5. s = k
        BY <1>3, <4>4
      <4> QED
        BY <1>1, <3>2, <4>1, <4>4, <4>5
    <3> QED
      BY <3>1, <3>2
  <2>2. \E r \in Near!Slots : table'[r].peer = p /\ table'[r].linked = noted'[p].linked
    BY <1>0, <1>1, <2>1
  <2> QED
    BY <2>2 DEF HasLinked, Near!Slots
<1>15. Remembered'
  <2>1. \A q \in Devices :
          /\ Near!Counts(q, noted[q].heard, HeardFor)' => HasHeard(q)'
          /\ Near!Counts(q, noted[q].linked, LinkedFor)' => HasLinked(q)'
    BY <1>11, <1>12, <1>13, <1>14
  <2> QED
    BY <2>1 DEF Remembered
<1> QED
  BY <1>5, <1>6, <1>7, <1>15

(* The data of a beacon goes to no entry but that of its device.            *)
LEMMA SensedKeeps ==
  ASSUME NearTypeOK, OnePlace, EntryKnown, SeenFirst, Remembered,
         NEW p \in Devices, NEW data \in {p, Nobody},
         table' = Near!Sensed(table, p, data), UNCHANGED noted
  PROVE  /\ table' \in [Near!Slots -> Entries]
         /\ OnePlace' /\ EntryKnown' /\ SeenFirst' /\ Remembered'
<1>1. ASSUME NEW s \in Near!Slots
      PROVE  /\ table'[s] \in Entries
             /\ table'[s].peer = table[s].peer /\ table'[s].seen = table[s].seen
             /\ table'[s].heard = table[s].heard /\ table'[s].linked = table[s].linked
             /\ table'[s].data = IF table[s].peer = p THEN data ELSE table[s].data
  <2>1. table'[s] = IF table[s].peer = p THEN [table[s] EXCEPT !.data = data] ELSE table[s]
    BY DEF Near!Sensed, Near!Mine
  <2>2. table[s] \in Entries /\ data \in Anyone
    BY DEF NearTypeOK, Anyone
  <2>3. /\ [table[s] EXCEPT !.data = data] \in Entries
        /\ [table[s] EXCEPT !.data = data].peer = table[s].peer
        /\ [table[s] EXCEPT !.data = data].seen = table[s].seen
        /\ [table[s] EXCEPT !.data = data].heard = table[s].heard
        /\ [table[s] EXCEPT !.data = data].linked = table[s].linked
        /\ [table[s] EXCEPT !.data = data].data = data
    BY <2>2 DEF Entries
  <2> QED
    BY <2>1, <2>2, <2>3
<1>2. table' \in [Near!Slots -> Entries]
  BY <1>1 DEF Near!Sensed
<1>3. OnePlace'
  BY <1>1 DEF OnePlace, Near!Slots
<1>4. EntryKnown'
  BY <1>1 DEF EntryKnown, Near!Slots
<1>5. SeenFirst'
  BY DEF SeenFirst
<1>6. ASSUME NEW q \in Devices
      PROVE  /\ Near!Counts(q, noted[q].heard, HeardFor)' => HasHeard(q)'
             /\ Near!Counts(q, noted[q].linked, LinkedFor)' => HasLinked(q)'
  <2>1. /\ Near!Counts(q, noted[q].heard, HeardFor)' => Near!Counts(q, noted[q].heard, HeardFor)
        /\ Near!Counts(q, noted[q].linked, LinkedFor)' => Near!Counts(q, noted[q].linked, LinkedFor)
    BY DEF Near!Counts, Near!Since, Near!Cardinality
  <2>2. HasHeard(q) => HasHeard(q)'
    BY <1>1 DEF HasHeard, Near!Slots
  <2>3. HasLinked(q) => HasLinked(q)'
    BY <1>1 DEF HasLinked, Near!Slots
  <2> QED
    BY <2>1, <2>2, <2>3 DEF Remembered
<1>7. Remembered'
  BY <1>6 DEF Remembered
<1> QED
  BY <1>2, <1>3, <1>4, <1>5, <1>7

(* The ages of an entry go up by one, to where they stop.                   *)
LEMMA AgedEntry ==
  ASSUME NEW e \in Entries
  PROVE  /\ Near!Aged(e) \in Entries
         /\ Near!Aged(e).peer = e.peer /\ Near!Aged(e).data = e.data
         /\ Near!Aged(e).seen = Near!Older(e.seen, Near!Past)
         /\ Near!Aged(e).heard = Near!Older(e.heard, HeardFor + 1)
         /\ Near!Aged(e).linked = Near!Older(e.linked, LinkedFor + 1)
<1>1. \A top \in Nat : \A a \in 0 .. top : Near!Older(a, top) \in 0 .. top
  BY DEF Near!Older
<1>2. e.seen \in 0 .. Near!Past /\ e.heard \in 0 .. HeardFor + 1 /\ e.linked \in 0 .. LinkedFor + 1
  BY DEF Entries
<1>3. /\ Near!Older(e.seen, Near!Past) \in 0 .. Near!Past
      /\ Near!Older(e.heard, HeardFor + 1) \in 0 .. HeardFor + 1
      /\ Near!Older(e.linked, LinkedFor + 1) \in 0 .. LinkedFor + 1
  <2>1. HeardFor + 1 \in Nat /\ LinkedFor + 1 \in Nat /\ Near!Past \in Nat
    BY NearNumbers
  <2> QED
    BY <1>1, <1>2, <2>1
<1> QED
  BY <1>3 DEF Near!Aged, Entries

LEMMA TickKeeps ==
  ASSUME NearTypeOK, OnePlace, EntryKnown, SeenFirst, Remembered, Near!Tick
  PROVE  /\ table' \in [Near!Slots -> Entries] /\ noted' \in [Devices -> Entries]
         /\ OnePlace' /\ EntryKnown' /\ SeenFirst' /\ Remembered'
<1>1. ASSUME NEW s \in Near!Slots
      PROVE  /\ table[s] \in Entries /\ table'[s] \in Entries
             /\ table'[s].peer = table[s].peer /\ table'[s].data = table[s].data
             /\ table'[s].seen = Near!Older(table[s].seen, Near!Past)
             /\ table'[s].heard = Near!Older(table[s].heard, HeardFor + 1)
             /\ table'[s].linked = Near!Older(table[s].linked, LinkedFor + 1)
  <2>1. table[s] \in Entries /\ table'[s] = Near!Aged(table[s])
    BY DEF NearTypeOK, Near!Tick
  <2> QED
    BY <2>1, AgedEntry
<1>2. ASSUME NEW q \in Devices
      PROVE  /\ noted[q] \in Entries /\ noted'[q] \in Entries
             /\ noted'[q].seen = Near!Older(noted[q].seen, Near!Past)
             /\ noted'[q].heard = Near!Older(noted[q].heard, HeardFor + 1)
             /\ noted'[q].linked = Near!Older(noted[q].linked, LinkedFor + 1)
  <2>1. noted[q] \in Entries /\ noted'[q] = Near!Aged(noted[q])
    BY DEF NearTypeOK, Near!Tick
  <2> QED
    BY <2>1, AgedEntry
<1>3. table' \in [Near!Slots -> Entries] /\ noted' \in [Devices -> Entries]
  BY <1>1, <1>2 DEF Near!Tick
<1>4. \A e \in Entries : /\ e.seen \in 0 .. Near!Past /\ e.heard \in 0 .. HeardFor + 1
                         /\ e.linked \in 0 .. LinkedFor + 1
  BY DEF Entries
<1>5. \A top \in Nat : \A a, b \in 0 .. top :
        a <= b => Near!Older(a, top) <= Near!Older(b, top)
  BY DEF Near!Older
\* An age within its window was one less.
<1>6. \A w \in Nat : \A a \in 0 .. w + 1 :
        Near!Older(a, w + 1) <= w => Near!Older(a, w + 1) = a + 1 /\ a <= w
  BY DEF Near!Older
<1>7. \A w, top \in Nat : \A b \in 0 .. top, a \in 0 .. w :
        w + 1 <= top => (Near!Older(b, top) <= a <=> b < a)
  BY DEF Near!Older
<1>8. OnePlace'
  BY <1>1 DEF OnePlace, Near!Slots
<1>9. EntryKnown'
  <2> SUFFICES ASSUME NEW s \in Near!Slots, NEW q \in Devices, table'[s].peer = q
               PROVE  /\ table'[s].seen = noted'[q].seen
                      /\ noted'[q].heard <= table'[s].heard
                      /\ noted'[q].linked <= table'[s].linked
                      /\ table'[s].data \in {q, Nobody}
    BY DEF EntryKnown, Near!Slots
  <2>1. /\ table[s].seen = noted[q].seen /\ noted[q].heard <= table[s].heard
        /\ noted[q].linked <= table[s].linked /\ table[s].data \in {q, Nobody}
    BY <1>1 DEF EntryKnown
  <2>2. noted'[q].heard <= table'[s].heard
    BY <1>1, <1>2, <1>4, <1>5, <2>1, NearNumbers
  <2>3. noted'[q].linked <= table'[s].linked
    BY <1>1, <1>2, <1>4, <1>5, <2>1, NearNumbers
  <2> QED
    BY <1>1, <1>2, <2>1, <2>2, <2>3
<1>10. ASSUME NEW q \in Devices, noted'[q].heard <= HeardFor
       PROVE  noted'[q].heard = noted[q].heard + 1 /\ noted[q].heard <= HeardFor
  <2>1. noted[q].heard \in 0 .. HeardFor + 1 /\ HeardFor \in Nat
    BY <1>2, <1>4, NearNumbers
  <2>2. Near!Older(noted[q].heard, HeardFor + 1) <= HeardFor
    BY <1>2, <1>10
  <2> QED
    BY <1>2, <1>6, <2>1, <2>2
<1>11. ASSUME NEW q \in Devices, noted'[q].linked <= LinkedFor
       PROVE  noted'[q].linked = noted[q].linked + 1 /\ noted[q].linked <= LinkedFor
  <2>1. noted[q].linked \in 0 .. LinkedFor + 1 /\ LinkedFor \in Nat
    BY <1>2, <1>4, NearNumbers
  <2>2. Near!Older(noted[q].linked, LinkedFor + 1) <= LinkedFor
    BY <1>2, <1>11
  <2> QED
    BY <1>2, <1>6, <2>1, <2>2
<1>12. ASSUME NEW q \in Devices, NEW w \in {HeardFor, LinkedFor}, NEW a \in 0 .. w
       PROVE  noted'[q].seen <= a <=> noted[q].seen < a
  <2>1. w \in Nat /\ w + 1 <= Near!Past /\ Near!Past \in Nat
    BY NearNumbers
  <2>2. noted[q].seen \in 0 .. Near!Past
    BY <1>2, <1>4
  <2>3. Near!Older(noted[q].seen, Near!Past) <= a <=> noted[q].seen < a
    BY <1>7, <2>1, <2>2
  <2> QED
    BY <1>2, <2>3
<1>13. SeenFirst'
  <2> SUFFICES ASSUME NEW q \in Devices
               PROVE  /\ noted'[q].heard <= HeardFor => noted'[q].seen <= noted'[q].heard
                      /\ noted'[q].linked <= LinkedFor => noted'[q].seen <= noted'[q].linked
    BY DEF SeenFirst
  <2>0. noted[q].seen \in Nat /\ noted[q].heard \in Nat /\ noted[q].linked \in Nat
    BY <1>2, <1>4, NearNumbers
  <2>1. ASSUME noted'[q].heard <= HeardFor PROVE noted'[q].seen <= noted'[q].heard
    <3>1. noted[q].seen <= noted[q].heard /\ noted'[q].heard = noted[q].heard + 1
      BY <1>10, <2>1 DEF SeenFirst
    <3>2. noted'[q].heard \in 0 .. HeardFor /\ noted[q].seen < noted'[q].heard
      BY <2>0, <2>1, <3>1, NearNumbers
    <3> QED
      BY <1>12, <3>2
  <2>2. ASSUME noted'[q].linked <= LinkedFor PROVE noted'[q].seen <= noted'[q].linked
    <3>1. noted[q].seen <= noted[q].linked /\ noted'[q].linked = noted[q].linked + 1
      BY <1>11, <2>2 DEF SeenFirst
    <3>2. noted'[q].linked \in 0 .. LinkedFor /\ noted[q].seen < noted'[q].linked
      BY <2>0, <2>2, <3>1, NearNumbers
    <3> QED
      BY <1>12, <3>2
  <2> QED
    BY <2>1, <2>2
<1>14. ASSUME NEW q \in Devices, NEW w \in {HeardFor, LinkedFor}, NEW a \in Nat, a + 1 <= w
       PROVE  {r \in Devices \ {q} : noted'[r].seen <= a + 1} = Near!Since(q, a)
  <2>1. ASSUME NEW r \in Devices PROVE noted'[r].seen <= a + 1 <=> noted[r].seen <= a
    <3>1. a + 1 \in 0 .. w /\ noted[r].seen \in Nat
      BY <1>2, <1>4, <1>14, NearNumbers
    <3>2. noted'[r].seen <= a + 1 <=> noted[r].seen < a + 1
      BY <1>12, <3>1
    <3> QED
      BY <3>1, <3>2
  <2> QED
    BY <2>1 DEF Near!Since
<1>15. ASSUME NEW q \in Devices, Near!Counts(q, noted[q].heard, HeardFor)'
       PROVE  HasHeard(q)'
  <2> DEFINE a == noted[q].heard
  <2>1. noted'[q].heard <= HeardFor
    BY <1>15 DEF Near!Counts
  <2>2. a \in Nat /\ noted'[q].heard = a + 1 /\ a <= HeardFor
    BY <1>2, <1>4, <1>10, <2>1, NearNumbers
  <2> HIDE DEF a
  <2>3. {r \in Devices \ {q} : noted'[r].seen <= a + 1} = Near!Since(q, a)
    <3>1. a + 1 <= HeardFor /\ HeardFor \in {HeardFor, LinkedFor}
      BY <2>1, <2>2
    <3> QED
      BY <1>14, <2>2, <3>1
  <2>4. Near!Cardinality({r \in Devices \ {q} : noted'[r].seen <= noted'[q].heard}) < MaxPeers
    BY <1>15 DEF Near!Counts, Near!Since, Near!Cardinality
  <2>5. {r \in Devices \ {q} : noted'[r].seen <= noted'[q].heard} = Near!Since(q, a)
    BY <2>2, <2>3
  <2>6. Near!Counts(q, a, HeardFor)
    BY <2>2, <2>4, <2>5 DEF Near!Counts
  <2>7. PICK s \in Near!Slots : table[s].peer = q /\ table[s].heard = a
    BY <2>6 DEF Remembered, HasHeard, a
  <2>8. table'[s].heard = noted'[q].heard
    BY <1>1, <1>2, <2>7 DEF a
  <2>9. \E r \in Near!Slots : table'[r].peer = q /\ table'[r].heard = noted'[q].heard
    BY <1>1, <2>7, <2>8
  <2> QED
    BY <2>9 DEF HasHeard, Near!Slots
<1>16. ASSUME NEW q \in Devices, Near!Counts(q, noted[q].linked, LinkedFor)'
       PROVE  HasLinked(q)'
  <2> DEFINE a == noted[q].linked
  <2>1. noted'[q].linked <= LinkedFor
    BY <1>16 DEF Near!Counts
  <2>2. a \in Nat /\ noted'[q].linked = a + 1 /\ a <= LinkedFor
    BY <1>2, <1>4, <1>11, <2>1, NearNumbers
  <2> HIDE DEF a
  <2>3. {r \in Devices \ {q} : noted'[r].seen <= a + 1} = Near!Since(q, a)
    <3>1. a + 1 <= LinkedFor /\ LinkedFor \in {HeardFor, LinkedFor}
      BY <2>1, <2>2
    <3> QED
      BY <1>14, <2>2, <3>1
  <2>4. Near!Cardinality({r \in Devices \ {q} : noted'[r].seen <= noted'[q].linked}) < MaxPeers
    BY <1>16 DEF Near!Counts, Near!Since, Near!Cardinality
  <2>5. {r \in Devices \ {q} : noted'[r].seen <= noted'[q].linked} = Near!Since(q, a)
    BY <2>2, <2>3
  <2>6. Near!Counts(q, a, LinkedFor)
    BY <2>2, <2>4, <2>5 DEF Near!Counts
  <2>7. PICK s \in Near!Slots : table[s].peer = q /\ table[s].linked = a
    BY <2>6 DEF Remembered, HasLinked, a
  <2>8. table'[s].linked = noted'[q].linked
    BY <1>1, <1>2, <2>7 DEF a
  <2>9. \E r \in Near!Slots : table'[r].peer = q /\ table'[r].linked = noted'[q].linked
    BY <1>1, <2>7, <2>8
  <2> QED
    BY <2>9 DEF HasLinked, Near!Slots
<1>17. Remembered'
  <2>1. \A q \in Devices :
          /\ Near!Counts(q, noted[q].heard, HeardFor)' => HasHeard(q)'
          /\ Near!Counts(q, noted[q].linked, LinkedFor)' => HasLinked(q)'
    BY <1>15, <1>16
  <2> QED
    BY <2>1 DEF Remembered
<1> QED
  BY <1>3, <1>8, <1>9, <1>13, <1>17

LEMMA NearInit == Near!Init => NearInv
<1> SUFFICES ASSUME Near!Init PROVE NearInv
  OBVIOUS
<1>1. Near!Free \in Entries
  BY NearNumbers DEF Near!Free, Entries, Anyone
<1>2. ASSUME NEW p \in Devices
      PROVE  /\ noted[p] \in Entries
             /\ noted[p].heard = HeardFor + 1 /\ noted[p].linked = LinkedFor + 1
  <2>1. noted[p] = [Near!Free EXCEPT !.peer = p] /\ p \in Anyone
    BY DEF Near!Init, Anyone
  <2> QED
    BY <1>1, <2>1 DEF Near!Free, Entries
<1>3. \A s \in Near!Slots : table[s] = Near!Free
  BY DEF Near!Init
<1>4. NearTypeOK
  <2>1. /\ table \in [Near!Slots -> Entries] /\ noted \in [Devices -> Entries]
        /\ linked \subseteq Devices
    BY <1>1, <1>2 DEF Near!Init
  <2>2. Near!Idle \in Jobs /\ Near!Idle.at = "idle"
    BY DEF Near!Idle, Jobs, Anyone
  <2>3. job \in [Near!Tasks -> Jobs] /\ job["events"].at = "idle"
    BY <2>2 DEF Near!Init, Near!Tasks
  <2> QED
    BY <2>1, <2>3 DEF NearTypeOK
<1>5. OnePlace /\ EntryKnown
  BY <1>3, MeshAssumption DEF OnePlace, EntryKnown, Near!Free
<1>6. SeenFirst /\ Remembered
  BY <1>2, NearNumbers DEF SeenFirst, Remembered, Near!Counts
<1> QED
  BY <1>4, <1>5, <1>6 DEF NearInv

(* What the tasks and the radio do to the state of the tasks.               *)
LEMMA JobOfStep ==
  ASSUME NearTypeOK, Near!Next
  PROVE  /\ linked' \subseteq Devices /\ job' \in [Near!Tasks -> Jobs]
         /\ job'["events"].at = "senses" => job'["events"].peer \in Devices
<1>t. /\ linked \subseteq Devices /\ job \in [Near!Tasks -> Jobs]
      /\ job["events"].at = "senses" => job["events"].peer \in Devices
  BY DEF NearTypeOK
<1>e. "events" \in Near!Tasks /\ "beacon" \in Near!Tasks
  BY DEF Near!Tasks
<1>1. /\ Near!Idle \in Jobs /\ Near!Idle.at = "idle"
      /\ Near!Links \in Jobs /\ Near!Links.at = "links"
  BY <1>t DEF Near!Idle, Near!Links, Jobs, Anyone
<1>2. ASSUME NEW p \in Devices
      PROVE  Near!Senses(p) \in Jobs /\ Near!Senses(p).at = "senses" /\ Near!Senses(p).peer = p
  BY DEF Near!Idle, Near!Senses, Jobs, Anyone
<1>3. ASSUME NEW p \in Devices, Near!BeaconReceived(p)
      PROVE  /\ UNCHANGED linked
             /\ \/ UNCHANGED job
                \/ job' = [job EXCEPT !["events"] = Near!Senses(p)]
                \/ job' = [job EXCEPT !["events"] = Near!Links]
  BY <1>3 DEF Near!BeaconReceived, Near!Beacon, Near!DuplicateBeacon, Near!UnknownBeacon,
              Near!DropBeacon
<1>4. ASSUME NEW p \in Devices, Near!BeaconReceived(p)
      PROVE  /\ linked' \subseteq Devices /\ job' \in [Near!Tasks -> Jobs]
             /\ job'["events"].at = "senses" => job'["events"].peer \in Devices
  <2>1. CASE UNCHANGED job
    BY <1>t, <1>3, <1>4, <2>1
  <2>2. CASE job' = [job EXCEPT !["events"] = Near!Senses(p)]
    BY <1>t, <1>e, <1>2, <1>3, <1>4, <2>2
  <2>3. CASE job' = [job EXCEPT !["events"] = Near!Links]
    BY <1>t, <1>e, <1>1, <1>3, <1>4, <2>3
  <2> QED
    BY <1>3, <1>4, <2>1, <2>2, <2>3
<1>5. ASSUME NEW p \in Devices, Near!BatmanPeer(p) PROVE UNCHANGED <<linked, job>>
  BY <1>5 DEF Near!BatmanPeer
<1>6. ASSUME NEW links \in SUBSET Devices, Near!Moves(links)
      PROVE  /\ linked' \subseteq Devices /\ job' \in [Near!Tasks -> Jobs]
             /\ job'["events"].at = "senses" => job'["events"].peer \in Devices
  <2>1. ASSUME NEW t \in Near!Tasks
        PROVE  /\ job'[t] \in Jobs /\ job'[t].at = job[t].at /\ job'[t].peer = job[t].peer
    <3> DEFINE b == job[t].todo # {}
    <3>1. job'[t] = [job[t] EXCEPT !.moved = b] /\ job[t] \in Jobs
      BY <1>t, <1>6 DEF Near!Moves
    <3>2. b \in BOOLEAN
      OBVIOUS
    <3> HIDE DEF b
    <3> QED
      BY <3>1, <3>2 DEF Jobs
  <2>2. job' \in [Near!Tasks -> Jobs]
    BY <1>6, <2>1 DEF Near!Moves
  <2> QED
    BY <1>t, <1>e, <1>6, <2>1, <2>2 DEF Near!Moves
<1>7. ASSUME NEW p \in Devices, Near!Join(p) \/ Near!Leave(p)
      PROVE  /\ linked' \subseteq Devices /\ job' \in [Near!Tasks -> Jobs]
             /\ job'["events"].at = "senses" => job'["events"].peer \in Devices
  <2>1. linked \cup {p} \in SUBSET Devices /\ linked \ {p} \in SUBSET Devices
    BY <1>t
  <2> QED
    BY <1>6, <1>7, <2>1 DEF Near!Join, Near!Leave
<1>8. ASSUME NEW t \in Near!Tasks, Near!NoteLink(t)
      PROVE  /\ linked' \subseteq Devices /\ job' \in [Near!Tasks -> Jobs]
             /\ job'["events"].at = "senses" => job'["events"].peer \in Devices
  <2>1. PICK p \in job[t].todo : job' = [job EXCEPT ![t].todo = job[t].todo \ {p}]
    BY <1>8 DEF Near!NoteLink
  <2>2. /\ [job[t] EXCEPT !.todo = job[t].todo \ {p}] \in Jobs
        /\ [job[t] EXCEPT !.todo = job[t].todo \ {p}].at = job[t].at
        /\ [job[t] EXCEPT !.todo = job[t].todo \ {p}].peer = job[t].peer
    BY <1>t DEF Jobs
  <2>3. job' = [job EXCEPT ![t] = [job[t] EXCEPT !.todo = job[t].todo \ {p}]]
    BY <2>1
  <2> QED
    BY <1>t, <1>e, <1>8, <2>2, <2>3 DEF Near!NoteLink
<1>9. ASSUME NEW t \in Near!Tasks, Near!ListPeers(t)
      PROVE  /\ linked' \subseteq Devices /\ job' \in [Near!Tasks -> Jobs]
             /\ job'["events"].at = "senses" => job'["events"].peer \in Devices
  <2>1. job' = [job EXCEPT ![t] = Near!Idle] /\ UNCHANGED linked
    BY <1>9 DEF Near!ListPeers
  <2> QED
    BY <1>t, <1>e, <1>1, <2>1
<1>10. ASSUME Near!NoteData \/ Near!AskReport
       PROVE  /\ linked' \subseteq Devices /\ job' \in [Near!Tasks -> Jobs]
              /\ job'["events"].at = "senses" => job'["events"].peer \in Devices
  <2>1. UNCHANGED linked /\ \E t \in Near!Tasks : job' = [job EXCEPT ![t] = Near!Links]
    BY <1>e, <1>10 DEF Near!NoteData, Near!AskReport
  <2> QED
    BY <1>t, <1>e, <1>1, <2>1
<1>11. ASSUME Near!Tick PROVE UNCHANGED <<linked, job>>
  BY <1>11 DEF Near!Tick
<1> QED
  BY <1>t, <1>4, <1>5, <1>7, <1>8, <1>9, <1>10, <1>11 DEF Near!Next

LEMMA TableOfStep ==
  ASSUME NearTypeOK, Near!Next
  PROVE  \/ UNCHANGED <<table, noted>>
         \/ \E p \in Devices, how \in {"beacon", "link", "far"} : Near!Notes(p, how)
         \/ /\ UNCHANGED noted
            /\ \E p \in Devices : \E data \in {p, Nobody} : table' = Near!Sensed(table, p, data)
         \/ Near!Tick
<1>1. ASSUME NEW p \in Devices, Near!BeaconReceived(p)
      PROVE  UNCHANGED <<table, noted>> \/ Near!Notes(p, "beacon")
  BY <1>1 DEF Near!BeaconReceived, Near!Beacon, Near!DuplicateBeacon, Near!UnknownBeacon,
              Near!DropBeacon
<1>2. ASSUME NEW p \in Devices, Near!BatmanPeer(p)
      PROVE  Near!Notes(p, "link") \/ Near!Notes(p, "far")
  BY <1>2 DEF Near!BatmanPeer
<1>3. ASSUME NEW p \in Devices, Near!Join(p) \/ Near!Leave(p) PROVE UNCHANGED <<table, noted>>
  BY <1>3 DEF Near!Join, Near!Leave, Near!Moves
<1>4. ASSUME NEW t \in Near!Tasks, Near!NoteLink(t)
      PROVE  UNCHANGED <<table, noted>> \/ \E p \in Devices : Near!Notes(p, "link")
  <2>1. job[t].todo \subseteq Devices /\ linked \subseteq Devices
    BY DEF NearTypeOK, Jobs
  <2> QED
    BY <1>4, <2>1 DEF Near!NoteLink
<1>5. ASSUME NEW t \in Near!Tasks, Near!ListPeers(t) PROVE UNCHANGED <<table, noted>>
  BY <1>5 DEF Near!ListPeers
<1>6. ASSUME Near!NoteData
      PROVE  /\ UNCHANGED noted
             /\ \E p \in Devices : \E data \in {p, Nobody} : table' = Near!Sensed(table, p, data)
  <2>1. job["events"].peer \in Devices
    BY <1>6 DEF NearTypeOK, Near!NoteData
  <2> QED
    BY <1>6, <2>1 DEF Near!NoteData
<1>7. ASSUME Near!AskReport PROVE UNCHANGED <<table, noted>>
  BY <1>7 DEF Near!AskReport
<1> QED
  BY <1>1, <1>2, <1>3, <1>4, <1>5, <1>6, <1>7 DEF Near!Next

LEMMA ReportOfStep ==
  ASSUME Near!Next
  PROVE  \/ report' = Near!NoList
         \/ report' = Near!List(Near!Listed(table)) /\ UNCHANGED <<table, noted>>
<1>1. ASSUME NEW p \in Devices, Near!BeaconReceived(p) PROVE report' = Near!NoList
  BY <1>1 DEF Near!BeaconReceived, Near!Beacon, Near!DuplicateBeacon, Near!UnknownBeacon,
              Near!DropBeacon
<1>2. ASSUME NEW p \in Devices, Near!BatmanPeer(p) PROVE report' = Near!NoList
  BY <1>2 DEF Near!BatmanPeer
<1>3. ASSUME NEW p \in Devices, Near!Join(p) \/ Near!Leave(p) PROVE report' = Near!NoList
  BY <1>3 DEF Near!Join, Near!Leave, Near!Moves
<1>4. ASSUME NEW t \in Near!Tasks, Near!NoteLink(t) PROVE report' = Near!NoList
  BY <1>4 DEF Near!NoteLink
<1>5. ASSUME NEW t \in Near!Tasks, Near!ListPeers(t)
      PROVE  report' = Near!List(Near!Listed(table)) /\ UNCHANGED <<table, noted>>
  BY <1>5 DEF Near!ListPeers
<1>6. ASSUME Near!NoteData \/ Near!AskReport \/ Near!Tick PROVE report' = Near!NoList
  BY <1>6 DEF Near!NoteData, Near!AskReport, Near!Tick
<1> QED
  BY <1>1, <1>2, <1>3, <1>4, <1>5, <1>6 DEF Near!Next

LEMMA NearStep == NearInv /\ [Near!Next]_(Near!vars) => NearInv'
<1> SUFFICES ASSUME NearInv, [Near!Next]_(Near!vars) PROVE NearInv'
  OBVIOUS
<1>t. NearTypeOK /\ OnePlace /\ EntryKnown /\ SeenFirst /\ Remembered
  BY DEF NearInv
<1> DEFINE Jobbed == /\ linked' \subseteq Devices /\ job' \in [Near!Tasks -> Jobs]
                     /\ job'["events"].at = "senses" => job'["events"].peer \in Devices
           Tabled == /\ table' \in [Near!Slots -> Entries] /\ noted' \in [Devices -> Entries]
                     /\ OnePlace' /\ EntryKnown' /\ SeenFirst' /\ Remembered'
<1>1. ASSUME UNCHANGED <<table, noted>> PROVE Tabled
  <2>1. table' = table /\ noted' = noted
    BY <1>1
  <2>2. \A p \in Devices, a \in Nat, w \in Nat : Near!Counts(p, a, w)' <=> Near!Counts(p, a, w)
    BY <2>1 DEF Near!Counts, Near!Since, Near!Cardinality
  <2>3. \A p \in Devices :
          /\ Near!Counts(p, noted[p].heard, HeardFor)' =>
               Near!Counts(p, noted[p].heard, HeardFor)
          /\ Near!Counts(p, noted[p].linked, LinkedFor)' =>
               Near!Counts(p, noted[p].linked, LinkedFor)
          /\ HasHeard(p) => HasHeard(p)'
          /\ HasLinked(p) => HasLinked(p)'
    BY <2>1 DEF Near!Counts, Near!Since, Near!Cardinality, HasHeard, HasLinked, Near!Slots
  <2>4. Remembered'
    BY <1>t, <2>3 DEF Remembered
  <2>5. OnePlace' /\ EntryKnown' /\ SeenFirst'
    BY <1>t, <2>1 DEF OnePlace, EntryKnown, SeenFirst, Near!Slots
  <2> QED
    BY <1>t, <2>1, <2>4, <2>5 DEF NearTypeOK
<1>2. ASSUME Near!Next PROVE Tabled
  <2>1. ASSUME NEW p \in Devices, NEW how \in {"beacon", "link", "far"}, Near!Notes(p, how)
        PROVE  Tabled
    BY <1>t, <2>1, NoteKeeps, NoteIsMade
  <2>2. ASSUME NEW p \in Devices, NEW data \in {p, Nobody},
               table' = Near!Sensed(table, p, data), UNCHANGED noted
        PROVE  Tabled
    <3>1. noted' \in [Devices -> Entries]
      BY <1>t, <2>2 DEF NearTypeOK
    <3> QED
      BY <1>t, <2>2, <3>1, SensedKeeps
  <2>3. ASSUME Near!Tick PROVE Tabled
    BY <1>t, <2>3, TickKeeps
  <2> HIDE DEF Tabled
  <2> QED
    BY <1>t, <1>1, <1>2, <2>1, <2>2, <2>3, TableOfStep
<1>3. ASSUME UNCHANGED Near!vars PROVE Jobbed /\ Tabled
  <2>1. UNCHANGED <<table, noted>> /\ UNCHANGED <<linked, job>>
    BY <1>3 DEF Near!vars
  <2>2. Jobbed
    BY <1>t, <2>1 DEF NearTypeOK
  <2> HIDE DEF Tabled, Jobbed
  <2> QED
    BY <1>1, <2>1, <2>2
<1>4. ASSUME Near!Next PROVE Jobbed
  BY <1>t, <1>4, JobOfStep
<1>5. Jobbed /\ Tabled
  <2> HIDE DEF Jobbed, Tabled
  <2> QED
    BY <1>2, <1>3, <1>4
<1> QED
  BY <1>5 DEF NearInv, NearTypeOK, Near!Slots, Near!Tasks

(* The list a report is made of.                                            *)
LEMMA ListIsTrue ==
  ASSUME NearInv, Near!Next PROVE ReportIsTrue'
<1>t. NearTypeOK /\ EntryKnown /\ Remembered
  BY DEF NearInv
<1>1. CASE report' = Near!NoList
  <2>1. report'.peers = {} /\ report'.made = FALSE
    BY <1>1 DEF Near!NoList
  <2> QED
    BY <2>1 DEF ReportIsTrue, Near!ReportIsTruthful, Near!HeardIsReported
<1>2. CASE report' = Near!List(Near!Listed(table)) /\ UNCHANGED <<table, noted>>
  <2>1. /\ report'.peers = Near!Listed(table)
        /\ table' = table /\ noted' = noted
    BY <1>2 DEF Near!List
  <2>2. ASSUME NEW s \in Near!Slots
        PROVE  /\ table[s].peer \in Anyone
               /\ table[s].heard \in Nat /\ table[s].linked \in Nat
    BY <1>t, NearNumbers DEF NearTypeOK, Entries
  <2>3. \A p \in Devices : noted[p].heard \in Nat /\ noted[p].linked \in Nat
    BY <1>t, NearNumbers DEF NearTypeOK, Entries
  <2>4. ASSUME NEW r \in Near!Listed(table)
        PROVE  /\ noted[r.peer].linked <= LinkedFor \/ noted[r.peer].heard <= HeardFor
               /\ r.data \in {r.peer, Nobody}
    <3>1. PICK s \in Near!Slots : Near!Fresh(table[s]) /\ r = Near!Reported(table[s])
      BY <2>4 DEF Near!Listed
    <3>2. r.peer = table[s].peer /\ r.data = table[s].data
      BY <3>1 DEF Near!Reported
    <3>3. table[s].peer \in Devices
      BY <2>2, <3>1 DEF Near!Fresh, Anyone
    <3>4. /\ noted[r.peer].heard <= table[s].heard /\ noted[r.peer].linked <= table[s].linked
          /\ table[s].data \in {r.peer, Nobody}
      BY <1>t, <3>2, <3>3 DEF EntryKnown
    <3>5. table[s].linked <= LinkedFor \/ table[s].heard <= HeardFor
      BY <3>1 DEF Near!Fresh
    <3>6. noted[r.peer].linked <= LinkedFor \/ noted[r.peer].heard <= HeardFor
      BY <2>2, <2>3, <3>2, <3>3, <3>4, <3>5, NearNumbers
    <3> QED
      BY <3>2, <3>4, <3>6
  <2>5. Near!ReportIsTruthful'
    BY <2>1, <2>4 DEF Near!ReportIsTruthful
  <2>6. ASSUME NEW s \in Near!Slots, NEW p \in Devices, table[s].peer = p,
               table[s].heard <= HeardFor \/ table[s].linked <= LinkedFor
        PROVE  \E r \in Near!Listed(table) : r.peer = p
    <3>1. Near!Fresh(table[s])
      BY <2>6, MeshAssumption DEF Near!Fresh
    <3>2. Near!Reported(table[s]) \in Near!Listed(table)
      BY <3>1 DEF Near!Listed
    <3>3. Near!Reported(table[s]).peer = p
      BY <2>6 DEF Near!Reported
    <3> QED
      BY <3>2, <3>3
  <2>7. ASSUME NEW p \in Devices,
               \/ Near!Counts(p, noted[p].linked, LinkedFor)
               \/ Near!Counts(p, noted[p].heard, HeardFor)
        PROVE  \E r \in Near!Listed(table) : r.peer = p
    <3>1. CASE Near!Counts(p, noted[p].linked, LinkedFor)
      <4>1. HasLinked(p) /\ noted[p].linked <= LinkedFor
        BY <1>t, <3>1 DEF Remembered, Near!Counts
      <4> QED
        BY <2>6, <4>1 DEF HasLinked
    <3>2. CASE Near!Counts(p, noted[p].heard, HeardFor)
      <4>1. HasHeard(p) /\ noted[p].heard <= HeardFor
        BY <1>t, <3>2 DEF Remembered, Near!Counts
      <4> QED
        BY <2>6, <4>1 DEF HasHeard
    <3> QED
      BY <2>7, <3>1, <3>2
  <2>8. ASSUME NEW p \in Devices
        PROVE  /\ Near!Counts(p, noted[p].linked, LinkedFor)' =>
                    Near!Counts(p, noted[p].linked, LinkedFor)
               /\ Near!Counts(p, noted[p].heard, HeardFor)' =>
                    Near!Counts(p, noted[p].heard, HeardFor)
    BY <2>1 DEF Near!Counts, Near!Since, Near!Cardinality
  <2>9. Near!HeardIsReported'
    BY <2>1, <2>7, <2>8 DEF Near!HeardIsReported
  <2> QED
    BY <2>5, <2>9 DEF ReportIsTrue
<1> QED
  BY <1>1, <1>2, ReportOfStep

(* A report names only devices whose link or beacon is recent, each with    *)
(* data of its own, and misses one only when as many others as the table    *)
(* holds were seen since: for any number of devices, any size of the table  *)
(* and any windows, also when both tasks make a report at once.             *)
THEOREM ReportsAreTrue == Near!Spec => []ReportIsTrue
<1>1. Near!Init => ReportIsTrue
  <2> SUFFICES ASSUME Near!Init PROVE ReportIsTrue
    OBVIOUS
  <2>1. report.peers = {} /\ report.made = FALSE
    BY DEF Near!Init, Near!NoList
  <2> QED
    BY <2>1 DEF ReportIsTrue, Near!ReportIsTruthful, Near!HeardIsReported
<1>2. NearInv /\ ReportIsTrue /\ [Near!Next]_(Near!vars) => ReportIsTrue'
  <2> SUFFICES ASSUME NearInv, ReportIsTrue, [Near!Next]_(Near!vars) PROVE ReportIsTrue'
    OBVIOUS
  <2>1. CASE UNCHANGED Near!vars
    <3>1. report' = report /\ noted' = noted
      BY <2>1 DEF Near!vars
    <3>2. Near!ReportIsTruthful'
      BY <3>1 DEF ReportIsTrue, Near!ReportIsTruthful
    <3>3. \A p \in Devices :
            /\ Near!Counts(p, noted[p].linked, LinkedFor)' =>
                 Near!Counts(p, noted[p].linked, LinkedFor)
            /\ Near!Counts(p, noted[p].heard, HeardFor)' =>
                 Near!Counts(p, noted[p].heard, HeardFor)
      BY <3>1 DEF Near!Counts, Near!Since, Near!Cardinality
    <3>4. Near!HeardIsReported'
      BY <3>1, <3>3 DEF ReportIsTrue, Near!HeardIsReported
    <3> QED
      BY <3>2, <3>4 DEF ReportIsTrue
  <2> QED
    BY <2>1, ListIsTrue
<1> QED
  BY NearInit, NearStep, <1>1, <1>2, PTL DEF Near!Spec
=============================================================================
