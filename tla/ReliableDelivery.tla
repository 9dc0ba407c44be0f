-------------------------- MODULE ReliableDelivery --------------------------
(***************************************************************************)
(* Firmware-level reliable delivery of a direct unicast conversation       *)
(* message from one EdgeZ device to another (halow_sync_bridge.c).         *)
(*                                                                         *)
(* Four threads take part.  On the sending device the mobile handler       *)
(* transmits a packet and then tracks it in s_reliable_pending; the        *)
(* reliable_tx_task retransmits entries whose ACK timer ran out; the radio *)
(* receive thread clears entries when an ACK arrives.  On the receiving    *)
(* device the radio receive thread first sends the ACK and then, after the *)
(* duplicate filter s_delivery_dedupe, hands the packet to the phone.      *)
(*                                                                         *)
(* Time is discrete.  Timestamps are kept as ages, so the comparisons      *)
(* now - t of the code are comparisons of ages; Tick makes everything one  *)
(* unit older.  Handlers finish within a unit.                             *)
(***************************************************************************)
EXTENDS Naturals, FiniteSets

CONSTANTS
  Messages,     \* the packets the phone submits: records with id, seq, text
  TableSize,    \* EDGEZ_RELIABLE_PENDING_TABLE_SIZE
  MaxAttempts,  \* EDGEZ_RELIABLE_MAX_ATTEMPTS
  AckTimeouts,  \* possible values of ack_timeout_ms, in ticks
  Slack,        \* how late reliable_tx_task may serve an expired entry
  MaxDelay,     \* how long a frame stays in the air before it is lost
  DedupeSize,   \* EDGEZ_DELIVERY_DEDUPE_TABLE_SIZE
  DedupeWindow, \* EDGEZ_DELIVERY_DEDUPE_WINDOW_MS, in ticks
  MaxSends      \* bound: how often the phone submits the same packet

ASSUME ConstantsAssumption ==
  /\ TableSize \in Nat \ {0}
  /\ MaxAttempts \in Nat \ {0}
  /\ AckTimeouts \subseteq Nat \ {0}
  /\ AckTimeouts # {}
  /\ Slack \in Nat
  /\ MaxDelay \in Nat
  /\ DedupeSize \in Nat \ {0}
  /\ DedupeWindow \in Nat
  /\ MaxSends \in Nat

(* Two packets with the same message id and sequence are the same packet.  *)
ASSUME MessagesAssumption ==
  /\ \A m \in Messages : m.seq \in Nat
  /\ \A m, n \in Messages : m.id = n.id /\ m.seq = n.seq => m = n

VARIABLES
  pending,     \* s_reliable_pending of the sender
  mobile,      \* the sender's mobile handler: packet sent but not yet stored
  worker,      \* reliable_tx_task: packet copied / re-checked for a retry
  air,         \* data and ACK frames in flight
  rx,          \* the receiver's radio thread: packet ACKed, not yet notified
  dedupe,      \* s_delivery_dedupe of the receiver
  deviceMode,  \* device_mode_is_enabled() at the receiver
  sends,       \* history: submissions by the phone
  tx,          \* history: frames of a packet the radio accepted
  acked,       \* history: packets whose entry an ACK cleared
  delivered    \* history: hand-overs of a packet to bridge_send_frame

vars == <<pending, mobile, worker, air, rx, dedupe, deviceMode,
          sends, tx, acked, delivered>>
senderVars   == <<pending, mobile, worker, acked>>
receiverVars == <<rx, dedupe, delivered>>

Slots       == 0 .. TableSize - 1
DedupeSlots == 0 .. DedupeSize - 1

Empty == [slot |-> "free"]
Sent(m, attempts, timeout) ==
  [slot |-> "valid", msg |-> m, attempts |-> attempts, age |-> 0,
   timeout |-> timeout]
Idle  == [at |-> "idle"]
At(where, m) == [at |-> where, msg |-> m]
Frame(kind, m) == [kind |-> kind, msg |-> m, age |-> 0]

Valid(s) == pending[s].slot = "valid"
Known(i) == dedupe[i].slot = "valid"

SameKey(m, n) == m.id = n.id /\ m.seq = n.seq
Holds(s, m)   == Valid(s) /\ SameKey(pending[s].msg, m)
Tracked(m)    == \E s \in Slots : Holds(s, m)

-----------------------------------------------------------------------------
(* The pending table *)

Full == \A s \in Slots : Valid(s)

IsFirstFree(s) == ~Valid(s) /\ \A t \in Slots : t < s => Valid(t)

(* The entry transmitted longest ago; the first one when several are.      *)
IsOldest(s) ==
  \A t \in Slots : \/ pending[t].age < pending[s].age
                   \/ pending[t].age = pending[s].age /\ s <= t

(* reliable_pending_store: the slot of the same packet, else the first     *)
(* free slot, else the oldest entry.                                       *)
StoresIn(s, m) ==
  IF Tracked(m) THEN Holds(s, m)
  ELSE IF Full THEN IsOldest(s)
  ELSE IsFirstFree(s)

IsDue(s) == Valid(s) /\ pending[s].age >= pending[s].timeout

(* Mutant: one attempt too many.                                           *)
IsExhausted_OffByOne(s) == pending[s].attempts > MaxAttempts

IsExhausted(s) == pending[s].attempts >= MaxAttempts

(* Mutant: the message is not compared.                                    *)
AckClears_AnyPacket(s, m) == Valid(s)

(* reliable_pending_ack: every valid entry of the packet is cleared.       *)
AckClears(s, m) == Holds(s, m)

(* handle_rx_frame consumes an ACK as a reliable ACK only when its         *)
(* sequence is not 0; a sequence of 0 is a message ACK for the phone.      *)
IsReliableAck(m) == m.seq # 0

-----------------------------------------------------------------------------
(* The duplicate filter.  It compares source and text; there is one source *)

IsFresh(i) == Known(i) /\ dedupe[i].age <= DedupeWindow

(* Mutants: the text is not compared; nothing is ever a duplicate.         *)
IsDuplicate_AnyText(i, m) == IsFresh(i)
IsDuplicate_Never(i, m) == FALSE

IsDuplicate(i, m) == IsFresh(i) /\ dedupe[i].text = m.text

(* delivery_dedupe_check_and_add: where a new text goes - the first        *)
(* expired entry, else the first free one, else the one seen longest ago.  *)
RemembersIn(i) ==
  LET expired == {j \in DedupeSlots : Known(j) /\ ~IsFresh(j)}
      free    == {j \in DedupeSlots : ~Known(j)}
      firstOf(S) == i \in S /\ \A j \in S : i <= j
  IN  IF expired # {} THEN firstOf(expired)
      ELSE IF free # {} THEN firstOf(free)
      ELSE \A j \in DedupeSlots :
             \/ dedupe[j].age < dedupe[i].age
             \/ dedupe[j].age = dedupe[i].age /\ i <= j

-----------------------------------------------------------------------------
(* The sending device *)

(* halow_sync_bridge_handle_to_radio, message case: transmit first.  A     *)
(* packet the radio refuses is reported to the phone and not tracked.      *)
MobileSend(m) ==
  /\ mobile = Idle
  /\ sends[m] < MaxSends
  /\ sends' = [sends EXCEPT ![m] = @ + 1]
  /\ \/ /\ air' = air \cup {Frame("data", m)}
        /\ tx' = [tx EXCEPT ![m] = @ + 1]
        /\ mobile' = At("sent", m)
     \/ UNCHANGED <<air, tx, mobile>>
  /\ UNCHANGED <<pending, worker, acked, deviceMode>>
  /\ UNCHANGED receiverVars

(* ... and then, still in the handler, reliable_pending_store.             *)
MobileStore ==
  /\ mobile.at = "sent"
  /\ \E s \in Slots, t \in AckTimeouts :
       /\ StoresIn(s, mobile.msg)
       /\ pending' = [pending EXCEPT ![s] = Sent(mobile.msg, 1, t)]
  /\ mobile' = Idle
  /\ UNCHANGED <<worker, acked, air, deviceMode, sends, tx>>
  /\ UNCHANGED receiverVars

(* Mutant: a retry re-times the entry but is not counted.                  *)
WorkerScan_NotCounted ==
  /\ worker = Idle
  /\ \E s \in Slots :
       /\ IsDue(s)
       /\ \A t \in Slots : t < s => ~IsDue(t)
       /\ pending' = [pending EXCEPT ![s] =
            Sent(@.msg, @.attempts, @.timeout)]
       /\ worker' = At("copied", pending[s].msg)
  /\ UNCHANGED <<mobile, acked, air, deviceMode, sends, tx>>
  /\ UNCHANGED receiverVars

(* reliable_tx_task under s_reliable_pending_lock: the first expired entry *)
(* is given up after MaxAttempts or counted, re-timed and copied.          *)
WorkerScan ==
  /\ worker = Idle
  /\ \E s \in Slots :
       /\ IsDue(s)
       /\ \A t \in Slots : t < s => ~IsDue(t)
       /\ \/ /\ IsExhausted(s)
             /\ pending' = [pending EXCEPT ![s] = Empty]
             /\ UNCHANGED worker
          \/ /\ ~IsExhausted(s)
             /\ pending' = [pending EXCEPT ![s] =
                  Sent(@.msg, @.attempts + 1, @.timeout)]
             /\ worker' = At("copied", pending[s].msg)
  /\ UNCHANGED <<mobile, acked, air, deviceMode, sends, tx>>
  /\ UNCHANGED receiverVars

(* reliable_pending_is_active: an ACK may have come since the copy.        *)
WorkerCheck ==
  /\ worker.at = "copied"
  /\ worker' = IF Tracked(worker.msg) THEN At("checked", worker.msg) ELSE Idle
  /\ UNCHANGED <<pending, mobile, acked, air, deviceMode, sends, tx>>
  /\ UNCHANGED receiverVars

(* halow_send_mesh_payload_via; its result is only logged.                 *)
WorkerSend ==
  /\ worker.at = "checked"
  /\ \/ /\ air' = air \cup {Frame("data", worker.msg)}
        /\ tx' = [tx EXCEPT ![worker.msg] = @ + 1]
     \/ UNCHANGED <<air, tx>>
  /\ worker' = Idle
  /\ UNCHANGED <<pending, mobile, acked, deviceMode, sends>>
  /\ UNCHANGED receiverVars

(* handle_rx_frame on the sender for an ACK.  The frame may be received    *)
(* again: the network can duplicate it.                                    *)
SenderReceive(f) ==
  /\ f.kind = "ack"
  /\ air' \in {air, air \ {f}}
  /\ \/ /\ IsReliableAck(f.msg)
        /\ pending' = [s \in Slots |->
             IF AckClears(s, f.msg) THEN Empty ELSE pending[s]]
        /\ acked' = acked \cup {m \in {f.msg} : Tracked(m)}
     \/ /\ ~IsReliableAck(f.msg)
        /\ UNCHANGED <<pending, acked>>
  /\ UNCHANGED <<mobile, worker, deviceMode, sends, tx>>
  /\ UNCHANGED receiverVars

-----------------------------------------------------------------------------
(* The receiving device *)

(* send_reliable_ack: suppressed for the beacon and sensor profiles.       *)
AckFrames(m) == IF deviceMode THEN {} ELSE {Frame("ack", m)}

(* handle_rx_frame on the receiver, up to send_reliable_ack, whose result  *)
(* is ignored.                                                             *)
ReceiverReceive(f) ==
  /\ f.kind = "data"
  /\ rx = Idle
  /\ \E kept \in {air, air \ {f}} :
       air' \in {kept, kept \cup AckFrames(f.msg)}
  /\ rx' = At("acked", f.msg)
  /\ UNCHANGED <<dedupe, delivered, deviceMode, sends, tx>>
  /\ UNCHANGED senderVars

(* The rest of handle_rx_frame: duplicate filter, then bridge_send_frame.  *)
ReceiverNotify ==
  /\ rx.at = "acked"
  /\ LET m == rx.msg IN
       \/ \E i \in DedupeSlots :
            /\ IsDuplicate(i, m)
            /\ dedupe' = [dedupe EXCEPT ![i].age = 0]
            /\ UNCHANGED delivered
       \/ /\ \A i \in DedupeSlots : ~IsDuplicate(i, m)
          /\ \E i \in DedupeSlots :
               /\ RemembersIn(i)
               /\ dedupe' = [dedupe EXCEPT ![i] =
                    [slot |-> "valid", text |-> m.text, age |-> 0]]
          /\ delivered' = [delivered EXCEPT ![m] = @ + 1]
  /\ rx' = Idle
  /\ UNCHANGED <<air, deviceMode, sends, tx>>
  /\ UNCHANGED senderVars

(* device_settings_apply: the phone changes the device profile.            *)
SetDeviceMode ==
  /\ deviceMode' = ~deviceMode
  /\ UNCHANGED <<air, sends, tx>>
  /\ UNCHANGED senderVars
  /\ UNCHANGED receiverVars

-----------------------------------------------------------------------------
(* The radio medium and the clock (outside the repository) *)

Lose(f) ==
  /\ air' = air \ {f}
  /\ UNCHANGED <<deviceMode, sends, tx>>
  /\ UNCHANGED senderVars
  /\ UNCHANGED receiverVars

(* Frames outlive MaxDelay nowhere, and reliable_tx_task serves an expired *)
(* entry within Slack.  An expired duplicate entry need not age further.   *)
Tick ==
  /\ mobile = Idle /\ worker = Idle /\ rx = Idle
  /\ \A f \in air : f.age < MaxDelay
  /\ \A s \in Slots :
       Valid(s) => pending[s].age < pending[s].timeout + Slack
  /\ air' = {[f EXCEPT !.age = @ + 1] : f \in air}
  /\ pending' = [s \in Slots |->
       IF Valid(s) THEN [pending[s] EXCEPT !.age = @ + 1]
       ELSE pending[s]]
  /\ dedupe' = [i \in DedupeSlots |->
       IF IsFresh(i) THEN [dedupe[i] EXCEPT !.age = @ + 1] ELSE dedupe[i]]
  /\ UNCHANGED <<mobile, worker, acked, rx, delivered, deviceMode, sends, tx>>

-----------------------------------------------------------------------------
Init ==
  /\ pending = [s \in Slots |-> Empty]
  /\ mobile = Idle
  /\ worker = Idle
  /\ air = {}
  /\ rx = Idle
  /\ dedupe = [i \in DedupeSlots |-> Empty]
  /\ deviceMode \in BOOLEAN
  /\ sends = [m \in Messages |-> 0]
  /\ tx = [m \in Messages |-> 0]
  /\ acked = {}
  /\ delivered = [m \in Messages |-> 0]

WorkerNext == WorkerScan \/ WorkerCheck \/ WorkerSend
AirNext    == \E f \in air : SenderReceive(f) \/ ReceiverReceive(f) \/ Lose(f)

Next ==
  \/ \E m \in Messages : MobileSend(m)
  \/ MobileStore
  \/ WorkerNext
  \/ AirNext
  \/ ReceiverNotify
  \/ SetDeviceMode
  \/ Tick

Spec == Init /\ [][Next]_vars

(* The FreeRTOS tasks are scheduled, a frame leaves the air at the latest  *)
(* after MaxDelay, and time passes.                                        *)
Expire(kind) == \E f \in air : f.kind = kind /\ f.age = MaxDelay /\ Lose(f)

Fairness ==
  /\ WF_vars(MobileStore)
  /\ WF_vars(WorkerNext)
  /\ WF_vars(ReceiverNotify)
  /\ \A kind \in {"data", "ack"} : WF_vars(Expire(kind))
  /\ SF_vars(Tick)

FairSpec == Spec /\ Fairness

-----------------------------------------------------------------------------
(* Properties *)

Entry  == [slot : {"valid"}, msg : Messages, attempts : 1 .. MaxAttempts,
           age : Nat, timeout : AckTimeouts]
Frames == [kind : {"data", "ack"}, msg : Messages, age : Nat]
Texts  == {m.text : m \in Messages}

(* The tables, the program points of the threads and the frames in the air *)
(* have their types; in particular attempts stays within 1..MaxAttempts.   *)
TypeOK ==
  /\ pending \in [Slots -> Entry \cup {Empty}]
  /\ mobile \in [at : {"sent"}, msg : Messages] \cup {Idle}
  /\ worker \in [at : {"copied", "checked"}, msg : Messages] \cup {Idle}
  /\ air \in SUBSET Frames
  /\ rx \in [at : {"acked"}, msg : Messages] \cup {Idle}
  /\ dedupe \in [DedupeSlots ->
                 [slot : {"valid"}, text : Texts, age : Nat] \cup {Empty}]
  /\ deviceMode \in BOOLEAN
  /\ sends \in [Messages -> Nat]
  /\ tx \in [Messages -> Nat]
  /\ acked \subseteq Messages
  /\ delivered \in [Messages -> Nat]

(* reliable_pending_store never leaves two entries for one packet: a       *)
(* second entry would be retried on its own, and reliable_tx_task would    *)
(* send the packet more often than EDGEZ_RELIABLE_MAX_ATTEMPTS.            *)
UniqueKeys ==
  \A s, t \in Slots :
    Valid(s) /\ Valid(t) /\ SameKey(pending[s].msg, pending[t].msg)
      => s = t

(* The firmware spends at most MaxAttempts frames on each submission by    *)
(* the phone, whatever the order in which the mobile handler, the retry    *)
(* task and ACKs reach the table.                                          *)
EffortBounded == \A m \in Messages : tx[m] <= MaxAttempts * sends[m]

(* Frames the retry task is about to send, and retries the entry about to  *)
(* be stored will be worth.                                                *)
InFlight(m) == IF worker.at # "idle" /\ worker.msg = m THEN 1 ELSE 0
ToStore(m)  == IF mobile.at = "sent" /\ mobile.msg = m THEN MaxAttempts - 1 ELSE 0

(* Why EffortBounded holds: what has been sent, what is in flight in the   *)
(* two sending threads and what the entry still allows share one budget.   *)
RetryBudget ==
  \A m \in Messages :
    LET used == tx[m] + InFlight(m) + ToStore(m) IN
    /\ used <= MaxAttempts * sends[m]
    /\ \A s \in Slots : Holds(s, m) =>
         used + (MaxAttempts - pending[s].attempts) <= MaxAttempts * sends[m]

(* Retries and duplicated frames of one submission reach the phone once:   *)
(* the duplicate filter outlives the retries.                              *)
AtMostOncePerSend == \A m \in Messages : delivered[m] <= sends[m]

(* A tracked packet leaves the table only because an ACK for it is there,  *)
(* its attempts are used up, or another takes its place in a full table.   *)
LossIsJustified ==
  [][\A m \in Messages : Tracked(m) /\ ~Tracked(m)' =>
       \/ \E f \in air : f.kind = "ack" /\ SameKey(f.msg, m)
       \/ \E s \in Slots : Holds(s, m) /\ pending[s].attempts = MaxAttempts
       \/ Full /\ \E n \in Messages : ~Tracked(n) /\ Tracked(n)']_vars

(* An ACK reaches the sender before the packet reaches the phone.  Still,  *)
(* when it does, the receiver is about to run the duplicate filter on the  *)
(* packet or has handed over a packet with the same text.                  *)
AckedTextDelivered ==
  \A m \in acked :
    \/ rx.at = "acked" /\ rx.msg = m
    \/ \E n \in Messages : n.text = m.text /\ delivered[n] > 0

(* No packet is retried for ever: every entry leaves the table.            *)
PendingResolves == \A m \in Messages : Tracked(m) ~> ~Tracked(m)

(* What the comment in reliable_tx_task promises: a retry whose entry an   *)
(* ACK has cleared is not emitted.                                         *)
NoStaleRetry ==
  [][\A m \in Messages :
       worker = At("checked", m) /\ tx'[m] > tx[m] /\ worker' = Idle
         => Tracked(m)]_vars

(* What reliable delivery means to the sending user: an acknowledged       *)
(* packet is handed to the phone of the receiver.                          *)
AckedImpliesDelivered ==
  \A m \in acked : (rx.at = "acked" /\ rx.msg = m) \/ delivered[m] > 0

=============================================================================
