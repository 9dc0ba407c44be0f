-------------------------- MODULE Transfers_proofs --------------------------
(***************************************************************************)
(* What is proved of the transfers of a device: lease and slot are handed  *)
(* over without leak or overlap and a full transfer sends one whole sample,*)
(* for every chunk size and any number of samples and requests, and the    *)
(* memory a script publishes is its own.                                   *)
(***************************************************************************)
EXTENDS MCTransfers, Integers, TLAPS

-----------------------------------------------------------------------------
(* The transfers of the serving buffer (GlobalBuffer)                       *)

USE ConstantsAssumption

(* The state splits into what the chunk arithmetic needs to be typed and   *)
(* the program points and flags of the threads.                            *)
LeaseInv == SlotHandedOver /\ LeaseAccounted

Points ==
  /\ sampler \in {"idle", "publish", "copy"}
  /\ sem \in BOOLEAN /\ active \in BOOLEAN
  /\ acquired \in BOOLEAN /\ pending \in BOOLEAN
  /\ rx.at \in {"idle", "reserved", "leased", "refuse", "installed"}
  /\ worker.at \in {"idle", "woken", "built", "sent", "spacing", "reset",
                    "complete", "give"}

LEMMA InitLease == Init => Points /\ LeaseInv
<1> SUFFICES ASSUME Init PROVE Points /\ LeaseInv
  OBVIOUS
<1> USE DEF Init, Idle
<1>1. Points
  BY DEF Points
<1>2. SlotHandedOver
  BY DEF SlotHandedOver, Admitting, Sending
<1>3. LeaseAccounted
  BY DEF LeaseAccounted, HasLease
<1> QED
  BY <1>1, <1>2, <1>3 DEF LeaseInv

LEMMA NextPoints == Points /\ [Next]_vars => Points'
<1> SUFFICES ASSUME Points, [Next]_vars PROVE Points'
  OBVIOUS
<1> USE DEF Points, samplerVars, transferVars, historyVars, Idle, AtPoint
<1>1. CASE SamplerNext
  BY <1>1 DEF SamplerNext, RunScript, PublishTake, PublishCopy
<1>2. ASSUME NEW q, Reserve(q) PROVE Points'
  BY <1>2 DEF Reserve
<1>3. CASE RxStep
  <2>1. CASE Acquire
    <3>1. /\ sem' = FALSE \/ sem' = sem
          /\ rx'.at = "leased" \/ rx'.at = "refuse"
      BY <2>1 DEF Acquire
    <3>2. UNCHANGED <<sampler, active, acquired, pending, worker>>
      BY <2>1 DEF Acquire
    <3> QED
      BY <3>1, <3>2
  <2>2. CASE RefuseSnapshot
    BY <2>2 DEF RefuseSnapshot
  <2>3. CASE Refuse
    BY <2>3 DEF Refuse, Reset
  <2>4. CASE Install
    BY <2>4 DEF Install
  <2>5. CASE ScheduleFirst
    BY <2>5 DEF ScheduleFirst, Schedule
  <2> QED
    BY <1>3, <2>1, <2>2, <2>3, <2>4, <2>5 DEF RxStep
<1>4. CASE WorkerNext
  <2>1. CASE WorkerWake
    BY <2>1 DEF WorkerWake
  <2>2. CASE Build
    BY <2>2 DEF Build
  <2>3. CASE BuildNothing
    BY <2>3 DEF BuildNothing
  <2>4. CASE Transmit
    BY <2>4 DEF Transmit
  <2>5. CASE Advance
    BY <2>5 DEF Advance
  <2>6. CASE ScheduleNext
    BY <2>6 DEF ScheduleNext, Schedule
  <2>7. CASE WorkerReset
    BY <2>7 DEF WorkerReset, Reset, AfterReset
  <2>8. CASE WorkerGive
    BY <2>8 DEF WorkerGive
  <2> QED
    BY <1>4, <2>1, <2>2, <2>3, <2>4, <2>5, <2>6, <2>7, <2>8 DEF WorkerNext
<1>5. CASE UNCHANGED vars
  BY <1>5 DEF vars
<1> QED
  BY <1>1, <1>2, <1>3, <1>4, <1>5 DEF Next, RequestNext

-----------------------------------------------------------------------------
(* The lease *)

(* The single serving slot is handed from the request to the transfer and  *)
(* back, and the semaphore with it.                                        *)
LEMMA NextLease == Points /\ LeaseInv /\ [Next]_vars => LeaseInv'
<1> SUFFICES ASSUME Points, LeaseInv, [Next]_vars PROVE LeaseInv'
  OBVIOUS
<1> USE DEF Points, LeaseInv, SlotHandedOver, LeaseAccounted, HasLease, Users,
            Admitting, Sending, samplerVars, transferVars, historyVars, Idle, AtPoint
<1>1. CASE SamplerNext
  <2>1. CASE RunScript
    BY <2>1 DEF RunScript
  <2>2. CASE PublishTake
    BY <2>2 DEF PublishTake
  <2>3. CASE PublishCopy
    BY <2>3 DEF PublishCopy
  <2> QED
    BY <1>1, <2>1, <2>2, <2>3 DEF SamplerNext
<1>2. ASSUME NEW q, Reserve(q) PROVE LeaseInv'
  BY <1>2 DEF Reserve
<1>3. CASE RxStep
  <2>1. CASE Acquire
    BY <2>1 DEF Acquire
  <2>2. CASE RefuseSnapshot
    BY <2>2 DEF RefuseSnapshot
  <2>3. CASE Refuse
    BY <2>3 DEF Refuse, Reset
  <2>4. CASE Install
    BY <2>4 DEF Install
  <2>5. CASE ScheduleFirst
    BY <2>5 DEF ScheduleFirst, Schedule
  <2> QED
    BY <1>3, <2>1, <2>2, <2>3, <2>4, <2>5 DEF RxStep
<1>4. CASE WorkerNext
  <2>1. CASE WorkerWake
    BY <2>1 DEF WorkerWake
  <2>2. CASE Build
    BY <2>2 DEF Build
  <2>3. CASE BuildNothing
    BY <2>3 DEF BuildNothing
  <2>4. CASE Transmit
    BY <2>4 DEF Transmit
  <2>5. CASE Advance
    BY <2>5 DEF Advance
  <2>6. CASE ScheduleNext
    BY <2>6 DEF ScheduleNext, Schedule
  <2>7. CASE WorkerReset
    BY <2>7 DEF WorkerReset, Reset, AfterReset
  <2>8. CASE WorkerGive
    BY <2>8 DEF WorkerGive
  <2> QED
    BY <1>4, <2>1, <2>2, <2>3, <2>4, <2>5, <2>6, <2>7, <2>8 DEF WorkerNext
<1>5. CASE UNCHANGED vars
  BY <1>5 DEF vars
<1> QED
  BY <1>1, <1>2, <1>3, <1>4, <1>5 DEF Next, RequestNext

(* The semaphore is never leaked, never given twice, and never held by two *)
(* users.                                                                  *)
THEOREM LeaseIsAccounted == Spec => []LeaseAccounted
<1>1. Points /\ LeaseInv => LeaseAccounted
  BY DEF LeaseInv
<1> QED
  BY <1>1, InitLease, NextPoints, NextLease, PTL DEF Spec

(* No wake-up is lost, and the task never works on a reservation.          *)
THEOREM SlotIsHandedOver == Spec => []SlotHandedOver
<1>1. Points /\ LeaseInv => SlotHandedOver
  BY DEF LeaseInv
<1> QED
  BY <1>1, InitLease, NextPoints, NextLease, PTL DEF Spec

(* Lease and slot are inductive only together.                             *)
THEOREM BufferIsAccounted == Spec => []BufferAccounted
<1>1. Points /\ LeaseInv => BufferAccounted
  BY DEF LeaseInv, BufferAccounted
<1> QED
  BY <1>1, InitLease, NextPoints, NextLease, PTL DEF Spec

-----------------------------------------------------------------------------
(* The threads implement the abstract lease *)

BufferInv == working \in Samples /\ serving \in Samples

LEMMA InitBuffer == Init => BufferInv
BY DEF Init, BufferInv, Samples

(* Only the sampler writes the two buffers.                                *)
LEMMA NextBuffer == BufferInv /\ [Next]_vars => BufferInv'
<1> SUFFICES ASSUME BufferInv, [Next]_vars PROVE BufferInv'
  OBVIOUS
<1>1. CASE RunScript
  <2>1. PICK l \in SampleLengths :
          working' = [sample |-> working.sample + 1, length |-> l]
    BY <1>1 DEF RunScript
  <2> QED
    BY <1>1, <2>1 DEF RunScript, BufferInv, Samples
<1>2. CASE PublishCopy
  BY <1>2 DEF PublishCopy, BufferInv
<1>3. CASE UNCHANGED <<working, serving>>
  BY <1>3 DEF BufferInv
<1> QED
  BY <1>1, <1>2, <1>3
     DEF Next, RequestNext, SamplerNext, RxStep, WorkerNext, vars, samplerVars,
         PublishTake, Reserve, Acquire, RefuseSnapshot, Refuse, Install,
         ScheduleFirst, WorkerWake, Build, BuildNothing, Transmit, Advance,
         ScheduleNext, WorkerReset, WorkerGive

(* Every step takes, keeps or returns the lease, and the snapshot changes  *)
(* only under the publisher's lease.                                       *)
LEMMA NextImplements ==
  ASSUME Points, LeaseInv, LeaseInv', BufferInv', [Next]_vars
  PROVE  [Lease!Next]_(Lease!vars)
<1> USE DEF LeaseInv, LeaseAccounted, HasLease, Users, Points
<1> DEFINE Stutter == Holder' = Holder /\ serving' = serving
<1>1. CASE PublishTake
  <2>1. Holder = "none" /\ Holder' = "publisher" /\ serving' = serving
    BY <1>1 DEF PublishTake, Holder
  <2> QED
    BY <2>1 DEF Lease!Next, Lease!Take
<1>2. CASE PublishCopy
  <2>1. Holder = "publisher" /\ Holder' = "none" /\ serving' \in Samples
    BY <1>2 DEF PublishCopy, Holder, BufferInv
  <2> QED
    BY <2>1 DEF Lease!Next, Lease!Publish
<1>3. CASE Acquire
  <2>1. \/ Holder = "none" /\ Holder' = "transfer" /\ serving' = serving
        \/ Stutter
    BY <1>3 DEF Acquire, Holder, AtPoint, samplerVars, transferVars
  <2> QED
    BY <2>1 DEF Lease!Next, Lease!Take, Lease!vars
<1>4. CASE RefuseSnapshot
  <2>1. Holder = "transfer" /\ Holder' = "none" /\ serving' = serving
    BY <1>4 DEF RefuseSnapshot, Holder, AtPoint, samplerVars, transferVars
  <2> QED
    BY <2>1 DEF Lease!Next, Lease!EndTransfer
<1>5. CASE WorkerGive
  <2>1. Holder = "transfer" /\ Holder' = "none" /\ serving' = serving
    BY <1>5 DEF WorkerGive, Holder, Idle, samplerVars, transferVars
  <2> QED
    BY <2>1 DEF Lease!Next, Lease!EndTransfer
<1>6. ASSUME Stutter PROVE [Lease!Next]_(Lease!vars)
  BY <1>6 DEF Lease!vars
<1>7. CASE RunScript
  BY <1>6, <1>7 DEF RunScript, Holder, transferVars
<1>8. ASSUME NEW q, Reserve(q) PROVE Stutter
  BY <1>8 DEF Reserve, Holder, Idle, samplerVars
<1>9. CASE Refuse
  BY <1>6, <1>9 DEF Refuse, Reset, Holder, Idle, samplerVars, SlotHandedOver,
                    Admitting
<1>10. CASE Install
  BY <1>6, <1>10 DEF Install, Holder, AtPoint, samplerVars
<1>11. CASE ScheduleFirst
  BY <1>6, <1>11 DEF ScheduleFirst, Holder, Idle, samplerVars, transferVars
<1>12. CASE WorkerNext
  <2>1. CASE WorkerWake \/ BuildNothing \/ ScheduleNext
    BY <1>6, <2>1 DEF WorkerWake, BuildNothing, ScheduleNext, Holder, Idle, AtPoint,
                      samplerVars, transferVars
  <2>2. CASE Build
    <3>1. worker'.at = "built" /\ UNCHANGED <<sampler, rx, acquired, serving>>
      BY <2>2 DEF Build, samplerVars
    <3>2. worker.at = "woken"
      BY <2>2 DEF Build
    <3> QED
      BY <1>6, <3>1, <3>2 DEF Holder
  <2>3. CASE Transmit
    BY <1>6, <2>3 DEF Transmit, Holder, AtPoint, samplerVars, transferVars
  <2>4. CASE Advance
    <3>1. worker'.at \in {"complete", "spacing"} /\ UNCHANGED <<sampler, rx, acquired, serving>>
      BY <2>4 DEF Advance, AtPoint, samplerVars
    <3>2. worker.at = "sent"
      BY <2>4 DEF Advance
    <3> QED
      BY <1>6, <3>1, <3>2 DEF Holder
  <2>5. CASE WorkerReset
    BY <1>6, <2>5 DEF WorkerReset, Reset, AfterReset, Holder, Idle, AtPoint, samplerVars
  <2> QED
    BY <1>5, <1>12, <2>1, <2>2, <2>3, <2>4, <2>5 DEF WorkerNext
<1>13. CASE UNCHANGED vars
  BY <1>6, <1>13 DEF vars, Holder
<1> QED
  BY <1>1, <1>2, <1>3, <1>4, <1>6, <1>7, <1>8, <1>9, <1>10, <1>11, <1>12, <1>13
     DEF Next, RequestNext, SamplerNext, RxStep

(* The semaphore, the reservation of the slot and the hand-over between    *)
(* the threads implement a lease under which a transfer sees one snapshot. *)
THEOREM ImplementsServingLease == Spec => ImplementsLease
<1>1. Init => Lease!Init
  BY InitBuffer DEF Init, Lease!Init, Holder, HasLease, Users, BufferInv, Idle
<1>2. Points /\ LeaseInv /\ LeaseInv' /\ BufferInv' /\ [Next]_vars
        => [Lease!Next]_(Lease!vars)
  BY NextImplements
<1> QED
  BY <1>1, <1>2, InitLease, NextPoints, NextLease, InitBuffer, NextBuffer, PTL
     DEF Spec, ImplementsLease, Lease!Spec

-----------------------------------------------------------------------------
(* What a transfer sends                                                   *)

(* The transfer has a chunk to send next, or one that it is sending.       *)
Waiting  == rx.at = "installed" \/ pending \/ worker.at \in {"woken", "spacing"}
Carrying == worker.at \in {"built", "sent"}

Addressed(c) ==
  /\ c.offset = c.index * ChunkSize
  /\ c.index < c.total
  /\ c.size < ChunkSize => c.index = c.total - 1

(* The first n chunks of the transfer, and no others, are on the air.      *)
Covered(n) ==
  /\ \A c \in sent : c.id = target.id => c.index < n
  /\ \A i \in Nat : i < n => \E c \in sent : c.id = target.id /\ c.index = i

(* A request that was admitted asks for a part of a sample.                *)
RequestFits ==
  /\ rx.at \in {"reserved", "leased"} => rx.query \in Queries
  /\ rx.at = "leased" => serving.length > 0

TargetFits == acquired =>
  /\ target \in Targets
  /\ length = serving.length
  /\ target.end \in 1 .. length
  /\ target.group = 0 => target.end = length
  /\ target.id <= lastId
  /\ \A c \in sent : c.id = target.id => c.sample = serving.sample

(* From offset next to offset end: the rest of the sample, or one chunk.   *)
Rest(next) == next < target.end /\ target.end \in {length, next + ChunkSize}

OpenFits == Waiting =>
  /\ target.next = target.sequence * ChunkSize
  /\ Rest(target.next)
  /\ target.group = 0 => Covered(target.sequence)

CarryFits == Carrying =>
  LET c == worker.chunk IN
  /\ c.index \in Nat /\ c.id \in 1 .. lastId /\ Addressed(c)
  /\ c.id = target.id /\ c.offset = target.next /\ target.sequence = c.index + 1
  /\ Rest(c.offset)
  /\ c.size = Smaller(target.end - c.offset, ChunkSize)
  /\ c.sample = serving.sample
  /\ target.group = 0 => Covered(IF worker.at = "built" THEN c.index ELSE c.index + 1)

DoneFits ==
  worker.at = "complete" /\ target.group = 0 => Covered(CeilChunks(length))

SentFits ==
  /\ lastId \in Nat
  /\ \A c \in sent : c.id \in 1 .. lastId /\ c.index \in Nat /\ Addressed(c)
  /\ TransferFromOneSample

WholeInv ==
  /\ Points /\ LeaseInv /\ BufferInv
  /\ RequestFits /\ TargetFits /\ OpenFits /\ CarryFits /\ DoneFits /\ SentFits

(* Dividing into chunks: n bytes need k + 1 of them when k are too few.    *)
LEMMA CeilBounds ==
  ASSUME NEW n \in Nat
  PROVE  /\ CeilChunks(n) \in Int
         /\ n <= ChunkSize * CeilChunks(n)
         /\ ChunkSize * CeilChunks(n) < n + ChunkSize
<1>1. ASSUME NEW a \in Nat
      PROVE  /\ a \div ChunkSize \in Int
             /\ ChunkSize * (a \div ChunkSize) <= a
             /\ a < ChunkSize * (a \div ChunkSize) + ChunkSize
  BY SMTT(60)
<1>2. n + ChunkSize - 1 \in Nat
  OBVIOUS
<1>3. /\ CeilChunks(n) \in Int
      /\ ChunkSize * CeilChunks(n) <= n + ChunkSize - 1
      /\ n + ChunkSize - 1 < ChunkSize * CeilChunks(n) + ChunkSize
  BY <1>1, <1>2 DEF CeilChunks
<1>4. ChunkSize * CeilChunks(n) \in Int
  BY <1>3
<1> QED
  BY <1>3, <1>4

LEMMA Times_Smaller ==
  ASSUME NEW k \in Int, NEW q \in Int, ChunkSize * k < ChunkSize * q
  PROVE  k < q
<1>1. SUFFICES ASSUME q <= k PROVE FALSE
  OBVIOUS
<1>2. ChunkSize * q <= ChunkSize * k
  BY <1>1
<1>3. ChunkSize * k \in Int /\ ChunkSize * q \in Int
  OBVIOUS
<1> QED
  BY <1>2, <1>3

LEMMA IndexFits ==
  ASSUME NEW n \in Nat, NEW k \in Nat, k * ChunkSize < n
  PROVE  /\ k < CeilChunks(n)
         /\ n <= k * ChunkSize + ChunkSize => CeilChunks(n) = k + 1
<1> DEFINE q == CeilChunks(n)
<1>1. /\ q \in Int /\ ChunkSize * q \in Int /\ n <= ChunkSize * q
      /\ ChunkSize * q < n + ChunkSize
  BY CeilBounds
<1>2. ChunkSize * k = k * ChunkSize /\ ChunkSize * k \in Int
  OBVIOUS
<1> HIDE DEF q
<1>3. k < q
  <2>1. ChunkSize * k < ChunkSize * q
    BY <1>1, <1>2
  <2> QED
    BY <1>1, <2>1, Times_Smaller
<1>4. ASSUME n <= k * ChunkSize + ChunkSize
      PROVE  q = k + 1
  <2>1. ChunkSize * (k + 2) = ChunkSize * k + ChunkSize + ChunkSize
    OBVIOUS
  <2>2. ChunkSize * q < ChunkSize * (k + 2)
    BY <1>1, <1>2, <1>4, <2>1
  <2>3. q < k + 2
    BY <1>1, <2>2, Times_Smaller
  <2> QED
    BY <1>1, <1>3, <2>3
<1> QED
  BY <1>3, <1>4 DEF q

LEMMA SmallerIs ==
  \A a, b \in Nat : Smaller(a, b) \in Nat /\ Smaller(a, b) <= a /\ Smaller(a, b) <= b
                    /\ Smaller(a, b) \in {a, b}
BY DEF Smaller

-----------------------------------------------------------------------------
(* The steps of a transfer                                                 *)

(* A step that leaves the transfer and what it sent alone.                 *)
LEMMA TransferKept ==
  ASSUME WholeInv, Points', LeaseInv', BufferInv', RequestFits',
         UNCHANGED <<target, length, acquired, serving, sent, lastId>>,
         Waiting' => Waiting, Carrying' => Carrying /\ worker' = worker,
         worker'.at = "complete" => worker.at = "complete"
  PROVE  WholeInv'
<1>1. \A n : Covered(n)' <=> Covered(n)
  BY DEF Covered
<1>2. TargetFits' /\ OpenFits' /\ DoneFits'
  BY <1>1 DEF WholeInv, TargetFits, OpenFits, DoneFits, Rest
<1>3. CarryFits'
  BY <1>1 DEF WholeInv, CarryFits, Rest, Addressed
<1>4. SentFits'
  BY DEF WholeInv, SentFits, TransferFromOneSample, Addressed
<1> QED
  BY <1>2, <1>3, <1>4 DEF WholeInv

(* Without a transfer only what was sent before counts.                    *)
LEMMA NoTransfer ==
  ASSUME WholeInv, Points', LeaseInv', BufferInv', RequestFits', ~acquired',
         UNCHANGED <<sent, lastId>>
  PROVE  WholeInv'
<1>1. ~Waiting' /\ ~Carrying' /\ worker'.at # "complete"
  BY DEF LeaseInv, SlotHandedOver, Sending, Waiting, Carrying, Points
<1>2. SentFits'
  BY DEF WholeInv, SentFits, TransferFromOneSample, Addressed
<1> QED
  BY <1>1, <1>2 DEF WholeInv, TargetFits, OpenFits, CarryFits, DoneFits

LEMMA SamplerWhole ==
  ASSUME WholeInv, Points', LeaseInv', BufferInv', SamplerNext
  PROVE  WholeInv'
<1>1. CASE RunScript \/ PublishTake
  <2>1. UNCHANGED <<target, length, acquired, serving, sent, lastId, rx, worker, pending>>
    BY <1>1 DEF RunScript, PublishTake, transferVars, historyVars
  <2>2. RequestFits'
    BY <2>1 DEF WholeInv, RequestFits
  <2> QED
    BY <2>1, <2>2, TransferKept DEF Waiting, Carrying
<1>2. CASE PublishCopy
  <2>1. ~acquired /\ rx.at # "leased"
    BY <1>2 DEF PublishCopy, WholeInv, LeaseInv, LeaseAccounted, HasLease, Users
  <2>2. UNCHANGED <<acquired, sent, lastId, rx>>
    BY <1>2 DEF PublishCopy, transferVars, historyVars
  <2>3. RequestFits'
    BY <2>1, <2>2 DEF WholeInv, RequestFits
  <2> QED
    BY <2>1, <2>2, <2>3, NoTransfer
<1> QED
  BY <1>1, <1>2 DEF SamplerNext

LEMMA ReserveWhole ==
  ASSUME WholeInv, Points', LeaseInv', BufferInv', RequestNext
  PROVE  WholeInv'
<1>1. PICK q \in Queries : Reserve(q)
  <2>1. ASSUME NEW n \in SampleLengths \cup {0}
        PROVE  FullRequest(n) \in Queries
    <3>1. n \in Nat
      BY ConstantsAssumption
    <3>2. [kind |-> "full", expected |-> n] \in [kind : {"full"}, expected : Nat]
      BY <3>1
    <3> QED
      BY <3>2 DEF FullRequest, Queries
  <2>2. ASSUME NEW g \in 0 .. lastId, NEW i \in ChunkIndexes
        PROVE  ChunkRequest(g, i) \in Queries
    BY DEF ChunkRequest, Queries, WholeInv, SentFits
  <2> QED
    BY <2>1, <2>2 DEF RequestNext
<1>2. /\ UNCHANGED <<acquired, sent, lastId>> /\ ~active
      /\ rx' = [at |-> "reserved", query |-> q]
  BY <1>1 DEF Reserve
<1>3. ~acquired
  BY <1>2 DEF WholeInv, LeaseInv, SlotHandedOver, Admitting
<1>4. RequestFits'
  BY <1>2 DEF RequestFits
<1> QED
  BY <1>2, <1>3, <1>4, NoTransfer

(* A request that is turned away, or that has the lease now.               *)
LEMMA AdmitWhole ==
  ASSUME WholeInv, Points', LeaseInv', BufferInv', Acquire \/ RefuseSnapshot \/ Refuse
  PROVE  WholeInv'
<1>1. rx.at \in {"reserved", "leased", "refuse"}
  BY DEF Acquire, RefuseSnapshot, Refuse
<1>2. ~acquired
  BY <1>1 DEF WholeInv, LeaseInv, SlotHandedOver, Admitting, Sending
<1>3. UNCHANGED <<sent, lastId, serving>> /\ ~acquired'
  BY <1>2 DEF Acquire, RefuseSnapshot, Refuse, Reset, transferVars, historyVars
<1>4. RequestFits'
  <2>1. CASE Acquire
    <3>1. \/ serving.length > 0 /\ rx' = [at |-> "leased", query |-> rx.query]
          \/ rx' = [at |-> "refuse"]
      BY <2>1 DEF Acquire, AtPoint
    <3> QED
      BY <1>3, <2>1, <3>1 DEF WholeInv, RequestFits, Acquire
  <2>2. CASE RefuseSnapshot \/ Refuse
    <3>1. rx' = [at |-> "refuse"] \/ rx' = [at |-> "idle"]
      BY <2>2 DEF RefuseSnapshot, Refuse, AtPoint, Idle
    <3> QED
      BY <3>1 DEF RequestFits
  <2> QED
    BY <2>1, <2>2
<1> QED
  BY <1>3, <1>4, NoTransfer

(* The transfer that starts reads a part of the sample that is served.     *)
LEMMA InstallWhole ==
  ASSUME WholeInv, Points', LeaseInv', BufferInv', Install
  PROVE  WholeInv'
<1> DEFINE q == rx.query
<1>1. /\ q \in Queries /\ Acceptable(q) /\ serving.length \in Nat /\ serving.length > 0
      /\ lastId \in Nat
  BY DEF Install, WholeInv, RequestFits, BufferInv, Samples, SentFits
<1>2. /\ target' = [use      |-> "active",
                    next     |-> FirstOffset(q),
                    end      |-> EndOffset(q),
                    sequence |-> IF q.kind = "full" THEN 0 ELSE q.index,
                    group    |-> IF q.kind = "full" THEN 0 ELSE q.group,
                    id       |-> 0]
      /\ length' = serving.length /\ rx' = [at |-> "installed"]
      /\ UNCHANGED <<serving, pending, worker, sent, lastId>>
  BY DEF Install, AtPoint, historyVars
<1>3. ~Sending
  BY DEF WholeInv, LeaseInv, SlotHandedOver, Admitting, Install
<1>4. ~pending /\ worker.at \in {"idle", "give"}
  BY <1>3 DEF Sending
<1>5. /\ FirstOffset(q) \in Nat /\ EndOffset(q) \in Nat
      /\ FirstOffset(q) < EndOffset(q) /\ EndOffset(q) <= serving.length
      /\ EndOffset(q) \in {serving.length, FirstOffset(q) + ChunkSize}
      /\ q.kind = "full" => FirstOffset(q) = 0 /\ EndOffset(q) = serving.length
      /\ q.kind # "full" => FirstOffset(q) = q.index * ChunkSize /\ q.group \in Nat \ {0}
                            /\ q.index \in Nat
  <2>1. CASE q.kind = "full"
    BY <1>1, <2>1 DEF FirstOffset, EndOffset
  <2>2. CASE q.kind # "full"
    <3>1. q \in [kind : {"chunk"}, group : Nat, index : Nat]
      BY <1>1, <2>2 DEF Queries
    <3>2. q.group \in Nat \ {0} /\ q.index \in Nat /\ q.index * ChunkSize < serving.length
      BY <1>1, <2>2, <3>1 DEF Acceptable
    <3>3. q.index * ChunkSize \in Nat
      BY <3>2
    <3>4. EndOffset(q) = Smaller(q.index * ChunkSize + ChunkSize, serving.length)
      BY <2>2 DEF FirstOffset, EndOffset
    <3>5. /\ EndOffset(q) \in Nat /\ q.index * ChunkSize < EndOffset(q)
          /\ EndOffset(q) <= serving.length
          /\ EndOffset(q) \in {serving.length, q.index * ChunkSize + ChunkSize}
      BY <1>1, <3>2, <3>3, <3>4 DEF Smaller
    <3> QED
      BY <2>2, <3>2, <3>3, <3>5 DEF FirstOffset
  <2> QED
    BY <2>1, <2>2
<1>6. /\ target'.next = FirstOffset(q) /\ target'.end = EndOffset(q) /\ target'.id = 0
      /\ target'.sequence \in Nat /\ target'.group \in Nat
      /\ target'.next = target'.sequence * ChunkSize
      /\ target'.group = 0 => q.kind = "full" /\ target'.sequence = 0
  BY <1>2, <1>5
<1>7. target' \in Targets
  BY <1>2, <1>5 DEF Targets
<1>8. \A c \in sent' : c.id # target'.id
  BY <1>2, <1>6 DEF WholeInv, SentFits
<1>9. TargetFits'
  BY <1>1, <1>2, <1>5, <1>6, <1>7, <1>8 DEF TargetFits
<1>10. Covered(0)'
  BY <1>8 DEF Covered
<1>11. OpenFits'
  BY <1>2, <1>5, <1>6, <1>10 DEF OpenFits, Rest
<1>12. CarryFits' /\ DoneFits'
  BY <1>2, <1>4 DEF CarryFits, DoneFits, Carrying
<1>13. RequestFits' /\ SentFits'
  BY <1>2 DEF RequestFits, WholeInv, SentFits, TransferFromOneSample, Addressed
<1> QED
  BY <1>9, <1>11, <1>12, <1>13 DEF WholeInv

(* The task is woken, or hands the next chunk to itself.                   *)
LEMMA WakeWhole ==
  ASSUME WholeInv, Points', LeaseInv', BufferInv',
         ScheduleFirst \/ WorkerWake \/ ScheduleNext \/ BuildNothing \/ WorkerGive
  PROVE  WholeInv'
<1>1. /\ UNCHANGED <<target, length, acquired, serving, sent, lastId>>
      /\ rx' = rx \/ (rx'.at = "idle" /\ rx.at = "installed")
  BY DEF ScheduleFirst, WorkerWake, ScheduleNext, BuildNothing, WorkerGive, transferVars,
         historyVars, Idle
<1>2. RequestFits'
  BY <1>1 DEF WholeInv, RequestFits
<1>3. /\ worker' = worker \/ worker'.at \in {"idle", "woken", "reset"}
      /\ Waiting' => Waiting
  <2>1. CASE ScheduleFirst
    BY <2>1 DEF ScheduleFirst, Waiting, Idle
  <2>2. CASE WorkerWake
    BY <2>2 DEF WorkerWake, Waiting, AtPoint
  <2>3. CASE ScheduleNext
    BY <2>3 DEF ScheduleNext, Waiting, Idle
  <2>4. CASE BuildNothing
    BY <2>4 DEF BuildNothing, Waiting, AtPoint
  <2>5. CASE WorkerGive
    BY <2>5 DEF WorkerGive, Waiting, Idle
  <2> QED
    BY <2>1, <2>2, <2>3, <2>4, <2>5
<1>4. /\ Carrying' => Carrying /\ worker' = worker
      /\ worker'.at = "complete" => worker.at = "complete"
  BY <1>3 DEF Carrying
<1> QED
  BY <1>1, <1>2, <1>3, <1>4, TransferKept

LEMMA ResetWhole ==
  ASSUME WholeInv, Points', LeaseInv', BufferInv', WorkerReset
  PROVE  WholeInv'
<1>1. UNCHANGED <<sent, lastId, rx, serving>> /\ ~acquired'
  BY DEF WorkerReset, Reset, historyVars
<1>2. RequestFits'
  BY <1>1 DEF WholeInv, RequestFits
<1> QED
  BY <1>1, <1>2, NoTransfer

(* While the task is at a transfer nobody else is, and the lease is the    *)
(* transfer's.                                                             *)
LEMMA AtTransfer ==
  ASSUME WholeInv, worker.at \in {"woken", "built", "sent"}
  PROVE  acquired /\ ~pending /\ rx.at # "installed"
BY DEF WholeInv, LeaseInv, SlotHandedOver, Sending, Admitting

(* The next chunk, numbered by its place in the sample.                    *)
LEMMA BuildWhole ==
  ASSUME WholeInv, Points', LeaseInv', BufferInv', Build
  PROVE  WholeInv'
<1>0. PICK id, c, k : /\ id = IF target.id = 0 THEN lastId + 1 ELSE target.id
                      /\ c = worker'.chunk
                      /\ k = target.sequence
  OBVIOUS
<1>1. /\ acquired /\ ~pending /\ rx.at # "installed"
      /\ target \in Targets /\ lastId \in Nat /\ serving \in Samples
  BY AtTransfer DEF Build, WholeInv, TargetFits, SentFits, BufferInv
<1>2. /\ k \in Nat /\ target.id \in Nat /\ target.next \in Nat /\ target.end \in Nat
      /\ target.group \in Nat
  BY <1>0, <1>1 DEF Targets
<1>3. /\ target.next = k * ChunkSize /\ Rest(target.next) /\ length \in Nat
      /\ target.end <= length /\ length = serving.length
      /\ target.group = 0 => Covered(k)
      /\ target.id <= lastId
      /\ target.group = 0 => target.end = length
  BY <1>0, <1>1, <1>2 DEF Build, WholeInv, OpenFits, Waiting, TargetFits, Samples
<1>4. /\ lastId' = (IF target.id = 0 THEN lastId + 1 ELSE lastId)
      /\ target' = [target EXCEPT !.id = id, !.sequence = @ + 1]
      /\ UNCHANGED <<serving, length, acquired, pending, rx, sent>>
  BY <1>0 DEF Build
<1>5. /\ worker'.at = "built" /\ c.id = id /\ c.index = k /\ c.offset = target.next
      /\ c.size = Smaller(target.end - target.next, ChunkSize)
      /\ c.total = CeilChunks(length) /\ c.sample = serving.sample
  BY <1>0 DEF Build
<1>6. /\ target'.id = id /\ target'.sequence = k + 1 /\ target'.next = target.next
      /\ target'.end = target.end /\ target'.group = target.group /\ target' \in Targets
      /\ id \in 1 .. lastId' /\ lastId' \in Nat /\ lastId <= lastId'
  <2>1. id \in 1 .. lastId' /\ lastId' \in Nat /\ lastId <= lastId'
    BY <1>0, <1>1, <1>2, <1>3, <1>4
  <2>2. target' = [use |-> target.use, next |-> target.next, end |-> target.end,
                   sequence |-> k + 1, group |-> target.group, id |-> id]
    BY <1>0, <1>1, <1>4 DEF Targets
  <2> QED
    BY <1>1, <1>2, <2>1, <2>2 DEF Targets
<1>7. \A d \in sent : d.id \in 1 .. lastId
  BY DEF WholeInv, SentFits
<1>8. Addressed(c)
  <2>1. k < CeilChunks(length) /\ (length <= k * ChunkSize + ChunkSize => CeilChunks(length) = k + 1)
    BY <1>2, <1>3, IndexFits DEF Rest
  <2>2. ASSUME c.size < ChunkSize
        PROVE  length <= k * ChunkSize + ChunkSize
    <3>1. target.next \in Nat /\ target.end \in Nat /\ ChunkSize \in Nat
      BY <1>2, ConstantsAssumption
    <3>2. target.end - target.next < ChunkSize
      BY <1>5, <2>2, <3>1 DEF Smaller
    <3>3. target.end = length
      BY <1>3, <3>1, <3>2 DEF Rest
    <3>4. length < target.next + ChunkSize
      BY <3>1, <3>2, <3>3
    <3> QED
      BY <1>3, <3>1, <3>4
  <2>3. CeilChunks(length) \in Int
    BY <1>3, CeilBounds
  <2> QED
    BY <1>2, <1>3, <1>5, <2>1, <2>2, <2>3 DEF Addressed
<1>9. target.group = 0 => Covered(k)'
  <2>1. CASE target.id # 0
    <3>1. target'.id = target.id /\ sent' = sent /\ k \in Nat
      BY <1>0, <1>2, <1>4, <1>6, <2>1
    <3>2. ASSUME Covered(k)
          PROVE  /\ \A d \in sent' : d.id = target'.id => d.index < k
                 /\ \A i \in Nat : i < k => \E d \in sent' : d.id = target'.id /\ d.index = i
      BY <3>1, <3>2 DEF Covered
    <3> QED
      BY <1>3, <1>6, <3>2, <2>1 DEF Covered
  <2>2. CASE target.id = 0
    <3>1. \A d \in sent : d.id # 0 /\ d.id # lastId + 1
      BY <1>1, <1>7
    <3>2. SUFFICES ASSUME target.group = 0 PROVE Covered(k)'
      OBVIOUS
    <3>3. k = 0
      <4>1. Covered(k)
        BY <1>3, <3>2
      <4>2. ~(0 < k)
        BY <4>1, <3>1, <2>2 DEF Covered
      <4> QED
        BY <1>2, <4>2
    <3>4. target'.id = lastId + 1
      BY <1>0, <1>6, <2>2
    <3>5. Covered(0)'
      BY <3>1, <3>4, <1>4 DEF Covered
    <3> QED
      BY <3>3, <3>5
  <2> QED
    BY <2>1, <2>2
<1>10. TargetFits'
  <2>1. ASSUME NEW d \in sent, d.id = id
        PROVE  d.sample = serving.sample
    <3>1. target.id # 0
      BY <1>0, <1>1, <1>7, <2>1
    <3> QED
      BY <1>0, <1>1, <2>1, <3>1 DEF WholeInv, TargetFits
  <2>2. target'.end \in 1 .. length' /\ length' = serving'.length
        /\ (target'.group = 0 => target'.end = length')
    BY <1>1, <1>3, <1>4, <1>6 DEF WholeInv, TargetFits
  <2>3. target'.id <= lastId'
    BY <1>6
  <2> QED
    BY <1>4, <1>6, <2>1, <2>2, <2>3 DEF TargetFits
<1>11. OpenFits' /\ DoneFits' /\ RequestFits'
  BY <1>1, <1>4, <1>5 DEF OpenFits, DoneFits, Waiting, WholeInv, RequestFits
<1>12. CarryFits'
  <2>1. Addressed(c)'
    BY <1>8 DEF Addressed
  <2>2. Rest(c.offset)'
    BY <1>3, <1>4, <1>5, <1>6 DEF Rest
  <2>3. c.index \in Nat /\ c.id \in 1 .. lastId' /\ c.id = target'.id
        /\ c.offset = target'.next /\ target'.sequence = c.index + 1
        /\ c.size = Smaller(target'.end - c.offset, ChunkSize)
        /\ c.sample = serving'.sample
    BY <1>2, <1>4, <1>5, <1>6
  <2>4. target'.group = 0 => Covered(c.index)'
    BY <1>5, <1>6, <1>9
  <2> QED
    BY <1>0, <1>5, <2>1, <2>2, <2>3, <2>4 DEF CarryFits, Addressed, Rest
<1>13. SentFits'
  <2>1. sent' = sent /\ \A d \in sent : d.id \in 1 .. lastId'
    BY <1>1, <1>4, <1>6, <1>7
  <2> QED
    BY <1>6, <2>1 DEF WholeInv, SentFits, TransferFromOneSample, Addressed
<1> QED
  BY <1>10, <1>11, <1>12, <1>13 DEF WholeInv

(* The chunk goes on the air, or the transfer fails.                       *)
LEMMA TransmitWhole ==
  ASSUME WholeInv, Points', LeaseInv', BufferInv', Transmit
  PROVE  WholeInv'
<1> DEFINE c == worker.chunk
<1>1. /\ worker.at = "built"
      /\ UNCHANGED <<target, length, acquired, serving, lastId, rx, pending>>
  BY DEF Transmit, transferVars
<1>2. RequestFits'
  BY <1>1 DEF WholeInv, RequestFits
<1>3. CASE worker' = [at |-> "reset"] /\ sent' = sent
  BY <1>1, <1>2, <1>3, TransferKept DEF Waiting, Carrying
<1>4. CASE sent' = sent \cup {c} /\ worker' = [at |-> "sent", chunk |-> c]
  <2>1. acquired /\ ~pending /\ rx.at # "installed"
    BY <1>1, AtTransfer
  <2>2. /\ c.index \in Nat /\ c.id \in 1 .. lastId /\ Addressed(c) /\ c.id = target.id
        /\ c.offset = target.next /\ target.sequence = c.index + 1 /\ Rest(c.offset)
        /\ c.size = Smaller(target.end - c.offset, ChunkSize) /\ c.sample = serving.sample
        /\ target.group = 0 => Covered(c.index)
    BY <1>1 DEF WholeInv, CarryFits, Carrying
  <2>3. TargetFits'
    BY <1>1, <1>4, <2>1, <2>2 DEF WholeInv, TargetFits
  <2>4. OpenFits' /\ DoneFits'
    BY <1>1, <1>4, <2>1 DEF OpenFits, DoneFits, Waiting
  <2>5. target.group = 0 => Covered(c.index + 1)'
    <3>1. SUFFICES ASSUME Covered(c.index) PROVE Covered(c.index + 1)'
      BY <2>2
    <3>2. ASSUME NEW d \in sent', d.id = target.id
          PROVE  d.index < c.index + 1
      <4>1. CASE d \in sent
        <5>1. d.index < c.index /\ d.index \in Nat
          BY <3>1, <3>2, <4>1 DEF Covered, WholeInv, SentFits
        <5> QED
          BY <2>2, <5>1
      <4>2. CASE d = c
        BY <2>2, <4>2
      <4> QED
        BY <1>4, <4>1, <4>2
    <3>3. ASSUME NEW i \in Nat, i < c.index + 1
          PROVE  \E d \in sent' : d.id = target.id /\ d.index = i
      <4>1. CASE i < c.index
        BY <1>4, <3>1, <4>1 DEF Covered
      <4>2. CASE i = c.index
        BY <1>4, <2>2, <4>2
      <4> QED
        BY <2>2, <3>3, <4>1, <4>2
    <3> QED
      BY <1>1, <1>4, <3>2, <3>3 DEF Covered
  <2>6. CarryFits'
    <3>1. Addressed(c)'
      BY <1>1, <1>4, <2>2 DEF Addressed
    <3>2. Rest(c.offset)'
      BY <1>1, <1>4, <2>2 DEF Rest
    <3>3. worker'.at = "sent" /\ worker'.chunk = c
      BY <1>4
    <3> QED
      BY <1>1, <2>2, <2>5, <3>1, <3>2, <3>3 DEF CarryFits, Addressed, Rest
  <2>7. SentFits'
    <3>1. \A d \in sent' : d.id \in 1 .. lastId /\ d.index \in Nat /\ Addressed(d)
      BY <1>4, <2>2 DEF WholeInv, SentFits
    <3>2. \A d \in sent : d.id = c.id => d.sample = c.sample
      BY <2>1, <2>2 DEF WholeInv, TargetFits
    <3>3. \A d, e \in sent' : d.id = e.id => d.sample = e.sample
      BY <1>4, <3>2 DEF WholeInv, SentFits, TransferFromOneSample
    <3>4. lastId' \in Nat
      BY <1>1 DEF WholeInv, SentFits
    <3> QED
      BY <1>1, <3>1, <3>3, <3>4 DEF SentFits, TransferFromOneSample, Addressed
  <2> QED
    BY <1>2, <2>3, <2>4, <2>6, <2>7 DEF WholeInv
<1> QED
  BY <1>3, <1>4 DEF Transmit, AtPoint

(* After a chunk: the next one, or the end of the transfer.                *)
LEMMA AdvanceWhole ==
  ASSUME WholeInv, Points', LeaseInv', BufferInv', Advance
  PROVE  WholeInv'
<1> DEFINE c == worker.chunk
           next == c.offset + c.size
<1>1. /\ worker.at = "sent"
      /\ UNCHANGED <<length, acquired, serving, sent, lastId, rx, pending>>
  BY DEF Advance, historyVars
<1>2. acquired /\ ~pending /\ rx.at # "installed" /\ target \in Targets
  BY <1>1, AtTransfer DEF WholeInv, TargetFits
<1>3. /\ c.index \in Nat /\ c.offset = c.index * ChunkSize /\ c.id = target.id
      /\ target.sequence = c.index + 1 /\ Rest(c.offset)
      /\ c.size = Smaller(target.end - c.offset, ChunkSize)
      /\ target.group = 0 => Covered(c.index + 1)
  BY <1>1 DEF WholeInv, CarryFits, Carrying, Addressed
<1>4. /\ c.offset \in Nat /\ target.end \in Nat /\ length \in Nat /\ target.end <= length
      /\ target.group = 0 => target.end = length
      /\ ChunkSize \in Nat
  BY <1>2, <1>3, ConstantsAssumption DEF WholeInv, TargetFits, BufferInv, Samples, Targets
<1>5. /\ c.size \in Nat /\ c.size <= ChunkSize
      /\ c.size = ChunkSize \/ next = target.end
      /\ next \in Nat
  BY <1>3, <1>4 DEF Smaller, Rest
<1>6. /\ target'.id = target.id /\ target'.end = target.end /\ target'.group = target.group
      /\ target'.sequence = target.sequence /\ target'.next = next /\ target' \in Targets
  BY <1>2, <1>5 DEF Advance, Targets
<1>7. TargetFits'
  BY <1>1, <1>2, <1>6 DEF WholeInv, TargetFits
<1>8. \A n : Covered(n)' <=> Covered(n)
  BY <1>1, <1>6 DEF Covered
<1>9. RequestFits' /\ SentFits'
  BY <1>1 DEF WholeInv, RequestFits, SentFits, TransferFromOneSample, Addressed
<1>10. CASE next >= target.end /\ worker' = [at |-> "complete"]
  <2>1. OpenFits' /\ CarryFits'
    BY <1>1, <1>2, <1>10 DEF OpenFits, CarryFits, Waiting, Carrying
  <2>2. ASSUME target.group = 0
        PROVE  CeilChunks(length) = c.index + 1
    <3>1. length <= c.offset + ChunkSize
      BY <1>4, <1>5, <1>10, <2>2
    <3>2. c.offset < length
      BY <1>3, <1>4 DEF Rest
    <3> QED
      BY <1>3, <1>4, <3>1, <3>2, IndexFits
  <2>3. DoneFits'
    BY <1>1, <1>3, <1>6, <1>8, <2>2 DEF DoneFits, CeilChunks
  <2> QED
    BY <1>7, <1>9, <2>1, <2>3 DEF WholeInv
<1>11. CASE next < target.end /\ worker' = [at |-> "spacing"]
  <2>1. c.size = ChunkSize
    BY <1>4, <1>5, <1>11
  <2>2. next = target.sequence * ChunkSize
    BY <1>3, <1>4, <2>1
  <2>3. target.end = length
    <3>1. target.end # c.offset + ChunkSize
      BY <1>4, <1>11, <2>1
    <3> QED
      BY <1>3, <3>1 DEF Rest
  <2>4. OpenFits'
    BY <1>1, <1>3, <1>6, <1>8, <1>11, <2>2, <2>3 DEF OpenFits, Rest
  <2>5. CarryFits' /\ DoneFits'
    BY <1>11 DEF CarryFits, DoneFits, Carrying
  <2> QED
    BY <1>7, <1>9, <2>4, <2>5 DEF WholeInv
<1> QED
  BY <1>10, <1>11 DEF Advance, AtPoint

LEMMA NextWhole == WholeInv /\ [Next]_vars => WholeInv'
<1> SUFFICES ASSUME WholeInv, [Next]_vars PROVE WholeInv'
  OBVIOUS
<1>1. Points' /\ LeaseInv' /\ BufferInv'
  BY NextPoints, NextLease, NextBuffer DEF WholeInv
<1>2. CASE SamplerNext
  BY <1>1, <1>2, SamplerWhole
<1>3. CASE RequestNext
  BY <1>1, <1>3, ReserveWhole
<1>4. CASE RxStep
  BY <1>1, <1>4, AdmitWhole, InstallWhole, WakeWhole DEF RxStep
<1>5. CASE WorkerNext
  BY <1>1, <1>5, WakeWhole, BuildWhole, TransmitWhole, AdvanceWhole, ResetWhole
     DEF WorkerNext
<1>6. CASE UNCHANGED vars
  <2>1. UNCHANGED <<target, length, acquired, serving, sent, lastId, rx, worker, pending>>
    BY <1>6 DEF vars
  <2>2. RequestFits'
    BY <2>1 DEF WholeInv, RequestFits
  <2> QED
    BY <1>1, <2>1, <2>2, TransferKept DEF Waiting, Carrying
<1> QED
  BY <1>2, <1>3, <1>4, <1>5, <1>6 DEF Next

LEMMA InitWhole == Init => WholeInv
<1> SUFFICES ASSUME Init PROVE WholeInv
  OBVIOUS
<1>1. Points /\ LeaseInv /\ BufferInv
  BY InitLease, InitBuffer
<1>2. /\ rx.at = "idle" /\ worker.at = "idle" /\ ~pending /\ ~acquired
      /\ sent = {} /\ lastId = 0
  BY DEF Init, Idle
<1> QED
  BY <1>1, <1>2 DEF WholeInv, RequestFits, TargetFits, OpenFits, CarryFits, DoneFits, SentFits,
     Waiting, Carrying, TransferFromOneSample

LEMMA WholeInvIsWhole == WholeInv => TransfersAreWhole
<1> SUFFICES ASSUME WholeInv PROVE TransfersAreWhole
  OBVIOUS
<1>1. ChunksAddressed /\ TransferFromOneSample
  BY DEF WholeInv, SentFits, Addressed, ChunksAddressed
<1>2. ASSUME worker.at = "complete", target.group = 0
      PROVE  {d.index : d \in {e \in sent : e.id = target.id}} = 0 .. CeilChunks(length) - 1
  <2> DEFINE n == CeilChunks(length)
  <2>1. Covered(n)
    BY <1>2 DEF WholeInv, DoneFits
  <2>2. n \in Int
    <3>1. acquired
      BY <1>2 DEF WholeInv, LeaseInv, SlotHandedOver, Sending
    <3>2. length \in Nat
      BY <3>1 DEF WholeInv, TargetFits, BufferInv, Samples
    <3> QED
      BY <3>2, CeilBounds
  <2> HIDE DEF n
  <2>3. \A d \in sent : d.id = target.id => d.index \in 0 .. n - 1
    BY <2>1, <2>2 DEF Covered, WholeInv, SentFits
  <2>4. \A i \in 0 .. n - 1 : \E d \in sent : d.id = target.id /\ d.index = i
    BY <2>1, <2>2 DEF Covered
  <2>5. {d.index : d \in {e \in sent : e.id = target.id}} = 0 .. n - 1
    BY <2>3, <2>4
  <2> QED
    BY <2>5 DEF n
<1> QED
  BY <1>1, <1>2 DEF TransfersAreWhole, CompleteIsWhole

(* global_buffer_tx_send_current_chunk sends chunks that carry the index   *)
(* their bytes have in the sample, all of a message from one sample though *)
(* the sampler publishes meanwhile, and a full transfer that completes has *)
(* sent every chunk of it, whatever the lengths and the chunk size.        *)
THEOREM WholeTransfers == Spec => []TransfersAreWhole
<1> QED
  BY InitWhole, NextWhole, WholeInvIsWhole, PTL DEF Spec

-----------------------------------------------------------------------------
(* The memory of a script (ScriptBuffer).  The written part of the working   *)
(* buffer holds runs since the reset and zeros, whatever is beyond it; the   *)
(* semaphore, once there is one, is free or has one user.                    *)

BufferTyped ==
  /\ capacity \in 0 .. MaxSize /\ filled \in Nat /\ filled <= capacity
  /\ DOMAIN mem = 1 .. MaxSize
  /\ run \in Nat /\ since \in Nat /\ since <= run

WrittenSince == \A i \in 1 .. filled : mem[i] = 0 \/ mem[i] \in since .. run

ScriptUsers ==
  /\ DOMAIN task = {"sampler", "bridge"}
  /\ task["sampler"] \in {"idle", "runs", "created", "ready", "copies"}
  /\ task["bridge"] \in {"idle", "created", "ready", "sends"}
  /\ semaphore = "none" =>
       /\ free = FALSE
       /\ task["sampler"] \notin {"ready", "copies"} /\ task["bridge"] \notin {"ready", "sends"}
  /\ task["bridge"] = "sends" => task["sampler"] # "copies" /\ lease = served
  /\ free \in BOOLEAN
  /\ free = TRUE => task["bridge"] # "sends" /\ task["sampler"] # "copies"

ScriptInv == BufferTyped /\ WrittenSince /\ ScriptUsers

LEMMA ScriptInit == Script!Init => ScriptInv
<1> SUFFICES ASSUME Script!Init PROVE ScriptInv
  OBVIOUS
<1>1. BufferTyped /\ WrittenSince
  BY ScriptAssumption DEF Script!Init, BufferTyped, WrittenSince
<1>2. ScriptUsers
  BY DEF Script!Init, ScriptUsers, Script!Users
<1> QED
  BY <1>1, <1>2 DEF ScriptInv

LEMMA SetsCapacity ==
  ASSUME BufferTyped, WrittenSince, NEW size \in 0 .. MaxSize, Script!SetCapacity(size)
  PROVE  /\ capacity' \in 0 .. MaxSize /\ filled' \in Nat /\ filled' <= capacity'
         /\ filled' <= filled
BY ScriptAssumption DEF BufferTyped, Script!SetCapacity, Script!Smaller

LEMMA BufferKept ==
  ASSUME BufferTyped, WrittenSince, UNCHANGED <<capacity, mem, filled, run, since>>
  PROVE  BufferTyped' /\ WrittenSince'
BY DEF BufferTyped, WrittenSince

LEMMA Begins ==
  ASSUME BufferTyped, WrittenSince, Script!Begin
  PROVE  BufferTyped' /\ WrittenSince'
<1>1. run' = run + 1 /\ UNCHANGED <<mem, since>>
  BY DEF Script!Begin
<1>2. /\ capacity' \in 0 .. MaxSize /\ filled' \in Nat /\ filled' <= capacity'
      /\ filled' <= filled
  <2>1. CASE capacity = 0
    BY <2>1, ScriptAssumption, SetsCapacity DEF Script!Begin
  <2>2. CASE capacity # 0
    BY <2>2 DEF Script!Begin, BufferTyped
  <2> QED
    BY <2>1, <2>2
<1>3. BufferTyped'
  BY <1>1, <1>2 DEF BufferTyped
<1>4. ASSUME NEW i \in 1 .. filled'
      PROVE  mem[i] = 0 \/ mem[i] \in since .. run'
  <2>1. i \in 1 .. filled
    BY <1>2 DEF BufferTyped
  <2> QED
    BY <1>1, <2>1 DEF BufferTyped, WrittenSince
<1> QED
  BY <1>1, <1>3, <1>4 DEF WrittenSince

(* What a call writes is of this run, and what it skips is filled.          *)
LEMMA Appends ==
  ASSUME BufferTyped, WrittenSince, NEW n \in 1 .. 2, Script!AppendBuffer(n)
  PROVE  BufferTyped' /\ WrittenSince'
<1>1. /\ mem' = [i \in DOMAIN mem |-> IF i \in filled + 1 .. filled + n THEN run ELSE mem[i]]
      /\ filled' = filled + n /\ n <= capacity - filled
      /\ UNCHANGED <<capacity, since, run>>
  BY DEF Script!AppendBuffer, Script!Call
<1>2. BufferTyped'
  BY <1>1 DEF BufferTyped
<1>3. ASSUME NEW i \in 1 .. filled'
      PROVE  mem'[i] = 0 \/ mem'[i] \in since .. run
  <2>1. i \in DOMAIN mem
    BY <1>1, ScriptAssumption DEF BufferTyped
  <2>2. CASE i \in filled + 1 .. filled + n
    BY <1>1, <2>1, <2>2 DEF BufferTyped
  <2>3. CASE i \notin filled + 1 .. filled + n
    <3>1. i \in 1 .. filled
      BY <1>1, <2>3 DEF BufferTyped
    <3> QED
      BY <1>1, <2>1, <2>3, <3>1 DEF WrittenSince
  <2> QED
    BY <2>2, <2>3
<1> QED
  BY <1>1, <1>2, <1>3 DEF WrittenSince

LEMMA WritesAt ==
  ASSUME BufferTyped, WrittenSince, NEW n \in 1 .. 2, NEW pos \in 0 .. MaxSize - 1,
         Script!WriteAt(pos, n)
  PROVE  BufferTyped' /\ WrittenSince'
<1>1. /\ mem' = [i \in DOMAIN mem |-> Script!Put(i, pos, n)]
      /\ filled' = IF pos + n > filled THEN pos + n ELSE filled
      /\ pos < capacity /\ n <= capacity - pos
      /\ UNCHANGED <<capacity, since, run>>
  BY DEF Script!WriteAt, Script!Call
<1>2. BufferTyped'
  BY <1>1, ScriptAssumption DEF BufferTyped
<1>3. ASSUME NEW i \in 1 .. filled'
      PROVE  mem'[i] = 0 \/ mem'[i] \in since .. run
  <2>1. i \in DOMAIN mem /\ pos \in Nat /\ n \in Nat /\ filled \in Nat /\ i \in Nat
    BY <1>1, ScriptAssumption DEF BufferTyped
  <2>2. mem'[i] = IF i \in pos + 1 .. pos + n THEN run
                  ELSE IF i \in filled + 1 .. pos THEN 0 ELSE mem[i]
    BY <1>1, <2>1 DEF Script!Put
  <2>3. CASE i \in pos + 1 .. pos + n
    BY <2>2, <2>3 DEF BufferTyped
  <2>4. CASE i \notin pos + 1 .. pos + n /\ i \in filled + 1 .. pos
    BY <2>2, <2>4
  <2>5. CASE i \notin pos + 1 .. pos + n /\ i \notin filled + 1 .. pos
    <3>1. i \in 1 .. filled
      BY <1>1, <2>1, <2>5
    <3> QED
      BY <2>2, <2>5, <3>1 DEF WrittenSince
  <2> QED
    BY <2>3, <2>4, <2>5
<1> QED
  BY <1>1, <1>2, <1>3 DEF WrittenSince

LEMMA ScriptCalls ==
  ASSUME ScriptInv, Script!Script
  PROVE  ScriptInv'
<1>t. BufferTyped /\ WrittenSince /\ ScriptUsers
  BY DEF ScriptInv
<1>1. BufferTyped' /\ WrittenSince'
  <2>1. CASE Script!InitBuffer
    <3>1. /\ capacity' \in 1 .. MaxSize /\ filled' = 0 /\ since' = run
          /\ UNCHANGED <<mem, run>>
      BY <2>1 DEF Script!InitBuffer, Script!Call
    <3> QED
      BY <1>t, <3>1, ScriptAssumption DEF BufferTyped, WrittenSince
  <2>2. CASE Script!Fail
    BY <1>t, <2>2, BufferKept DEF Script!Fail, Script!region, Script!bounds
  <2> QED
    BY <1>t, <2>1, <2>2, Begins, Appends, WritesAt DEF Script!Script
<1>2. UNCHANGED <<semaphore, free, served, lease>>
  BY DEF Script!Script, Script!Begin, Script!InitBuffer, Script!Fail, Script!AppendBuffer,
         Script!WriteAt, Script!Call, Script!mutex
<1>3. task' = task \/ \E where \in {"idle", "runs"} : task' = [task EXCEPT !["sampler"] = where]
  BY DEF Script!Script, Script!Begin, Script!InitBuffer, Script!Fail, Script!AppendBuffer,
         Script!WriteAt, Script!Call, Script!Goes
<1>4. ScriptUsers'
  BY <1>t, <1>2, <1>3 DEF ScriptUsers
<1> QED
  BY <1>1, <1>4 DEF ScriptInv

(* The step of one user leaves the other where it is.                       *)
LEMMA UserGoes ==
  ASSUME ScriptUsers, NEW where, NEW u \in {"sampler", "bridge"}, Script!Goes(u, where)
  PROVE  /\ DOMAIN task' = {"sampler", "bridge"}
         /\ task'["sampler"] = IF u = "sampler" THEN where ELSE task["sampler"]
         /\ task'["bridge"] = IF u = "bridge" THEN where ELSE task["bridge"]
BY DEF ScriptUsers, Script!Goes

LEMMA ScriptServes ==
  ASSUME ScriptInv, Script!Serving
  PROVE  ScriptInv'
<1>t. BufferTyped /\ WrittenSince /\ ScriptUsers
  BY DEF ScriptInv
<1> USE <1>t
<1>1. UNCHANGED <<capacity, mem, filled, run, since>>
  BY DEF Script!Serving, Script!Publish, Script!Copy, Script!Acquire, Script!Release,
         Script!Ensure, Script!Install, Script!region, Script!bounds
<1>2. BufferTyped' /\ WrittenSince'
  BY <1>1, BufferKept
<1>f. free = TRUE \/ free = FALSE
  BY DEF ScriptUsers
<1>3. ASSUME Script!Publish PROVE ScriptUsers'
  <2>1. free = TRUE /\ task["sampler"] = "ready"
    BY <1>f, <1>3 DEF Script!Publish
  <2>2. free' = FALSE /\ UNCHANGED <<semaphore, lease, served>>
    BY <1>3 DEF Script!Publish
  <2>3. /\ DOMAIN task' = {"sampler", "bridge"}
        /\ task'["sampler"] = "copies" /\ task'["bridge"] = task["bridge"]
    BY <1>3, UserGoes DEF Script!Publish
  <2>4. semaphore # "none" /\ task["bridge"] # "sends"
    BY <2>1 DEF ScriptUsers
  <2> QED
    BY <2>2, <2>3, <2>4 DEF ScriptUsers
<1>4. ASSUME Script!Copy PROVE ScriptUsers'
  <2>1. task["sampler"] = "copies" /\ free' = TRUE /\ UNCHANGED <<semaphore, lease>>
    BY <1>4 DEF Script!Copy
  <2>2. /\ DOMAIN task' = {"sampler", "bridge"}
        /\ task'["sampler"] = "idle" /\ task'["bridge"] = task["bridge"]
    BY <1>4, UserGoes DEF Script!Copy
  <2>3. semaphore # "none" /\ task["bridge"] # "sends"
    BY <2>1 DEF ScriptUsers
  <2> QED
    BY <2>1, <2>2, <2>3 DEF ScriptUsers
<1>5. ASSUME Script!Acquire PROVE ScriptUsers'
  <2>1. task["bridge"] = "ready" /\ UNCHANGED <<semaphore, served>>
    BY <1>5 DEF Script!Acquire
  <2>2. semaphore # "none"
    BY <2>1 DEF ScriptUsers
  <2>3. CASE Script!Goes("bridge", "idle") /\ UNCHANGED <<free, lease>>
    <3>1. /\ DOMAIN task' = {"sampler", "bridge"}
          /\ task'["sampler"] = task["sampler"] /\ task'["bridge"] = "idle"
      BY <2>3, UserGoes
    <3> QED
      BY <2>1, <2>2, <2>3, <3>1 DEF ScriptUsers
  <2>4. CASE Script!Goes("bridge", "sends") /\ free /\ free' = FALSE /\ lease' = served
    <3>1. /\ DOMAIN task' = {"sampler", "bridge"}
          /\ task'["sampler"] = task["sampler"] /\ task'["bridge"] = "sends"
      BY <2>4, UserGoes
    <3>2. free = TRUE
      BY <1>f, <2>4
    <3>3. task["sampler"] # "copies"
      BY <3>2 DEF ScriptUsers
    <3> QED
      BY <2>1, <2>2, <2>4, <3>1, <3>3 DEF ScriptUsers
  <2> QED
    BY <1>5, <2>3, <2>4 DEF Script!Acquire
<1>6. ASSUME Script!Release PROVE ScriptUsers'
  <2>1. task["bridge"] = "sends" /\ free' = TRUE /\ UNCHANGED <<semaphore, served>>
    BY <1>6 DEF Script!Release
  <2>2. /\ DOMAIN task' = {"sampler", "bridge"}
        /\ task'["sampler"] = task["sampler"] /\ task'["bridge"] = "idle"
    BY <1>6, UserGoes DEF Script!Release
  <2>3. semaphore # "none" /\ task["sampler"] # "copies"
    BY <2>1 DEF ScriptUsers
  <2> QED
    BY <2>1, <2>2, <2>3 DEF ScriptUsers
<1>7. ASSUME NEW u \in Script!Users, Script!Ensure(u) PROVE ScriptUsers'
  BY <1>7 DEF Script!Ensure, Script!Goes, Script!Wants, Script!Users, Script!mutex, ScriptUsers
<1>8. ASSUME NEW u \in Script!Users, Script!Install(u) PROVE ScriptUsers'
  BY <1>8 DEF Script!Install, Script!Goes, Script!Users, Script!mutex, ScriptUsers
<1> QED
  BY <1>2, <1>3, <1>4, <1>5, <1>6, <1>7, <1>8 DEF Script!Serving, ScriptInv

(* A published sample holds what scripts wrote since the reset, and zeros    *)
(* between, and one user at a time has the serving buffer, for every size    *)
(* of the buffers, whichever task creates the semaphore and whatever the     *)
(* capacity was before.                                                     *)
THEOREM SamplesStayClean == Script!Spec => []SamplesAreClean
<1>1. ScriptInv /\ [Script!Next]_(Script!vars) => ScriptInv'
  <2> SUFFICES ASSUME ScriptInv, [Script!Next]_(Script!vars) PROVE ScriptInv'
    OBVIOUS
  <2>1. CASE UNCHANGED Script!vars
    <3>1. UNCHANGED <<capacity, mem, filled, run, since, task, semaphore, free, served, lease>>
      BY <2>1 DEF Script!vars, Script!region, Script!mutex, Script!bounds
    <3> QED
      BY <3>1, BufferKept DEF ScriptInv, ScriptUsers
  <2> QED
    BY <2>1, ScriptCalls, ScriptServes DEF Script!Next
<1>2. ScriptInv => SamplesAreClean
  BY DEF ScriptInv, WrittenSince, ScriptUsers, SamplesAreClean, Script!SamplesAreClean,
         Script!NoLeftovers, Script!OneUser
<1> QED
  BY ScriptInit, <1>1, <1>2, PTL DEF Script!Spec
=============================================================================
