---------------------------- MODULE GlobalBuffer ----------------------------
(***************************************************************************)
(* Pulling a sample (a camera image, say) from a sensor node: GBR1 asks    *)
(* for the whole serving buffer, GBR2 for one chunk of it.                 *)
(*                                                                         *)
(* Three threads share the buffer.  The sampler runs the Lua script and    *)
(* publishes what it collected (sampling.c); the radio receive thread      *)
(* starts a transfer for a request; reliable_tx_task sends it chunk by     *)
(* chunk (halow_sync_bridge.c).  The serving buffer is leased with a       *)
(* binary semaphore that one thread may take and another give.  Steps are  *)
(* as large as the critical sections of s_global_buffer_tx_lock and the    *)
(* semaphore calls between them.                                           *)
(***************************************************************************)
EXTENDS Naturals

CONSTANTS
  ChunkSize,      \* EDGEZ_GLOBAL_BUFFER_CHUNK_SIZE
  SampleLengths,  \* lengths a script run can leave in the working buffer
  ChunkIndexes,   \* indexes a GBR2 request asks for
  MaxSamples,     \* bound: script runs
  MaxTransfers    \* bound: requests that find no transfer active

ASSUME ConstantsAssumption ==
  /\ ChunkSize \in Nat \ {0}
  /\ SampleLengths \subseteq Nat
  /\ ChunkIndexes \subseteq Nat
  /\ MaxSamples \in Nat
  /\ MaxTransfers \in Nat

VARIABLES
  sampler,   \* program point of the sampling task in publish_for_serving
  working,   \* s_script_global_buffer: sample number and length
  serving,   \* s_script_serving_buffer: sample number and length
  sem,       \* s_script_serving_buffer_mutex can be taken
  active,    \* s_global_buffer_tx_active
  length,    \* s_global_buffer_length; 0 when s_global_buffer_data is NULL
  acquired,  \* s_global_buffer_serving_acquired
  target,    \* s_global_buffer_targets[0]
  pending,   \* s_global_buffer_send_pending
  rx,        \* the radio receive thread in start_for_requester
  worker,    \* reliable_tx_task in send_current_chunk
  started,   \* history: transfers reserved
  lastId,    \* history: message ids generated for transfers
  sent       \* history: chunks handed to the radio

vars == <<sampler, working, serving, sem, active, length, acquired,
          target, pending, rx, worker, started, lastId, sent>>
samplerVars  == <<sampler, working>>
transferVars == <<active, length, acquired, target>>
historyVars  == <<started, lastId, sent>>

NoTarget  == [use |-> "inactive"]
Idle      == [at |-> "idle"]
AtPoint(p) == [at |-> p]

CeilChunks(n) == (n + ChunkSize - 1) \div ChunkSize
Smaller(a, b) == IF a < b THEN a ELSE b

(* GBR1 carries the length the requester expects (0: any), GBR2 the group  *)
(* id of the chunks it has (0 is invalid) and the index of the one it      *)
(* lacks.                                                                  *)
FullRequest(n)     == [kind |-> "full", expected |-> n]
ChunkRequest(g, i) == [kind |-> "chunk", group |-> g, index |-> i]

-----------------------------------------------------------------------------
(* The sampling task *)

(* sample_run_lua_sensor_sampling: the script rewrites the working buffer; *)
(* only a run without error goes on to publish.                            *)
RunScript ==
  /\ sampler = "idle"
  /\ working.sample < MaxSamples
  /\ \E l \in SampleLengths :
       working' = [sample |-> working.sample + 1, length |-> l]
  /\ sampler' \in {"idle", "publish"}
  /\ UNCHANGED <<serving, sem, pending, rx, worker>>
  /\ UNCHANGED transferVars
  /\ UNCHANGED historyVars

(* Mutant: the publisher does not wait for the transfer to end.            *)
PublishTake_NoWait ==
  /\ sampler = "publish"
  /\ sem' = FALSE
  /\ sampler' = "copy"
  /\ UNCHANGED <<working, serving, pending, rx, worker>>
  /\ UNCHANGED transferVars
  /\ UNCHANGED historyVars

(* publish_for_serving waits for the lease without a timeout ...           *)
PublishTake ==
  /\ sampler = "publish"
  /\ sem
  /\ sem' = FALSE
  /\ sampler' = "copy"
  /\ UNCHANGED <<working, serving, pending, rx, worker>>
  /\ UNCHANGED transferVars
  /\ UNCHANGED historyVars

(* ... copies the sample and gives the lease back.                         *)
PublishCopy ==
  /\ sampler = "copy"
  /\ serving' = working
  /\ sem' = TRUE
  /\ sampler' = "idle"
  /\ UNCHANGED <<working, pending, rx, worker>>
  /\ UNCHANGED transferVars
  /\ UNCHANGED historyVars

-----------------------------------------------------------------------------
(* global_buffer_tx_reset_state: the critical section.  Afterwards the     *)
(* lease is given back when the flag said it was acquired.                 *)
Reset ==
  /\ target' = NoTarget
  /\ length' = 0
  /\ active' = FALSE
  /\ acquired' = FALSE
  /\ pending' = FALSE

(* Mutant: the lease is not given back.                                    *)
AfterReset_Leak == Idle

AfterReset == IF acquired THEN AtPoint("give") ELSE Idle

(* Mutant: the task is notified, but nothing is left for it to find.       *)
Schedule_Lost == UNCHANGED pending

(* global_buffer_tx_schedule_send.                                         *)
Schedule == pending' = (pending \/ active)

-----------------------------------------------------------------------------
(* The radio receive thread: global_buffer_tx_start_for_requester          *)

(* Without a transfer in progress the request reserves the single slot.    *)
(* One that meets a transfer changes nothing: it is ignored when it is the *)
(* request being served, else answered BUSY.                               *)
Reserve(q) ==
  /\ rx = Idle
  /\ ~active
  /\ started < MaxTransfers
  /\ started' = started + 1
  /\ active' = TRUE
  /\ rx' = [at |-> "reserved", query |-> q]
  /\ UNCHANGED <<serving, sem, length, acquired, target, pending, worker,
                 lastId, sent>>
  /\ UNCHANGED samplerVars

(* acquire_serving: never waits; an empty buffer is given back at once.    *)
Acquire ==
  /\ rx.at = "reserved"
  /\ \/ /\ sem /\ serving.length > 0
        /\ sem' = FALSE
        /\ rx' = [at |-> "leased", query |-> rx.query]
     \/ /\ ~sem \/ serving.length = 0
        /\ rx' = AtPoint("refuse")
        /\ UNCHANGED sem
  /\ UNCHANGED <<serving, pending, worker>>
  /\ UNCHANGED samplerVars
  /\ UNCHANGED transferVars
  /\ UNCHANGED historyVars

(* The checks on the acquired snapshot.                                    *)
Acceptable(q) ==
  \/ q.kind = "full" /\ q.expected \in {0, serving.length}
  \/ q.kind = "chunk" /\ q.group # 0 /\ q.index * ChunkSize < serving.length

RefuseSnapshot ==
  /\ rx.at = "leased"
  /\ ~Acceptable(rx.query)
  /\ sem' = TRUE
  /\ rx' = AtPoint("refuse")
  /\ UNCHANGED <<serving, pending, worker>>
  /\ UNCHANGED samplerVars
  /\ UNCHANGED transferVars
  /\ UNCHANGED historyVars

Refuse ==
  /\ rx.at = "refuse"
  /\ Reset
  /\ sem' = (sem \/ acquired)
  /\ rx' = Idle
  /\ UNCHANGED <<serving, worker>>
  /\ UNCHANGED samplerVars
  /\ UNCHANGED historyVars

(* Where the transfer of a request starts and ends.                        *)
FirstOffset(q) == IF q.kind = "full" THEN 0 ELSE q.index * ChunkSize
EndOffset(q) ==
  IF q.kind = "full" THEN serving.length
  ELSE Smaller(FirstOffset(q) + ChunkSize, serving.length)

Install ==
  /\ rx.at = "leased"
  /\ Acceptable(rx.query)
  /\ LET q == rx.query IN
       target' = [use      |-> "active",
                  next     |-> FirstOffset(q),
                  end      |-> EndOffset(q),
                  sequence |-> IF q.kind = "full" THEN 0 ELSE q.index,
                  group    |-> IF q.kind = "full" THEN 0 ELSE q.group,
                  id       |-> 0]
  /\ length' = serving.length
  /\ active' = TRUE
  /\ acquired' = TRUE
  /\ rx' = AtPoint("installed")
  /\ UNCHANGED <<serving, sem, pending, worker>>
  /\ UNCHANGED samplerVars
  /\ UNCHANGED historyVars

ScheduleFirst ==
  /\ rx.at = "installed"
  /\ Schedule
  /\ rx' = Idle
  /\ UNCHANGED <<serving, sem, worker>>
  /\ UNCHANGED samplerVars
  /\ UNCHANGED transferVars
  /\ UNCHANGED historyVars

-----------------------------------------------------------------------------
(* reliable_tx_task: global_buffer_tx_send_current_chunk *)

WorkerWake ==
  /\ worker = Idle
  /\ pending
  /\ pending' = FALSE
  /\ worker' = AtPoint("woken")
  /\ UNCHANGED <<serving, sem, rx>>
  /\ UNCHANGED samplerVars
  /\ UNCHANGED transferVars
  /\ UNCHANGED historyVars

HasChunk == active /\ length # 0 /\ target.use = "active" /\ target.next < target.end

(* The chunk is copied from the serving buffer under the lock.  A transfer *)
(* gets its message id with its first chunk; a GBR1 transfer groups its    *)
(* chunks under that id.                                                   *)
Build ==
  /\ worker.at = "woken"
  /\ HasChunk
  /\ LET id == IF target.id = 0 THEN lastId + 1 ELSE target.id IN
       /\ lastId' = IF target.id = 0 THEN lastId + 1 ELSE lastId
       /\ target' = [target EXCEPT !.id = id, !.sequence = @ + 1]
       /\ worker' = [at |-> "built", chunk |->
            [id     |-> id,
             group  |-> IF target.group # 0 THEN target.group ELSE id,
             index  |-> target.sequence,
             offset |-> target.next,
             size   |-> Smaller(target.end - target.next, ChunkSize),
             total  |-> CeilChunks(length),
             sample |-> serving.sample]]
  /\ UNCHANGED <<serving, sem, active, length, acquired, pending, rx,
                 started, sent>>
  /\ UNCHANGED samplerVars

(* Nothing to send, or the MAC address of the interface is not available.  *)
BuildNothing ==
  /\ worker.at = "woken"
  /\ worker' = AtPoint("reset")
  /\ UNCHANGED <<serving, sem, pending, rx>>
  /\ UNCHANGED samplerVars
  /\ UNCHANGED transferVars
  /\ UNCHANGED historyVars

(* Mutant: a failed transmission counts as sent.                           *)
Transmit_IgnoresFailure ==
  /\ worker.at = "built"
  /\ sent' \in {sent, sent \cup {worker.chunk}}
  /\ worker' = [at |-> "sent", chunk |-> worker.chunk]
  /\ UNCHANGED <<serving, sem, pending, rx, started, lastId>>
  /\ UNCHANGED samplerVars
  /\ UNCHANGED transferVars

Transmit ==
  /\ worker.at = "built"
  /\ \/ /\ sent' = sent \cup {worker.chunk}
        /\ worker' = [at |-> "sent", chunk |-> worker.chunk]
     \/ /\ worker' = AtPoint("reset")
        /\ UNCHANGED sent
  /\ UNCHANGED <<serving, sem, pending, rx, started, lastId>>
  /\ UNCHANGED samplerVars
  /\ UNCHANGED transferVars

(* After a successful transmission the offset moves on; the last chunk     *)
(* closes the target and the transfer.                                     *)
Advance ==
  /\ worker.at = "sent"
  /\ LET next == worker.chunk.offset + worker.chunk.size IN
       \/ /\ next >= target.end
          /\ target' = [target EXCEPT !.next = next, !.use = "inactive"]
          /\ worker' = AtPoint("complete")
       \/ /\ next < target.end
          /\ target' = [target EXCEPT !.next = next]
          /\ worker' = AtPoint("spacing")
  /\ UNCHANGED <<serving, sem, active, length, acquired, pending, rx>>
  /\ UNCHANGED samplerVars
  /\ UNCHANGED historyVars

ScheduleNext ==
  /\ worker.at = "spacing"
  /\ Schedule
  /\ worker' = Idle
  /\ UNCHANGED <<serving, sem, rx>>
  /\ UNCHANGED samplerVars
  /\ UNCHANGED transferVars
  /\ UNCHANGED historyVars

WorkerReset ==
  /\ worker.at \in {"reset", "complete"}
  /\ Reset
  /\ worker' = AfterReset
  /\ UNCHANGED <<serving, sem, rx>>
  /\ UNCHANGED samplerVars
  /\ UNCHANGED historyVars

WorkerGive ==
  /\ worker.at = "give"
  /\ sem' = TRUE
  /\ worker' = Idle
  /\ UNCHANGED <<serving, pending, rx>>
  /\ UNCHANGED samplerVars
  /\ UNCHANGED transferVars
  /\ UNCHANGED historyVars

-----------------------------------------------------------------------------
Init ==
  /\ sampler = "idle"
  /\ working = [sample |-> 0, length |-> 0]
  /\ serving = [sample |-> 0, length |-> 0]
  /\ sem = TRUE
  /\ active = FALSE
  /\ length = 0
  /\ acquired = FALSE
  /\ target = NoTarget
  /\ pending = FALSE
  /\ rx = Idle
  /\ worker = Idle
  /\ started = 0
  /\ lastId = 0
  /\ sent = {}

SamplerNext == RunScript \/ PublishTake \/ PublishCopy
RxStep      == Acquire \/ RefuseSnapshot \/ Refuse \/ Install \/ ScheduleFirst
WorkerNext  == WorkerWake \/ Build \/ BuildNothing \/ Transmit \/ Advance
               \/ ScheduleNext \/ WorkerReset \/ WorkerGive

RequestNext ==
  \/ \E n \in SampleLengths \cup {0} : Reserve(FullRequest(n))
  \/ \E g \in 0 .. lastId, i \in ChunkIndexes : Reserve(ChunkRequest(g, i))

Next == SamplerNext \/ RequestNext \/ RxStep \/ WorkerNext

Spec == Init /\ [][Next]_vars

(* The tasks are scheduled, and the semaphore serves a waiting publisher.  *)
Fairness ==
  /\ WF_vars(RxStep)
  /\ WF_vars(WorkerNext)
  /\ WF_vars(PublishCopy)
  /\ SF_vars(PublishTake)

FairSpec == Spec /\ Fairness
-----------------------------------------------------------------------------
(* Properties *)

Samples == [sample : Nat, length : Nat]
Queries == [kind : {"full"}, expected : Nat] \cup
           [kind : {"chunk"}, group : Nat, index : Nat]
Targets == [use : {"active", "inactive"}, next : Nat, end : Nat,
            sequence : Nat, group : Nat, id : Nat]
Chunks  == [id : Nat, group : Nat, index : Nat, offset : Nat,
            size : 1 .. ChunkSize, total : Nat, sample : Nat]

(* Types of the buffers, the transfer state and the program points; no     *)
(* chunk is empty or larger than EDGEZ_GLOBAL_BUFFER_CHUNK_SIZE.           *)
TypeOK ==
  /\ sampler \in {"idle", "publish", "copy"}
  /\ working \in Samples
  /\ serving \in Samples
  /\ sem \in BOOLEAN
  /\ active \in BOOLEAN
  /\ length \in Nat
  /\ acquired \in BOOLEAN
  /\ target \in Targets \cup {NoTarget}
  /\ pending \in BOOLEAN
  /\ rx \in [at : {"reserved", "leased"}, query : Queries] \cup
           [at : {"idle", "refuse", "installed"}]
  /\ worker \in [at : {"built", "sent"}, chunk : Chunks] \cup
               [at : {"idle", "woken", "spacing", "reset", "complete", "give"}]
  /\ started \in Nat
  /\ lastId \in Nat
  /\ sent \subseteq Chunks

(* Who has the lease: the publisher, a request that acquired it, the       *)
(* transfer it was handed to, or reliable_tx_task about to give it back.   *)
Users == {"publisher", "request", "transfer", "worker"}
HasLease(u) ==
  \/ u = "publisher" /\ sampler = "copy"
  \/ u = "request"   /\ rx.at = "leased"
  \/ u = "transfer"  /\ acquired
  \/ u = "worker"    /\ worker.at = "give"

(* The binary semaphore is neither leaked nor given twice: at most one     *)
(* user has the lease, and it can be taken exactly when nobody has it.     *)
LeaseAccounted ==
  /\ \A u, v \in Users : HasLease(u) /\ HasLease(v) => u = v
  /\ sem <=> \A u \in Users : ~HasLease(u)

(* The radio thread and reliable_tx_task share the single serving slot     *)
(* without a lock held across their steps.  While a request is being       *)
(* admitted the task is not at the transfer, so its reset cannot undo the  *)
(* reservation; while the task is at the transfer, the transfer is there;  *)
(* and a transfer nobody is working on has its wake-up pending.            *)
Admitting == rx.at \in {"reserved", "leased", "refuse", "installed"}
Sending   == pending \/ worker.at \notin {"idle", "give"}

SlotHandedOver ==
  /\ active <=> Admitting \/ Sending
  /\ ~(Admitting /\ Sending)
  /\ acquired <=> Sending \/ rx.at = "installed"
  /\ ~(pending /\ worker.at \notin {"idle", "give"})

(* Who may touch the serving buffer is settled at every step.              *)
BufferAccounted == LeaseAccounted /\ SlotHandedOver

(* Every chunk on the air carries the index its bytes have in the sample:  *)
(* full and chunk requests number chunks alike, and only the last chunk of *)
(* a sample is short.                                                      *)
ChunksAddressed ==
  \A c \in sent :
    /\ c.offset = c.index * ChunkSize
    /\ c.index < c.total
    /\ c.size < ChunkSize => c.index = c.total - 1

(* One transfer reads one sample, however long it takes and whatever the   *)
(* sampler does meanwhile.                                                 *)
TransferFromOneSample ==
  \A c, d \in sent : c.id = d.id => c.sample = d.sample

(* A GBR1 transfer that ends without a failure has handed every chunk of   *)
(* the sample to the radio.                                                *)
CompleteIsWhole ==
  worker.at = "complete" /\ target.group = 0 =>
    {c.index : c \in {d \in sent : d.id = target.id}} = 0 .. CeilChunks(length) - 1

(* A transfer ends, so the slot serves the next request.                   *)
TransferEnds == active ~> ~active

(* A finished sample is published in the end, whatever is being pulled.    *)
SampleIsPublished == sampler = "publish" ~> sampler = "idle"

(* Neither side waits for ever for the lease the other has.                *)
BufferMoves == TransferEnds /\ SampleIsPublished

(* What the requester gets: chunks with the right index, of one sample,    *)
(* and all of them when nothing fails.                                     *)
TransfersAreWhole == ChunksAddressed /\ TransferFromOneSample /\ CompleteIsWhole

(* The threads together implement the lease of ServingLease.               *)
Holder ==
  IF HasLease("publisher") THEN "publisher"
  ELSE IF \E u \in Users : HasLease(u) THEN "transfer" ELSE "none"
Lease == INSTANCE ServingLease WITH
  Snapshots <- Samples, snapshot <- serving, holder <- Holder
ImplementsLease == Lease!Spec

(* A chunk the requester asks for again belongs with those it has: chunks  *)
(* of one group are parts of one sample.                                   *)
MissingChunksFit ==
  \A c, d \in sent : c.group = d.group => c.sample = d.sample
=============================================================================
