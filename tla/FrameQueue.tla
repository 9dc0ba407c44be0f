----------------------------- MODULE FrameQueue -----------------------------
(***************************************************************************)
(* The two-priority frame queue of usb_control_transport.c that carries    *)
(* frames from the bridge to the USB host (the one in the other direction  *)
(* is the same code with a single producer).                               *)
(*                                                                         *)
(* Each lane is a ring of slots with a mutex and two counting semaphores,  *)
(* items and spaces; a third semaphore, work, counts the frames of both    *)
(* lanes and wakes the only consumer.  The tasks that push (the bridge's   *)
(* receive, status and mobile tasks, the command dispatcher) run           *)
(* concurrently.  One action is one semaphore call, or the access to the   *)
(* ring while the mutex is held.                                           *)
(*                                                                         *)
(* A frame is told from the others by the order in which it was submitted. *)
(***************************************************************************)
EXTENDS Naturals, Sequences, FiniteSets

CONSTANTS
  Producers,    \* tasks that push
  ControlSlots, \* USB_CONTROL_QUEUE_FRAMES
  RealtimeSlots,\* USB_REALTIME_QUEUE_FRAMES
  MaxFrames     \* bound: frames submitted

ASSUME FrameQueueAssumption ==
  /\ IsFiniteSet(Producers)
  /\ ControlSlots \in Nat \ {0}
  /\ RealtimeSlots \in Nat \ {0}
  /\ MaxFrames \in Nat

VARIABLES
  ring,     \* frames, per lane and slot; 0 before the first write
  head,     \* next slot to read, per lane
  tail,     \* next slot to write, per lane
  lock,     \* the lane's mutex: "free" or "held"
  items,    \* semaphore: frames that may be taken, per lane
  spaces,   \* semaphore: slots that may be filled, per lane
  work,     \* semaphore s_halow_to_mobile_work
  push,     \* per producer: where it is in usb_priority_queue_push
  pop,      \* where the consumer is in its loop
  submitted \* bound, and the name of the next frame

lanes == <<ring, head, tail, lock>>
vars  == <<lanes, items, spaces, work, push, pop, submitted>>

Lanes == {"control", "realtime"}
Capacity(lane) == IF lane = "control" THEN ControlSlots ELSE RealtimeSlots
Slots(lane) == 0 .. Capacity(lane) - 1

Quiet == [at |-> "idle"]

\* xSemaphoreGive of a counting semaphore: nothing happens at its maximum.
Given(count, most) == IF count < most THEN count + 1 ELSE count

After(slot, lane) == (slot + 1) % Capacity(lane)

-----------------------------------------------------------------------------
(* usb_priority_queue_push *)

At(p, where) == push[p].at = where
Goes(p, where) == push' = [push EXCEPT ![p].at = where]
Returns(p) == push' = [push EXCEPT ![p] = Quiet]

\* A call; control and realtime frames wait for a slot, log records do not.
Push(p) ==
  /\ At(p, "idle")
  /\ submitted < MaxFrames
  /\ submitted' = submitted + 1
  /\ \E lane \in Lanes, waits \in {"forever", "not"} :
       /\ waits = "not" => lane = "realtime"
       /\ push' = [push EXCEPT ![p] =
            [at |-> "space", lane |-> lane, frame |-> submitted + 1,
             waits |-> waits]]
  /\ UNCHANGED <<lanes, items, spaces, work, pop>>

TakeSpace(p) ==
  /\ At(p, "space")
  /\ LET lane == push[p].lane IN
       \/ /\ spaces[lane] > 0
          /\ spaces' = [spaces EXCEPT ![lane] = @ - 1]
          /\ Goes(p, "lock")
       \/ /\ spaces[lane] = 0
          /\ push[p].waits = "not"
          /\ Returns(p)
          /\ UNCHANGED spaces
  /\ UNCHANGED <<lanes, items, work, pop, submitted>>

\* Mutant: the ring is used without its mutex.
TakeLock_Barges(p) ==
  /\ At(p, "lock")
  /\ Goes(p, "write")
  /\ UNCHANGED <<lanes, items, spaces, work, pop, submitted>>

TakeLock(p) ==
  /\ At(p, "lock")
  /\ LET lane == push[p].lane IN
       \/ /\ lock[lane] = "free"
          /\ lock' = [lock EXCEPT ![lane] = "held"]
          /\ Goes(p, "write")
       \/ /\ lock[lane] = "held"
          /\ push[p].waits = "not"
          /\ Goes(p, "undo")
          /\ UNCHANGED lock
  /\ UNCHANGED <<ring, head, tail, items, spaces, work, pop, submitted>>

\* Mutant: the reserved slot is not given back.
UndoSpace_Forgotten(p) ==
  /\ At(p, "undo")
  /\ Returns(p)
  /\ UNCHANGED <<lanes, items, spaces, work, pop, submitted>>

UndoSpace(p) ==
  /\ At(p, "undo")
  /\ spaces' = [spaces EXCEPT ![push[p].lane] =
                  Given(@, Capacity(push[p].lane))]
  /\ Returns(p)
  /\ UNCHANGED <<lanes, items, work, pop, submitted>>

Write(p) ==
  /\ At(p, "write")
  /\ LET lane == push[p].lane IN
       ring' = [ring EXCEPT ![lane][tail[lane]] = push[p].frame]
  /\ Goes(p, "advance")
  /\ UNCHANGED <<head, tail, lock, items, spaces, work, pop, submitted>>

Advance(p) ==
  /\ At(p, "advance")
  /\ LET lane == push[p].lane IN
       /\ tail' = [tail EXCEPT ![lane] = After(@, lane)]
       /\ lock' = [lock EXCEPT ![lane] = "free"]
  /\ Goes(p, "item")
  /\ UNCHANGED <<ring, head, items, spaces, work, pop, submitted>>

GiveItem(p) ==
  /\ At(p, "item")
  /\ items' = [items EXCEPT ![push[p].lane] = Given(@, Capacity(push[p].lane))]
  /\ Goes(p, "work")
  /\ UNCHANGED <<lanes, spaces, work, pop, submitted>>

GiveWork(p) ==
  /\ At(p, "work")
  /\ work' = Given(work, ControlSlots + RealtimeSlots)
  /\ Returns(p)
  /\ UNCHANGED <<lanes, items, spaces, pop, submitted>>

-----------------------------------------------------------------------------
(* usb_halow_to_mobile_task *)

TakeWork ==
  /\ pop.at = "idle"
  /\ work > 0
  /\ work' = work - 1
  /\ pop' = [at |-> "control"]
  /\ UNCHANGED <<lanes, items, spaces, push, submitted>>

\* The item of a lane, without waiting: control first, then realtime, and
\* back to the wait when neither has one.
TakeItem ==
  /\ pop.at \in Lanes
  /\ LET lane == pop.at IN
       \/ /\ items[lane] > 0
          /\ items' = [items EXCEPT ![lane] = @ - 1]
          /\ pop' = [at |-> "lock", lane |-> lane]
       \/ /\ items[lane] = 0
          /\ pop' = IF lane = "control" THEN [at |-> "realtime"] ELSE Quiet
          /\ UNCHANGED items
  /\ UNCHANGED <<lanes, spaces, work, push, submitted>>

LockForRead ==
  /\ pop.at = "lock"
  /\ lock[pop.lane] = "free"
  /\ lock' = [lock EXCEPT ![pop.lane] = "held"]
  /\ pop' = [pop EXCEPT !.at = "read"]
  /\ UNCHANGED <<ring, head, tail, items, spaces, work, push, submitted>>

Read ==
  /\ pop.at = "read"
  /\ head' = [head EXCEPT ![pop.lane] = After(@, pop.lane)]
  /\ lock' = [lock EXCEPT ![pop.lane] = "free"]
  /\ pop' = [at |-> "space", lane |-> pop.lane,
             frame |-> ring[pop.lane][head[pop.lane]]]
  /\ UNCHANGED <<ring, tail, items, spaces, work, push, submitted>>

\* Mutant: the slot is not given back.
GiveSpace_Forgotten ==
  /\ pop.at = "space"
  /\ pop' = Quiet
  /\ UNCHANGED <<lanes, items, spaces, work, push, submitted>>

\* ... and the frame is handled: the next iteration starts at TakeWork.
GiveSpace ==
  /\ pop.at = "space"
  /\ spaces' = [spaces EXCEPT ![pop.lane] = Given(@, Capacity(pop.lane))]
  /\ pop' = Quiet
  /\ UNCHANGED <<lanes, items, work, push, submitted>>

-----------------------------------------------------------------------------
Init ==
  /\ ring = [lane \in Lanes |-> [s \in Slots(lane) |-> 0]]
  /\ head = [lane \in Lanes |-> 0]
  /\ tail = [lane \in Lanes |-> 0]
  /\ lock = [lane \in Lanes |-> "free"]
  /\ items = [lane \in Lanes |-> 0]
  /\ spaces = [lane \in Lanes |-> Capacity(lane)]
  /\ work = 0
  /\ push = [p \in Producers |-> Quiet]
  /\ pop = Quiet
  /\ submitted = 0

PushStep(p) ==
  TakeSpace(p) \/ TakeLock(p) \/ UndoSpace(p) \/ Write(p)
  \/ Advance(p) \/ GiveItem(p) \/ GiveWork(p)

PopStep == TakeWork \/ TakeItem \/ LockForRead \/ Read \/ GiveSpace

Next == (\E p \in Producers : Push(p) \/ PushStep(p)) \/ PopStep

Spec == Init /\ [][Next]_vars

\* The tasks run, and a semaphore or mutex serves the tasks waiting for it.
Fairness ==
  /\ \A p \in Producers : SF_vars(PushStep(p))
  /\ SF_vars(PopStep)

FairSpec == Spec /\ Fairness

-----------------------------------------------------------------------------
(* Properties *)

Frames == 1 .. MaxFrames

Points == {"space", "lock", "undo", "write", "advance", "item", "work"}

PushStates ==
  {Quiet} \cup [at : Points, lane : Lanes, frame : Frames,
               waits : {"forever", "not"}]

PopStates ==
  {Quiet} \cup [at : Lanes] \cup [at : {"lock", "read"}, lane : Lanes]
  \cup [at : {"space"}, lane : Lanes, frame : Frames \cup {0}]

TypeOK ==
  /\ ring \in [Lanes -> UNION {[Slots(lane) -> Frames \cup {0}] : lane \in Lanes}]
  /\ \A lane \in Lanes : ring[lane] \in [Slots(lane) -> Frames \cup {0}]
  /\ head \in [Lanes -> Nat] /\ \A lane \in Lanes : head[lane] \in Slots(lane)
  /\ tail \in [Lanes -> Nat] /\ \A lane \in Lanes : tail[lane] \in Slots(lane)
  /\ lock \in [Lanes -> {"free", "held"}]
  /\ items \in [Lanes -> Nat]
  /\ spaces \in [Lanes -> Nat]
  /\ work \in Nat
  /\ push \in [Producers -> PushStates]
  /\ pop \in PopStates
  /\ submitted \in 0 .. MaxFrames

\* The producers at one of the given points of a push to the lane.
Within(lane, points) ==
  {p \in Producers : push[p].at \in points /\ push[p].lane = lane}
Taking(lane, points) ==
  IF pop.at \in points /\ pop.lane = lane THEN 1 ELSE 0

Reserving == {"lock", "undo", "write", "advance", "item"}

\* A slot is free, reserved by one producer, filled and announced, or being
\* read: the semaphores of a lane lose none and give none twice, whichever
\* push gives up half-way.
SlotsAccounted ==
  \A lane \in Lanes :
    spaces[lane] + items[lane]
      + Cardinality(Within(lane, Reserving))
      + Taking(lane, {"lock", "read", "space"}) = Capacity(lane)

Announcing == {p \in Producers : push[p].at = "work"}
Promised == IF pop.at \in Lanes THEN 1 ELSE 0

\* Every frame that can be taken has its wake-up: given already, about to be
\* given, or just taken by the consumer.
WorkAccounted ==
  work + Cardinality(Announcing) + Promised = items["control"] + items["realtime"]

\* The consumer that was woken finds a frame in one of the lanes, although
\* the lanes are tried one after the other and producers run in between.
WorkFindsFrame == pop.at = "realtime" => items["realtime"] > 0

\* The semaphores account for every slot and every frame.
Accounted == SlotsAccounted /\ WorkAccounted /\ WorkFindsFrame

\* The frames written and not yet read of a lane, in the order of the slots.
Count(lane) ==
  items[lane] + Cardinality(Within(lane, {"item"})) + Taking(lane, {"lock", "read"})
Contents(lane) ==
  [i \in 1 .. Count(lane) |->
     ring[lane][(head[lane] + i - 1) % Capacity(lane)]]

\* Each lane is a bounded FIFO queue: the ring, its two indices and the
\* semaphores together lose, double and reorder nothing.
Control == INSTANCE BoundedFifo WITH
  Size <- ControlSlots, buffer <- Contents("control")
Realtime == INSTANCE BoundedFifo WITH
  Size <- RealtimeSlots, buffer <- Contents("realtime")
LanesAreFifo == Control!Spec /\ Realtime!Spec

\* A frame that waits for a slot gets one, however full the lanes are.
PushCompletes ==
  \A p \in Producers : push[p].at = "space" ~> push[p].at = "idle"

\* No frame stays behind in a lane without a wake-up for it: what was queued
\* is taken.
FramesLeave ==
  \A lane \in Lanes : items[lane] > 0 ~> items[lane] = 0

\* Neither a task that pushes nor a frame that was pushed is stuck.
QueueMoves == PushCompletes /\ FramesLeave
=============================================================================
