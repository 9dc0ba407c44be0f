---------------------------- MODULE Lanes_proofs ----------------------------
(***************************************************************************)
(* What is proved of the lanes of a device: the semaphores of the frame     *)
(* queues account for every slot and every frame, for any number of         *)
(* producers and slots, and a beacon that rests is current.                 *)
(***************************************************************************)
EXTENDS MCLanes, FiniteSetTheorems, SequenceTheorems, TLAPS

-----------------------------------------------------------------------------
(* The frame queues (FrameQueue)                                            *)

LEMMA Sizes ==
  /\ ControlSlots \in Nat \ {0} /\ RealtimeSlots \in Nat \ {0}
  /\ \A lane \in Lanes : Capacity(lane) \in Nat \ {0}
  /\ Capacity("control") = ControlSlots /\ Capacity("realtime") = RealtimeSlots
  BY FrameQueueAssumption DEF Capacity, Lanes

LEMMA AfterInRange ==
  ASSUME NEW lane \in Lanes, NEW slot \in Slots(lane)
  PROVE  After(slot, lane) \in Slots(lane)
<1>1. Capacity(lane) \in Nat \ {0} /\ slot \in Nat
  BY Sizes DEF Slots
<1> QED
  BY <1>1 DEF After, Slots

(* A producer that goes on keeps its lane and frame; the others stay.      *)
LEMMA Goes_Push ==
  ASSUME TypeOK, NEW p \in Producers, push[p].at # "idle",
         NEW where \in Points, Goes(p, where)
  PROVE  /\ push' \in [Producers -> PushStates]
         /\ push'[p].at = where
         /\ push'[p].lane = push[p].lane
         /\ push[p].lane \in Lanes
         /\ push[p].frame \in Frames
         /\ \A q \in Producers \ {p} : push'[q] = push[q]
<1> DEFINE Busy == [at : Points, lane : Lanes, frame : Frames, waits : {"forever", "not"}]
<1>1. push[p] \in Busy
  BY DEF TypeOK, PushStates, Quiet
<1>2. push' = [push EXCEPT ![p] = [push[p] EXCEPT !.at = where]]
  BY DEF Goes
<1>3. [push[p] EXCEPT !.at = where] \in Busy
  BY <1>1
<1>4. push'[p] = [push[p] EXCEPT !.at = where]
  BY <1>2 DEF TypeOK
<1>5. push'[p].at = where /\ push'[p].lane = push[p].lane
  BY <1>1, <1>4
<1>6. push' \in [Producers -> PushStates]
  BY <1>2, <1>3 DEF TypeOK, PushStates
<1>7. \A q \in Producers \ {p} : push'[q] = push[q]
  BY <1>2 DEF TypeOK
<1> QED
  BY <1>1, <1>5, <1>6, <1>7

LEMMA Returns_Push ==
  ASSUME TypeOK, NEW p \in Producers, Returns(p)
  PROVE  /\ push' \in [Producers -> PushStates]
         /\ push'[p].at = "idle"
         /\ \A q \in Producers \ {p} : push'[q] = push[q]
<1>1. push' = [push EXCEPT ![p] = Quiet]
  BY DEF Returns
<1> QED
  BY <1>1 DEF TypeOK, PushStates, Quiet

LEMMA AtLane ==
  ASSUME TypeOK, NEW p \in Producers, push[p].at # "idle"
  PROVE  push[p].lane \in Lanes /\ push[p].frame \in Frames
  BY DEF TypeOK, PushStates, Quiet

-----------------------------------------------------------------------------
(* Types *)

LEMMA InitTypeOK == Init => TypeOK
<1> SUFFICES ASSUME Init PROVE TypeOK
  OBVIOUS
<1>1. \A lane \in Lanes : 0 \in Slots(lane)
  BY Sizes DEF Slots
<1>2. \A lane \in Lanes : [s \in Slots(lane) |-> 0] \in [Slots(lane) -> Frames \cup {0}]
  OBVIOUS
<1>3. /\ \A lane \in Lanes : ring[lane] \in [Slots(lane) -> Frames \cup {0}]
      /\ ring \in [Lanes -> UNION {[Slots(lane) -> Frames \cup {0}] : lane \in Lanes}]
  BY <1>2 DEF Init
<1>4. spaces \in [Lanes -> Nat]
  BY Sizes DEF Init
<1>5. submitted \in 0 .. MaxFrames
  BY FrameQueueAssumption DEF Init
<1> QED
  BY <1>1, <1>3, <1>4, <1>5 DEF Init, TypeOK, PushStates, PopStates

LEMMA GivenNat ==
  ASSUME NEW count \in Nat, NEW most \in Nat
  PROVE  Given(count, most) \in Nat
  BY DEF Given

LEMMA PushStepTypeOK ==
  ASSUME TypeOK, NEW p \in Producers, PushStep(p)
  PROVE  TypeOK'
<1>a. push[p].at # "idle" /\ UNCHANGED <<pop, submitted>>
  BY DEF PushStep, TakeSpace, TakeLock, UndoSpace, Write, Advance, GiveItem,
         GiveWork, At, lanes
<1>b. push[p].lane \in Lanes /\ push[p].frame \in Frames
  BY <1>a, AtLane
<1>c. Capacity(push[p].lane) \in Nat /\ ControlSlots + RealtimeSlots \in Nat
  BY <1>b, Sizes
<1>p. push' \in [Producers -> PushStates]
  <2>1. (\E where \in Points : Goes(p, where)) \/ Returns(p)
    BY DEF PushStep, TakeSpace, TakeLock, UndoSpace, Write, Advance, GiveItem,
           GiveWork, Points
  <2> QED
    BY <1>a, <2>1, Goes_Push, Returns_Push
<1>1. CASE TakeSpace(p)
  <2>1. spaces' \in [Lanes -> Nat]
    BY <1>1, <1>b DEF TakeSpace, TypeOK
  <2> QED
    BY <1>1, <1>a, <1>p, <2>1 DEF TakeSpace, TypeOK, lanes
<1>2. CASE TakeLock(p)
  <2>1. lock' \in [Lanes -> {"free", "held"}]
    BY <1>2, <1>b DEF TakeLock, TypeOK
  <2> QED
    BY <1>2, <1>a, <1>p, <2>1 DEF TakeLock, TypeOK
<1>3. CASE UndoSpace(p)
  <2>1. spaces' \in [Lanes -> Nat]
    <3>1. Given(spaces[push[p].lane], Capacity(push[p].lane)) \in Nat
      BY <1>b, <1>c, GivenNat DEF TypeOK
    <3> QED
      BY <1>3, <1>b, <3>1 DEF UndoSpace, TypeOK
  <2> QED
    BY <1>3, <1>a, <1>p, <2>1 DEF UndoSpace, TypeOK, lanes
<1>4. CASE Write(p)
  <2>1. PICK lane \in Lanes :
          /\ lane = push[p].lane
          /\ ring' = [ring EXCEPT ![lane] = [ring[lane] EXCEPT ![tail[lane]] = push[p].frame]]
    BY <1>4, <1>b DEF Write
  <2>2. [ring[lane] EXCEPT ![tail[lane]] = push[p].frame] \in [Slots(lane) -> Frames \cup {0}]
    BY <1>b DEF TypeOK
  <2>3. /\ \A l \in Lanes : ring'[l] \in [Slots(l) -> Frames \cup {0}]
        /\ ring' \in [Lanes -> UNION {[Slots(l) -> Frames \cup {0}] : l \in Lanes}]
    BY <2>1, <2>2 DEF TypeOK
  <2> QED
    BY <1>4, <1>a, <1>p, <2>3 DEF Write, TypeOK
<1>5. CASE Advance(p)
  <2>1. PICK lane \in Lanes :
          /\ tail' = [tail EXCEPT ![lane] = After(tail[lane], lane)]
          /\ lock' = [lock EXCEPT ![lane] = "free"]
    BY <1>5, <1>b DEF Advance
  <2>2. After(tail[lane], lane) \in Slots(lane) /\ After(tail[lane], lane) \in Nat
    BY AfterInRange DEF TypeOK, Slots
  <2>3. tail' \in [Lanes -> Nat] /\ \A l \in Lanes : tail'[l] \in Slots(l)
    BY <2>1, <2>2 DEF TypeOK
  <2>4. lock' \in [Lanes -> {"free", "held"}]
    BY <2>1 DEF TypeOK
  <2> QED
    BY <1>5, <1>a, <1>p, <2>3, <2>4 DEF Advance, TypeOK
<1>6. CASE GiveItem(p)
  <2>1. items' \in [Lanes -> Nat]
    <3>1. Given(items[push[p].lane], Capacity(push[p].lane)) \in Nat
      BY <1>b, <1>c, GivenNat DEF TypeOK
    <3> QED
      BY <1>6, <1>b, <3>1 DEF GiveItem, TypeOK
  <2> QED
    BY <1>6, <1>a, <1>p, <2>1 DEF GiveItem, TypeOK, lanes
<1>7. CASE GiveWork(p)
  <2>1. work' \in Nat
    BY <1>7, <1>c, GivenNat DEF GiveWork, TypeOK
  <2> QED
    BY <1>7, <1>a, <1>p, <2>1 DEF GiveWork, TypeOK, lanes
<1> QED
  BY <1>1, <1>2, <1>3, <1>4, <1>5, <1>6, <1>7 DEF PushStep

LEMMA PopStepTypeOK ==
  ASSUME TypeOK, PopStep
  PROVE  TypeOK'
<1>a. UNCHANGED <<push, submitted>>
  BY DEF PopStep, TakeWork, TakeItem, LockForRead, Read, GiveSpace
<1>1. CASE TakeWork
  <2>1. work' \in Nat /\ pop' \in PopStates
    BY <1>1 DEF TakeWork, TypeOK, PopStates, Lanes
  <2> QED
    BY <1>1, <1>a, <2>1 DEF TakeWork, TypeOK, lanes
<1>2. CASE TakeItem
  <2>1. pop' \in PopStates
    BY <1>2 DEF TakeItem, PopStates, Lanes
  <2>2. items' \in [Lanes -> Nat]
    <3>1. CASE items' = [items EXCEPT ![pop.at] = @ - 1] /\ items[pop.at] > 0
               /\ pop.at \in Lanes
      BY <3>1 DEF TypeOK
    <3>2. CASE UNCHANGED items
      BY <3>2 DEF TypeOK
    <3> QED
      BY <1>2, <3>1, <3>2 DEF TakeItem
  <2>3. UNCHANGED <<lanes, spaces, work>>
    BY <1>2 DEF TakeItem
  <2> QED
    BY <1>a, <2>1, <2>2, <2>3 DEF TypeOK, lanes
<1>3. CASE LockForRead
  <2>1. pop \in [at : {"lock"}, lane : Lanes]
    BY <1>3 DEF LockForRead, TypeOK, PopStates, Quiet, Lanes
  <2>2. pop' \in [at : {"read"}, lane : Lanes]
    <3>1. pop' = [pop EXCEPT !.at = "read"]
      BY <1>3 DEF LockForRead
    <3> QED
      BY <2>1, <3>1
  <2>3. lock' \in [Lanes -> {"free", "held"}]
    BY <1>3 DEF LockForRead, TypeOK
  <2> QED
    BY <1>3, <1>a, <2>2, <2>3 DEF LockForRead, TypeOK, PopStates
<1>4. CASE Read
  <2>1. pop.lane \in Lanes
    BY <1>4 DEF Read, TypeOK, PopStates, Quiet, Lanes
  <2>2. PICK lane \in Lanes :
          /\ lane = pop.lane
          /\ head' = [head EXCEPT ![lane] = After(head[lane], lane)]
          /\ lock' = [lock EXCEPT ![lane] = "free"]
          /\ pop' = [at |-> "space", lane |-> lane, frame |-> ring[lane][head[lane]]]
    BY <1>4, <2>1 DEF Read
  <2>3. After(head[lane], lane) \in Slots(lane) /\ After(head[lane], lane) \in Nat
    BY AfterInRange DEF TypeOK, Slots
  <2>4. head' \in [Lanes -> Nat] /\ \A l \in Lanes : head'[l] \in Slots(l)
    BY <2>2, <2>3 DEF TypeOK
  <2>5. ring[lane][head[lane]] \in Frames \cup {0}
    BY DEF TypeOK
  <2>6. pop' \in PopStates
    BY <2>2, <2>5 DEF PopStates
  <2>7. lock' \in [Lanes -> {"free", "held"}]
    BY <2>2 DEF TypeOK
  <2>8. UNCHANGED <<ring, tail, items, spaces, work>>
    BY <1>4 DEF Read
  <2> QED
    BY <1>a, <2>4, <2>6, <2>7, <2>8 DEF TypeOK
<1>5. CASE GiveSpace
  <2>1. pop.lane \in Lanes
    BY <1>5 DEF GiveSpace, TypeOK, PopStates, Quiet, Lanes
  <2>2. Given(spaces[pop.lane], Capacity(pop.lane)) \in Nat
    BY <2>1, Sizes, GivenNat DEF TypeOK
  <2>3. spaces' \in [Lanes -> Nat]
    BY <1>5, <2>2 DEF GiveSpace, TypeOK
  <2> QED
    BY <1>5, <1>a, <2>3 DEF GiveSpace, TypeOK, PopStates, lanes
<1> QED
  BY <1>1, <1>2, <1>3, <1>4, <1>5 DEF PopStep

LEMMA PushTypeOK ==
  ASSUME TypeOK, NEW p \in Producers, Push(p)
  PROVE  TypeOK'
<1>1. submitted + 1 \in Frames /\ submitted' \in 0 .. MaxFrames
  BY FrameQueueAssumption DEF Push, TypeOK, Frames
<1>2. push' \in [Producers -> PushStates]
  BY <1>1 DEF Push, TypeOK, PushStates, Points
<1> QED
  BY <1>1, <1>2 DEF Push, TypeOK, lanes

LEMMA NextTypeOK == TypeOK /\ [Next]_vars => TypeOK'
<1>1. TypeOK /\ UNCHANGED vars => TypeOK'
  BY DEF TypeOK, vars, lanes
<1> QED
  BY <1>1, PushStepTypeOK, PopStepTypeOK, PushTypeOK DEF Next

(* The ring indices stay inside their ring and every task is at a point of *)
(* its call, for any number of tasks and slots.                            *)
THEOREM TypeCorrect == Spec => []TypeOK
  BY InitTypeOK, NextTypeOK, PTL DEF Spec

-----------------------------------------------------------------------------
(* Counting the producers at some points of a push *)

Reserved(lane) == Within(lane, Reserving)

LEMMA Counted ==
  ASSUME NEW S \in SUBSET Producers
  PROVE  IsFiniteSet(S) /\ Cardinality(S) \in Nat
<1>1. IsFiniteSet(S)
  BY FrameQueueAssumption, FS_Subset
<1> QED
  BY <1>1, FS_CardinalityType

LEMMA OneMore ==
  ASSUME NEW S \in SUBSET Producers, NEW p \in Producers, p \notin S
  PROVE  Cardinality(S \cup {p}) = Cardinality(S) + 1
<1>1. IsFiniteSet(S)
  BY Counted
<1> QED
  BY <1>1, FS_AddElement

LEMMA OneLess ==
  ASSUME NEW S \in SUBSET Producers, NEW p \in S
  PROVE  Cardinality(S \ {p}) = Cardinality(S) - 1 /\ Cardinality(S) > 0
<1>1. IsFiniteSet(S) /\ Cardinality(S) \in Nat
  BY Counted
<1>2. Cardinality(S \ {p}) = Cardinality(S) - 1
  BY <1>1, FS_RemoveElement
<1>3. Cardinality(S \ {p}) \in Nat
  BY Counted
<1> QED
  BY <1>1, <1>2, <1>3

LEMMA Numbers ==
  ASSUME TypeOK, NEW lane \in Lanes
  PROVE  /\ spaces[lane] \in Nat /\ items[lane] \in Nat
         /\ Cardinality(Reserved(lane)) \in Nat
         /\ Cardinality(Announcing) \in Nat
         /\ Capacity(lane) \in Nat
         /\ \A points : Taking(lane, points) \in {0, 1}
         /\ Promised \in {0, 1}
         /\ work \in Nat
<1>1. Reserved(lane) \subseteq Producers /\ Announcing \subseteq Producers
  BY DEF Reserved, Within, Announcing
<1>2. Cardinality(Reserved(lane)) \in Nat /\ Cardinality(Announcing) \in Nat
  BY <1>1, Counted
<1> QED
  BY <1>2, Sizes DEF TypeOK, Taking, Promised

(* What a step of one producer does to the two sets that are counted.      *)
LEMMA ReservedStep ==
  ASSUME TypeOK, NEW p \in Producers, push[p].at # "idle",
         \A q \in Producers \ {p} : push'[q] = push[q],
         push'[p].at = "idle" \/ push'[p].lane = push[p].lane,
         NEW lane \in Lanes
  PROVE  /\ lane # push[p].lane => Reserved(lane)' = Reserved(lane)
         /\ lane = push[p].lane =>
              /\ push[p].at \in Reserving /\ push'[p].at \in Reserving
                   => Reserved(lane)' = Reserved(lane)
              /\ push[p].at \notin Reserving /\ push'[p].at \notin Reserving
                   => Reserved(lane)' = Reserved(lane)
              /\ push[p].at \notin Reserving /\ push'[p].at \in Reserving
                   => Reserved(lane)' = Reserved(lane) \cup {p} /\ p \notin Reserved(lane)
              /\ push[p].at \in Reserving /\ push'[p].at \notin Reserving
                   => Reserved(lane)' = Reserved(lane) \ {p} /\ p \in Reserved(lane)
<1>1. "idle" \notin Reserving
  BY DEF Reserving
<1> QED
  BY <1>1 DEF Reserved, Within

LEMMA AnnouncingStep ==
  ASSUME NEW p \in Producers,
         \A q \in Producers \ {p} : push'[q] = push[q]
  PROVE  /\ (push[p].at = "work") <=> (push'[p].at = "work")
              => Announcing' = Announcing
         /\ push[p].at # "work" /\ push'[p].at = "work"
              => Announcing' = Announcing \cup {p} /\ p \notin Announcing
         /\ push[p].at = "work" /\ push'[p].at # "work"
              => Announcing' = Announcing \ {p} /\ p \in Announcing
  BY DEF Announcing

-----------------------------------------------------------------------------
(* The accounts *)

\* The points at which the consumer holds a slot that is no longer an item.
Emptying == {"lock", "read", "space"}

LEMMA SlotSum ==
  SlotsAccounted <=>
    \A lane \in Lanes :
      spaces[lane] + items[lane] + Cardinality(Reserved(lane))
        + Taking(lane, Emptying) = Capacity(lane)
  BY DEF SlotsAccounted, Reserved, Emptying

(* A give never meets the maximum of its semaphore.                        *)
LEMMA NeverSaturated ==
  ASSUME NEW count \in Nat, NEW most \in Nat, count < most
  PROVE  Given(count, most) = count + 1
  BY DEF Given

LEMMA InitAccounted == Init => Accounted
<1> SUFFICES ASSUME Init PROVE Accounted
  OBVIOUS
<1>1. \A lane \in Lanes : Reserved(lane) = {}
  BY DEF Init, Reserved, Within, Reserving, Quiet
<1>2. Announcing = {}
  BY DEF Init, Announcing, Quiet
<1>3. \A lane \in Lanes : Taking(lane, Emptying) = 0
  BY DEF Init, Taking, Emptying, Quiet
<1>4. Promised = 0 /\ pop.at # "realtime"
  BY DEF Init, Promised, Quiet, Lanes
<1>5. Cardinality({}) = 0
  BY FS_EmptySet
<1>6. SlotsAccounted
  <2> SUFFICES ASSUME NEW lane \in Lanes
               PROVE  spaces[lane] + items[lane] + Cardinality(Reserved(lane))
                        + Taking(lane, Emptying) = Capacity(lane)
    BY SlotSum
  <2>1. spaces[lane] = Capacity(lane) /\ items[lane] = 0 /\ Capacity(lane) \in Nat
    BY Sizes DEF Init
  <2> QED
    BY <2>1, <1>1, <1>3, <1>5
<1>7. WorkAccounted
  BY <1>2, <1>4, <1>5 DEF Init, WorkAccounted, Lanes
<1> QED
  BY <1>4, <1>6, <1>7 DEF Accounted, WorkFindsFrame

(* The steps of a producer, by what they do to the counters.               *)
LEMMA PushStepAccounted ==
  ASSUME TypeOK, Accounted, NEW p \in Producers, PushStep(p)
  PROVE  Accounted'
<1> DEFINE R(l) == Cardinality(Reserved(l))
           A == Cardinality(Announcing)
<1>a. push[p].at # "idle" /\ UNCHANGED pop
  BY DEF PushStep, TakeSpace, TakeLock, UndoSpace, Write, Advance, GiveItem,
         GiveWork, At, lanes
<1>b. PICK L \in Lanes : L = push[p].lane
  BY <1>a, AtLane
<1>c. \A l \in Lanes :
        /\ spaces[l] \in Nat /\ items[l] \in Nat /\ R(l) \in Nat
        /\ A \in Nat /\ Capacity(l) \in Nat /\ work \in Nat
        /\ Taking(l, Emptying) \in {0, 1} /\ Promised \in {0, 1}
  BY Numbers
<1>d. /\ \A l \in Lanes : Taking(l, Emptying)' = Taking(l, Emptying)
      /\ Promised' = Promised
  BY <1>a DEF Taking, Promised
<1>e. /\ \A l \in Lanes :
           spaces[l] + items[l] + R(l) + Taking(l, Emptying) = Capacity(l)
      /\ work + A + Promised = items["control"] + items["realtime"]
      /\ pop.at = "realtime" => items["realtime"] > 0
  BY SlotSum DEF Accounted, WorkAccounted, WorkFindsFrame
<1>f. /\ \A q \in Producers \ {p} : push'[q] = push[q]
      /\ push'[p].at = "idle" \/ push'[p].lane = L
  <2>1. (\E where \in Points : Goes(p, where)) \/ Returns(p)
    BY DEF PushStep, TakeSpace, TakeLock, UndoSpace, Write, Advance, GiveItem,
           GiveWork, Points
  <2> QED
    BY <1>a, <1>b, <2>1, Goes_Push, Returns_Push
<1>g. Announcing \subseteq Producers /\ \A l \in Lanes : Reserved(l) \subseteq Producers
  BY DEF Announcing, Reserved, Within
\* No producer enters or leaves a counted set, and no counter moves.
<1>1. ASSUME push[p].at \in Reserving <=> push'[p].at \in Reserving,
             push[p].at # "work", push'[p].at # "work",
             UNCHANGED <<spaces, items, work>>
      PROVE  Accounted'
  <2>1. \A l \in Lanes : Reserved(l)' = Reserved(l)
    BY <1>1, <1>a, <1>b, <1>f, ReservedStep
  <2>2. Announcing' = Announcing
    BY <1>1, <1>f, AnnouncingStep
  <2>3. WorkAccounted' /\ WorkFindsFrame'
    BY <1>1, <1>a, <1>d, <1>e, <2>2 DEF WorkAccounted, WorkFindsFrame
  <2>4. SlotsAccounted'
    BY <1>1, <1>d, <1>e, <2>1, SlotSum DEF SlotsAccounted, Reserved, Emptying
  <2> QED
    BY <2>3, <2>4 DEF Accounted
\* A slot is reserved.
<1>2. ASSUME push[p].at \notin Reserving, push'[p].at \in Reserving,
             push[p].at # "work", push'[p].at # "work",
             spaces[L] > 0, spaces' = [spaces EXCEPT ![L] = spaces[L] - 1],
             UNCHANGED <<items, work>>
      PROVE  Accounted'
  <2>1. \A l \in Lanes :
          R(l)' = IF l = L THEN R(l) + 1 ELSE R(l)
    <3>1. \A l \in Lanes \ {L} : Reserved(l)' = Reserved(l)
      BY <1>a, <1>b, <1>f, ReservedStep
    <3>2. Reserved(L)' = Reserved(L) \cup {p} /\ p \notin Reserved(L)
      BY <1>2, <1>a, <1>b, <1>f, ReservedStep
    <3>3. Cardinality(Reserved(L) \cup {p}) = R(L) + 1
      BY <3>2, <1>b, <1>g, OneMore
    <3> QED
      BY <3>1, <3>2, <3>3
  <2>2. Announcing' = Announcing
    BY <1>2, <1>f, AnnouncingStep
  <2>3. \A l \in Lanes : spaces'[l] = IF l = L THEN spaces[l] - 1 ELSE spaces[l]
    BY <1>2, <1>b DEF TypeOK
  <2>4. SlotsAccounted'
    <3> SUFFICES ASSUME NEW l \in Lanes
                 PROVE  spaces'[l] + items'[l] + R(l)' + Taking(l, Emptying)' = Capacity(l)
      BY DEF SlotsAccounted, Reserved, Emptying
    <3> QED
      BY <1>2, <1>c, <1>d, <1>e, <2>1, <2>3
  <2>5. WorkAccounted' /\ WorkFindsFrame'
    BY <1>2, <1>a, <1>d, <1>e, <2>2 DEF WorkAccounted, WorkFindsFrame
  <2> QED
    BY <2>4, <2>5 DEF Accounted
\* A reserved slot is given back or turned into an item.
<1>3. ASSUME push[p].at \in Reserving, push'[p].at \notin Reserving
      PROVE  /\ R(L) > 0
             /\ \A l \in Lanes : R(l)' = IF l = L THEN R(l) - 1 ELSE R(l)
  <2>1. \A l \in Lanes \ {L} : Reserved(l)' = Reserved(l)
    BY <1>a, <1>b, <1>f, ReservedStep
  <2>2. Reserved(L)' = Reserved(L) \ {p} /\ p \in Reserved(L)
    BY <1>3, <1>a, <1>b, <1>f, ReservedStep
  <2>3. Cardinality(Reserved(L) \ {p}) = R(L) - 1 /\ R(L) > 0
    BY <2>2, <1>b, <1>g, OneLess
  <2> QED
    BY <2>1, <2>2, <2>3
<1>4. CASE TakeSpace(p)
  <2>1. CASE spaces[L] > 0 /\ spaces' = [spaces EXCEPT ![L] = @ - 1] /\ Goes(p, "lock")
    <3>1. push'[p].at = "lock"
      BY <2>1, <1>a, Goes_Push DEF Points
    <3>2. push[p].at = "space" /\ UNCHANGED <<items, work>>
      BY <1>4 DEF TakeSpace, At
    <3> QED
      BY <2>1, <3>1, <3>2, <1>2 DEF Reserving
  <2>2. CASE Returns(p) /\ UNCHANGED spaces
    <3>1. push'[p].at = "idle"
      BY <2>2, Returns_Push
    <3>2. push[p].at = "space" /\ UNCHANGED <<items, work>>
      BY <1>4 DEF TakeSpace, At
    <3> QED
      BY <2>2, <3>1, <3>2, <1>1 DEF Reserving
  <2> QED
    BY <1>4, <1>b, <2>1, <2>2 DEF TakeSpace
<1>5. CASE TakeLock(p) \/ Write(p) \/ Advance(p)
  <2>1. push[p].at \in {"lock", "write", "advance"} /\ UNCHANGED <<spaces, items, work>>
    BY <1>5 DEF TakeLock, Write, Advance, At
  <2>2. \E where \in {"write", "undo", "advance", "item"} : Goes(p, where)
    BY <1>5 DEF TakeLock, Write, Advance
  <2>3. push'[p].at \in {"write", "undo", "advance", "item"}
    BY <2>2, <1>a, Goes_Push DEF Points
  <2> QED
    BY <2>1, <2>3, <1>1 DEF Reserving
<1>6. CASE UndoSpace(p)
  <2>1. push[p].at = "undo" /\ push'[p].at = "idle"
    BY <1>6, Returns_Push DEF UndoSpace, At
  <2>2. R(L) > 0 /\ \A l \in Lanes : R(l)' = IF l = L THEN R(l) - 1 ELSE R(l)
    BY <2>1, <1>3 DEF Reserving
  <2>3. spaces[L] < Capacity(L)
    BY <2>2, <1>b, <1>c, <1>e
  <2>4. spaces' = [spaces EXCEPT ![L] = spaces[L] + 1] /\ UNCHANGED <<items, work>>
    BY <1>6, <1>b, <1>c, <2>3, NeverSaturated DEF UndoSpace
  <2>5. \A l \in Lanes : spaces'[l] = IF l = L THEN spaces[l] + 1 ELSE spaces[l]
    BY <2>4, <1>b DEF TypeOK
  <2>6. Announcing' = Announcing
    BY <2>1, <1>f, AnnouncingStep
  <2>7. SlotsAccounted'
    <3> SUFFICES ASSUME NEW l \in Lanes
                 PROVE  spaces'[l] + items'[l] + R(l)' + Taking(l, Emptying)' = Capacity(l)
      BY DEF SlotsAccounted, Reserved, Emptying
    <3> QED
      BY <2>2, <2>4, <2>5, <1>c, <1>d, <1>e
  <2>8. WorkAccounted' /\ WorkFindsFrame'
    BY <2>4, <2>6, <1>a, <1>d, <1>e DEF WorkAccounted, WorkFindsFrame
  <2> QED
    BY <2>7, <2>8 DEF Accounted
<1>7. CASE GiveItem(p)
  <2>1. push[p].at = "item" /\ push'[p].at = "work"
    BY <1>7, <1>a, Goes_Push DEF GiveItem, At, Points
  <2>2. R(L) > 0 /\ \A l \in Lanes : R(l)' = IF l = L THEN R(l) - 1 ELSE R(l)
    BY <2>1, <1>3 DEF Reserving
  <2>3. items[L] < Capacity(L)
    BY <2>2, <1>b, <1>c, <1>e
  <2>4. items' = [items EXCEPT ![L] = items[L] + 1] /\ UNCHANGED <<spaces, work>>
    BY <1>7, <1>b, <1>c, <2>3, NeverSaturated DEF GiveItem
  <2>5. \A l \in Lanes : items'[l] = IF l = L THEN items[l] + 1 ELSE items[l]
    BY <2>4, <1>b DEF TypeOK
  <2>6. A' = A + 1
    <3>1. Announcing' = Announcing \cup {p} /\ p \notin Announcing
      BY <2>1, <1>f, AnnouncingStep
    <3> QED
      BY <3>1, <1>g, OneMore
  <2>7. SlotsAccounted'
    <3> SUFFICES ASSUME NEW l \in Lanes
                 PROVE  spaces'[l] + items'[l] + R(l)' + Taking(l, Emptying)' = Capacity(l)
      BY DEF SlotsAccounted, Reserved, Emptying
    <3> QED
      BY <2>2, <2>4, <2>5, <1>c, <1>d, <1>e
  <2>8. items'["control"] + items'["realtime"] = items["control"] + items["realtime"] + 1
    BY <2>5, <1>b, <1>c DEF Lanes
  <2>9. WorkAccounted'
    BY <2>4, <2>6, <2>8, <1>b, <1>c, <1>d, <1>e DEF WorkAccounted, Lanes
  <2>10. WorkFindsFrame'
    BY <2>5, <1>a, <1>c, <1>e DEF WorkFindsFrame, Lanes
  <2> QED
    BY <2>7, <2>9, <2>10 DEF Accounted
<1>8. CASE GiveWork(p)
  <2>1. push[p].at = "work" /\ push'[p].at = "idle"
    BY <1>8, Returns_Push DEF GiveWork, At
  <2>2. A' = A - 1 /\ A > 0
    <3>1. Announcing' = Announcing \ {p} /\ p \in Announcing
      BY <2>1, <1>f, AnnouncingStep
    <3> QED
      BY <3>1, <1>g, OneLess
  <2>3. items["control"] <= ControlSlots /\ items["realtime"] <= RealtimeSlots
    BY <1>c, <1>e, Sizes DEF Lanes
  <2>4. work < ControlSlots + RealtimeSlots
    BY <2>2, <2>3, <1>b, <1>c, <1>e, Sizes DEF Lanes
  <2>5. work' = work + 1 /\ UNCHANGED <<spaces, items>>
    BY <1>8, <1>b, <1>c, <2>4, NeverSaturated, Sizes DEF GiveWork
  <2>6. \A l \in Lanes : Reserved(l)' = Reserved(l)
    BY <2>1, <1>a, <1>b, <1>f, ReservedStep DEF Reserving
  <2>7. SlotsAccounted'
    BY <2>5, <2>6, <1>d, <1>e DEF SlotsAccounted, Reserved, Emptying
  <2>8. WorkAccounted'
    BY <2>2, <2>5, <1>b, <1>c, <1>d, <1>e DEF WorkAccounted, Lanes
  <2>9. WorkFindsFrame'
    BY <2>5, <1>a, <1>e DEF WorkFindsFrame
  <2> QED
    BY <2>7, <2>8, <2>9 DEF Accounted
<1> QED
  BY <1>4, <1>5, <1>6, <1>7, <1>8 DEF PushStep

(* The steps of the consumer.                                              *)
LEMMA PopStepAccounted ==
  ASSUME TypeOK, Accounted, PopStep
  PROVE  Accounted'
<1> DEFINE R(l) == Cardinality(Reserved(l))
           A == Cardinality(Announcing)
<1>a. UNCHANGED push
  BY DEF PopStep, TakeWork, TakeItem, LockForRead, Read, GiveSpace
<1>b. /\ \A l \in Lanes : R(l)' = R(l)
      /\ A' = A
  BY <1>a DEF Reserved, Within, Announcing
<1>c. \A l \in Lanes :
        /\ spaces[l] \in Nat /\ items[l] \in Nat /\ R(l) \in Nat
        /\ A \in Nat /\ Capacity(l) \in Nat /\ work \in Nat
        /\ Taking(l, Emptying) \in {0, 1} /\ Promised \in {0, 1}
  BY Numbers
<1>d. /\ \A l \in Lanes :
           spaces[l] + items[l] + R(l) + Taking(l, Emptying) = Capacity(l)
      /\ work + A + Promised = items["control"] + items["realtime"]
      /\ pop.at = "realtime" => items["realtime"] > 0
  BY SlotSum DEF Accounted, WorkAccounted, WorkFindsFrame
<1>e. "control" \in Lanes /\ "realtime" \in Lanes
  BY DEF Lanes
<1>f. ASSUME \A l \in Lanes :
               spaces'[l] + items'[l] + R(l)' + Taking(l, Emptying)' = Capacity(l)
      PROVE  SlotsAccounted'
  BY <1>f DEF SlotsAccounted, Reserved, Emptying
<1>1. CASE TakeWork
  <2>1. /\ pop.at = "idle" /\ pop' = [at |-> "control"] /\ work > 0
        /\ work' = work - 1 /\ UNCHANGED <<items, spaces>>
    BY <1>1 DEF TakeWork
  <2>2. /\ Promised = 0 /\ Promised' = 1
        /\ \A l \in Lanes : Taking(l, Emptying) = 0 /\ Taking(l, Emptying)' = 0
    BY <2>1 DEF Promised, Taking, Emptying, Lanes
  <2>3. SlotsAccounted'
    BY <2>1, <2>2, <1>b, <1>d, <1>f
  <2>4. WorkAccounted'
    BY <2>1, <2>2, <1>b, <1>c, <1>d, <1>e DEF WorkAccounted
  <2>5. WorkFindsFrame'
    BY <2>1 DEF WorkFindsFrame
  <2> QED
    BY <2>3, <2>4, <2>5 DEF Accounted
<1>2. CASE TakeItem
  <2>1. PICK lane \in Lanes :
          /\ lane = pop.at
          /\ \/ /\ items[lane] > 0
                /\ items' = [items EXCEPT ![lane] = items[lane] - 1]
                /\ pop' = [at |-> "lock", lane |-> lane]
             \/ /\ items[lane] = 0
                /\ pop' = IF lane = "control" THEN [at |-> "realtime"] ELSE Quiet
                /\ UNCHANGED items
    BY <1>2 DEF TakeItem
  <2>2. UNCHANGED <<spaces, work>> /\ Promised = 1
        /\ \A l \in Lanes : Taking(l, Emptying) = 0
    BY <1>2, <2>1 DEF TakeItem, Promised, Taking, Emptying, Lanes
  <2>3. CASE items[lane] > 0
    <3>1. \A l \in Lanes : items'[l] = IF l = lane THEN items[l] - 1 ELSE items[l]
      BY <2>1, <2>3 DEF TypeOK
    <3>2. pop' = [at |-> "lock", lane |-> lane]
      BY <2>1, <2>3
    <3>3. Promised' = 0 /\ pop'.at # "realtime"
      BY <3>2 DEF Promised, Lanes
    <3>4. \A l \in Lanes : Taking(l, Emptying)' = IF l = lane THEN 1 ELSE 0
      BY <3>2 DEF Taking, Emptying
    <3>5. SlotsAccounted'
      <4>1. ASSUME NEW l \in Lanes
            PROVE  spaces'[l] + items'[l] + R(l)' + Taking(l, Emptying)' = Capacity(l)
        BY <2>2, <3>1, <3>4, <1>b, <1>c, <1>d
      <4> QED
        BY <4>1, <1>f
    <3>6. items'["control"] + items'["realtime"] = items["control"] + items["realtime"] - 1
      BY <3>1, <1>c, <1>e DEF Lanes
    <3>7. WorkAccounted'
      BY <2>2, <3>3, <3>6, <1>b, <1>c, <1>d, <1>e DEF WorkAccounted
    <3> QED
      BY <3>3, <3>5, <3>7 DEF Accounted, WorkFindsFrame
  <2>4. CASE items[lane] = 0
    <3>1. lane = "control"
      BY <2>1, <2>4, <1>d DEF Lanes
    <3>2. pop' = [at |-> "realtime"] /\ UNCHANGED items
      BY <2>1, <2>4, <3>1, <1>c
    <3>3. Promised' = 1 /\ \A l \in Lanes : Taking(l, Emptying)' = 0
      BY <3>2 DEF Promised, Taking, Emptying, Lanes
    <3>4. SlotsAccounted'
      BY <2>2, <3>2, <3>3, <1>b, <1>d, <1>f
    <3>5. WorkAccounted'
      BY <2>2, <3>2, <3>3, <1>b, <1>d DEF WorkAccounted
    <3>6. WorkFindsFrame'
      BY <2>2, <2>4, <3>1, <3>2, <1>c, <1>d, <1>e DEF WorkFindsFrame
    <3> QED
      BY <3>4, <3>5, <3>6 DEF Accounted
  <2> QED
    BY <2>1, <2>3, <2>4
<1>3. CASE LockForRead \/ Read
  <2>1. /\ pop.at \in {"lock", "read"} /\ pop'.at \in {"read", "space"}
        /\ pop'.lane = pop.lane /\ UNCHANGED <<items, spaces, work>>
    <3>1. CASE LockForRead
      <4>1. pop \in [at : {"lock"}, lane : Lanes]
        BY <3>1 DEF LockForRead, TypeOK, PopStates, Quiet, Lanes
      <4>2. pop' = [pop EXCEPT !.at = "read"] /\ UNCHANGED <<items, spaces, work>>
        BY <3>1 DEF LockForRead
      <4> QED
        BY <4>1, <4>2
    <3>2. CASE Read
      BY <3>2 DEF Read
    <3> QED
      BY <1>3, <3>1, <3>2
  <2>2. /\ Promised = 0 /\ Promised' = 0
        /\ \A l \in Lanes : Taking(l, Emptying)' = Taking(l, Emptying)
    BY <2>1 DEF Promised, Taking, Emptying, Lanes
  <2>3. SlotsAccounted'
    BY <2>1, <2>2, <1>b, <1>d, <1>f
  <2> QED
    BY <2>1, <2>2, <2>3, <1>b, <1>d DEF Accounted, WorkAccounted, WorkFindsFrame
<1>4. CASE GiveSpace
  <2>1. PICK lane \in Lanes : lane = pop.lane
    BY <1>4 DEF GiveSpace, TypeOK, PopStates, Quiet, Lanes
  <2>2. /\ pop.at = "space" /\ pop'.at = "idle" /\ UNCHANGED <<items, work>>
        /\ spaces' = [spaces EXCEPT ![lane] = Given(spaces[lane], Capacity(lane))]
    BY <1>4, <2>1 DEF GiveSpace, Quiet
  <2>3. /\ Promised = 0 /\ Promised' = 0
        /\ \A l \in Lanes : Taking(l, Emptying) = IF l = lane THEN 1 ELSE 0
        /\ \A l \in Lanes : Taking(l, Emptying)' = 0
    BY <2>1, <2>2 DEF Promised, Taking, Emptying, Lanes
  <2>4. spaces[lane] < Capacity(lane)
    BY <2>3, <1>c, <1>d
  <2>5. \A l \in Lanes : spaces'[l] = IF l = lane THEN spaces[l] + 1 ELSE spaces[l]
    <3>1. Given(spaces[lane], Capacity(lane)) = spaces[lane] + 1
      BY <2>4, <1>c, NeverSaturated
    <3> QED
      BY <2>2, <3>1 DEF TypeOK
  <2>6. SlotsAccounted'
    <3>1. ASSUME NEW l \in Lanes
          PROVE  spaces'[l] + items'[l] + R(l)' + Taking(l, Emptying)' = Capacity(l)
      BY <2>2, <2>3, <2>5, <1>b, <1>c, <1>d
    <3> QED
      BY <3>1, <1>f
  <2> QED
    BY <2>2, <2>3, <2>6, <1>b, <1>d DEF Accounted, WorkAccounted, WorkFindsFrame
<1> QED
  BY <1>1, <1>2, <1>3, <1>4 DEF PopStep

LEMMA PushAccounted ==
  ASSUME TypeOK, Accounted, NEW p \in Producers, Push(p)
  PROVE  Accounted'
<1>1. /\ push[p].at = "idle" /\ push'[p].at = "space"
      /\ \A q \in Producers \ {p} : push'[q] = push[q]
  BY DEF Push, At, TypeOK
<1>2. UNCHANGED <<items, spaces, work, pop>>
  BY DEF Push
<1>3. /\ \A lane \in Lanes : Within(lane, Reserving)' = Within(lane, Reserving)
      /\ Announcing' = Announcing
  BY <1>1 DEF Within, Reserving, Announcing
<1> QED
  BY <1>2, <1>3 DEF Accounted, SlotsAccounted, WorkAccounted, WorkFindsFrame,
                    Taking, Promised

LEMMA NextAccounted == TypeOK /\ Accounted /\ [Next]_vars => Accounted'
<1>1. ASSUME Accounted, UNCHANGED vars PROVE Accounted'
  BY <1>1 DEF Accounted, SlotsAccounted, WorkAccounted, WorkFindsFrame, Within,
              Taking, Announcing, Promised, vars, lanes
<1> QED
  BY <1>1, PushStepAccounted, PopStepAccounted, PushAccounted DEF Next

(* However the producers interleave, give up and drop, the semaphores      *)
(* account for every slot and every frame of both lanes.                   *)
THEOREM AlwaysAccounted == Spec => []Accounted
  BY TypeCorrect, InitAccounted, NextAccounted, PTL DEF Spec

(* However many tasks push and give up half-way, a lane neither loses a    *)
(* slot nor gives one out twice.                                           *)
THEOREM SlotsAreAccounted == Spec => []SlotsAccounted
<1>1. Accounted => SlotsAccounted
  BY DEF Accounted
<1> QED
  BY <1>1, AlwaysAccounted, PTL

(* The wake-ups match the frames, so the work semaphore never meets its    *)
(* maximum and no frame is left without a wake-up.                         *)
THEOREM WorkIsAccounted == Spec => []WorkAccounted
<1>1. Accounted => WorkAccounted
  BY DEF Accounted
<1> QED
  BY <1>1, AlwaysAccounted, PTL

(* A woken consumer finds a frame in one of the lanes it tries.            *)
THEOREM WokenFindsFrame == Spec => []WorkFindsFrame
<1>1. Accounted => WorkFindsFrame
  BY DEF Accounted
<1> QED
  BY <1>1, AlwaysAccounted, PTL

-----------------------------------------------------------------------------
(* Each lane is a bounded FIFO queue                                       *)

(* Who is at the ring of a lane, with its mutex.                           *)
Reading(lane) == pop.at = "read" /\ pop.lane = lane
Writing(p, lane) == push[p].at \in {"write", "advance"} /\ push[p].lane = lane

Exclusive == \A lane \in Lanes :
  /\ lock[lane] = "free" => ~Reading(lane) /\ \A p \in Producers : ~Writing(p, lane)
  /\ Reading(lane) => \A p \in Producers : ~Writing(p, lane)
  /\ \A p, q \in Producers : Writing(p, lane) /\ Writing(q, lane) => p = q

(* A producer that is about to move the tail has its frame there.          *)
Written == \A p \in Producers :
  At(p, "advance") => ring[push[p].lane][tail[push[p].lane]] = push[p].frame

(* The next slot to write is the one after the contents.                   *)
TailIsEnd == \A lane \in Lanes : tail[lane] = (head[lane] + Count(lane)) % Capacity(lane)

FifoInv == TypeOK /\ Accounted /\ Exclusive /\ Written /\ TailIsEnd

LEMMA Wrap ==
  ASSUME NEW c \in Nat \ {0}, NEW a \in 0 .. c + c - 1
  PROVE  a % c = (IF a < c THEN a ELSE a - c)
<1>1. a = c * (a \div c) + (a % c) /\ a % c \in 0 .. c - 1 /\ a \div c \in Int
  OBVIOUS
<1>2. CASE a < c
  BY <1>2
<1>3. CASE a >= c
  BY <1>1, <1>3
<1> QED
  BY <1>2, <1>3

(* Going on from a slot leads to the same place as going there at once.    *)
LEMMA WrapOn ==
  ASSUME NEW c \in Nat \ {0}, NEW a \in 0 .. c + c - 1, NEW b \in Nat, a + b \in 0 .. c + c - 1
  PROVE  ((a % c) + b) % c = (a + b) % c
<1>1. a % c = (IF a < c THEN a ELSE a - c)
  BY Wrap
<1>2. CASE a < c
  BY <1>1, <1>2
<1>3. CASE a >= c
  <2>1. a % c = a - c
    BY <1>1, <1>3
  <2> DEFINE d == a - c + b
             e == a + b
  <2>2. /\ d \in 0 .. c + c - 1 /\ d < c
        /\ e \in 0 .. c + c - 1 /\ ~(e < c) /\ d = e - c /\ d = (a % c) + b
    BY <1>3, <2>1
  <2> HIDE DEF d, e
  <2>3. d % c = d /\ e % c = e - c
    BY <2>2, Wrap
  <2>4. ((a % c) + b) % c = d
    BY <2>2, <2>3
  <2>5. (a + b) % c = e - c
    BY <2>3 DEF e
  <2> QED
    BY <2>2, <2>4, <2>5
<1> QED
  BY <1>2, <1>3

LEMMA InitCount ==
  ASSUME Init, NEW lane \in Lanes
  PROVE  Count(lane) = 0
<1>1. Within(lane, {"item"}) = {}
  BY DEF Init, Quiet, Within
<1>2. items[lane] = 0 /\ Taking(lane, {"lock", "read"}) = 0
  BY DEF Init, Quiet, Taking
<1> QED
  BY <1>1, <1>2, FS_EmptySet DEF Count

LEMMA InitFifo == Init => Exclusive /\ Written /\ TailIsEnd
<1> SUFFICES ASSUME Init PROVE Exclusive /\ Written /\ TailIsEnd
  OBVIOUS
<1>1. pop.at = "idle" /\ \A p \in Producers : push[p].at = "idle"
  BY DEF Init, Quiet
<1>2. Exclusive /\ Written
  BY <1>1 DEF Exclusive, Written, Reading, Writing, At
<1>3. \A lane \in Lanes : Count(lane) = 0
  BY InitCount
<1>4. TailIsEnd
  <2> SUFFICES ASSUME NEW lane \in Lanes
               PROVE  tail[lane] = (head[lane] + Count(lane)) % Capacity(lane)
    BY DEF TailIsEnd
  <2>1. tail[lane] = 0 /\ head[lane] = 0 /\ Capacity(lane) \in Nat \ {0}
    BY Sizes DEF Init
  <2>2. 0 % Capacity(lane) = 0
    BY <2>1, Wrap
  <2> QED
    BY <1>3, <2>1, <2>2
<1> QED
  BY <1>2, <1>4

(* A lane has no more contents than slots, and room for a frame that is    *)
(* being written.                                                          *)
LEMMA CountBound ==
  ASSUME TypeOK, Accounted, NEW lane \in Lanes
  PROVE  /\ Count(lane) \in Nat /\ Count(lane) <= Capacity(lane)
         /\ \A p \in Producers : Writing(p, lane) => Count(lane) < Capacity(lane)
<1> DEFINE I == Within(lane, {"item"})
           R == Reserved(lane)
<1>1. I \subseteq R /\ R \in SUBSET Producers /\ I \in SUBSET Producers
  BY DEF Within, Reserved, Reserving
<1>2. /\ Cardinality(I) \in Nat /\ Cardinality(R) \in Nat /\ IsFiniteSet(R)
      /\ Cardinality(I) <= Cardinality(R)
  BY <1>1, Counted, FS_Subset
<1>3. /\ items[lane] \in Nat /\ spaces[lane] \in Nat /\ Capacity(lane) \in Nat
      /\ Taking(lane, Emptying) \in {0, 1} /\ Taking(lane, {"lock", "read"}) \in {0, 1}
  BY Numbers
<1>4. Taking(lane, {"lock", "read"}) <= Taking(lane, Emptying)
  BY DEF Taking, Emptying
<1>5. spaces[lane] + items[lane] + Cardinality(R) + Taking(lane, Emptying) = Capacity(lane)
  BY SlotSum DEF Accounted
<1>6. Count(lane) = items[lane] + Cardinality(I) + Taking(lane, {"lock", "read"})
  BY DEF Count
<1> HIDE DEF I, R
<1>7. ASSUME NEW p \in Producers, Writing(p, lane)
      PROVE  Cardinality(I) < Cardinality(R)
  <2>1. p \in R /\ p \notin I
    BY <1>7 DEF Writing, I, R, Reserved, Reserving, Within
  <2>2. Cardinality(R \ {p}) = Cardinality(R) - 1 /\ I \subseteq R \ {p} /\ IsFiniteSet(R \ {p})
    BY <1>1, <1>2, <2>1, FS_RemoveElement
  <2>3. Cardinality(I) <= Cardinality(R \ {p})
    BY <2>2, FS_Subset
  <2> QED
    BY <1>2, <2>2, <2>3
<1> QED
  BY <1>2, <1>3, <1>4, <1>5, <1>6, <1>7

-----------------------------------------------------------------------------
(* What a step does to the contents of a lane                              *)

Stored == Frames \cup {0}

LEMMA ContentsAre ==
  ASSUME TypeOK, NEW lane \in Lanes, Count(lane) \in Nat, Count(lane) <= Capacity(lane)
  PROVE  /\ Contents(lane) \in Seq(Stored)
         /\ Len(Contents(lane)) = Count(lane)
         /\ \A i \in 1 .. Count(lane) :
              Contents(lane)[i] = ring[lane][(head[lane] + i - 1) % Capacity(lane)]
<1> DEFINE c == Capacity(lane)
           n == Count(lane)
<1>1. c \in Nat \ {0} /\ head[lane] \in 0 .. c - 1
  BY Sizes DEF TypeOK, Slots
<1>2. ring[lane] \in [0 .. c - 1 -> Stored]
  BY DEF TypeOK, Slots, Stored
<1>3. n \in Nat
  OBVIOUS
<1>4. Contents(lane) = [i \in 1 .. n |-> ring[lane][(head[lane] + i - 1) % c]]
  BY DEF Contents
<1> HIDE DEF c, n
<1>5. ASSUME NEW i \in 1 .. n
      PROVE  (head[lane] + i - 1) % c \in 0 .. c - 1
  BY <1>1, <1>3, <1>5
<1>6. Contents(lane) \in [1 .. n -> Stored]
  BY <1>2, <1>4, <1>5
<1>7. Contents(lane) \in Seq(Stored) /\ Len(Contents(lane)) = n
  BY <1>3, <1>6
<1> QED
  BY <1>4, <1>7 DEF c, n

ContentsStored == \A lane \in Lanes :
  /\ Count(lane) \in Nat /\ Count(lane) <= Capacity(lane)
  /\ Contents(lane) \in Seq(Stored)
  /\ Len(Contents(lane)) = Count(lane)
  /\ \A i \in 1 .. Count(lane) :
       Contents(lane)[i] = ring[lane][(head[lane] + i - 1) % Capacity(lane)]

LEMMA NowStored == TypeOK /\ Accounted => ContentsStored
  BY CountBound, ContentsAre DEF ContentsStored

LEMMA NextStored == (TypeOK /\ Accounted)' => ContentsStored'
  BY NowStored, PTL

LEMMA StoredNext ==
  ASSUME TypeOK', Accounted', NEW lane \in Lanes
  PROVE  /\ Count(lane)' \in Nat /\ Count(lane)' <= Capacity(lane)
         /\ Contents(lane)' \in Seq(Stored)
         /\ Len(Contents(lane)') = Count(lane)'
         /\ \A i \in 1 .. Count(lane)' :
              Contents(lane)'[i] = ring'[lane][(head'[lane] + i - 1) % Capacity(lane)]
<1>1. ContentsStored'
  BY NextStored
<1> QED
  BY <1>1 DEF ContentsStored, Stored, Frames, Capacity

Puts(lane) ==
  /\ Count(lane) < Capacity(lane)
  /\ \E f \in Frames : Contents(lane)' = Append(Contents(lane), f)
Gets(lane) == Contents(lane) # <<>> /\ Contents(lane)' = Tail(Contents(lane))
Keeps(lane) == Contents(lane)' = Contents(lane)

(* Contents and tail when neither the ring nor the number of frames moves. *)
LEMMA Kept ==
  ASSUME FifoInv, NEW lane \in Lanes, TypeOK', Accounted',
         Count(lane)' = Count(lane), head'[lane] = head[lane], tail'[lane] = tail[lane],
         \A i \in 1 .. Count(lane) :
           ring'[lane][(head[lane] + i - 1) % Capacity(lane)]
             = ring[lane][(head[lane] + i - 1) % Capacity(lane)]
  PROVE  /\ Keeps(lane)
         /\ tail'[lane] = (head'[lane] + Count(lane)') % Capacity(lane)
<1>1. /\ Count(lane) \in Nat /\ Count(lane) <= Capacity(lane)
  BY CountBound DEF FifoInv
<1>2. /\ Contents(lane) \in Seq(Stored)
      /\ Len(Contents(lane)) = Count(lane)
      /\ \A i \in 1 .. Count(lane) :
           Contents(lane)[i] = ring[lane][(head[lane] + i - 1) % Capacity(lane)]
  BY <1>1, ContentsAre DEF FifoInv
<1>3. /\ Contents(lane)' \in Seq(Stored)
      /\ Len(Contents(lane)') = Count(lane)'
      /\ \A i \in 1 .. Count(lane)' :
           Contents(lane)'[i] = ring'[lane][(head'[lane] + i - 1) % Capacity(lane)]
  BY StoredNext
<1>4. Contents(lane)' = Contents(lane)
  BY <1>2, <1>3, SeqEqual
<1> QED
  BY <1>4 DEF Keeps, FifoInv, TailIsEnd

(* The tail moves on over the frame of the producer at the ring.           *)
LEMMA Appended ==
  ASSUME FifoInv, NEW lane \in Lanes, TypeOK', Accounted',
         NEW p \in Producers, At(p, "advance"), push[p].lane = lane,
         Count(lane)' = Count(lane) + 1, head'[lane] = head[lane],
         tail'[lane] = After(tail[lane], lane), ring'[lane] = ring[lane]
  PROVE  /\ Puts(lane)
         /\ tail'[lane] = (head'[lane] + Count(lane)') % Capacity(lane)
<1> DEFINE n == Count(lane)
           c == Capacity(lane)
           h == head[lane]
<1>1. Writing(p, lane)
  BY DEF Writing, At
<1>2. n \in Nat /\ n < c /\ c \in Nat \ {0} /\ h \in 0 .. c - 1
  BY <1>1, CountBound, Sizes DEF FifoInv, TypeOK, Slots
<1>3. tail[lane] = (h + n) % c
  BY DEF FifoInv, TailIsEnd
<1>4. ring[lane][tail[lane]] = push[p].frame /\ push[p].frame \in Frames
  BY AtLane DEF FifoInv, Written, At
<1>5. /\ Contents(lane) \in Seq(Stored)
      /\ Len(Contents(lane)) = n
      /\ \A i \in 1 .. n : Contents(lane)[i] = ring[lane][(h + i - 1) % c]
  BY <1>2, ContentsAre DEF FifoInv
<1>6. /\ Contents(lane)' \in Seq(Stored)
      /\ Len(Contents(lane)') = n + 1
      /\ \A i \in 1 .. n + 1 : Contents(lane)'[i] = ring[lane][(h + i - 1) % c]
  BY StoredNext
<1> HIDE DEF n, c, h
<1>7. Contents(lane)' = Append(Contents(lane), push[p].frame)
  <2> DEFINE a == Append(Contents(lane), push[p].frame)
  <2>1. /\ a \in Seq(Stored) /\ Len(a) = n + 1
        /\ \A i \in 1 .. n : a[i] = Contents(lane)[i]
        /\ a[n + 1] = push[p].frame
    BY <1>4, <1>5, AppendProperties DEF Stored
  <2> HIDE DEF a
  <2>2. Contents(lane)'[n + 1] = push[p].frame
    <3>1. h + (n + 1) - 1 = h + n /\ n + 1 \in 1 .. n + 1
      BY <1>2
    <3> QED
      BY <1>3, <1>4, <1>6, <3>1
  <2>3. ASSUME NEW i \in 1 .. n + 1
        PROVE  Contents(lane)'[i] = a[i]
    <3>1. CASE i = n + 1
      BY <2>1, <2>2, <3>1
    <3>2. CASE i \in 1 .. n
      BY <1>5, <1>6, <2>1, <3>2
    <3>3. i = n + 1 \/ i \in 1 .. n
      BY <1>2, <2>3
    <3> QED
      BY <3>1, <3>2, <3>3
  <2>4. Contents(lane)' = a
    BY <1>6, <2>1, <2>3, SeqEqual
  <2> QED
    BY <2>4 DEF a
<1>8. tail'[lane] = (h + (n + 1)) % c
  <2>1. tail'[lane] = (((h + n) % c) + 1) % c
    BY <1>3 DEF After, c
  <2>2. PICK x \in Nat, y \in Nat \ {0} : x = h + n /\ y = c /\ x + 1 = h + (n + 1)
                                      /\ x \in 0 .. y + y - 1 /\ x + 1 \in 0 .. y + y - 1
    BY <1>2
  <2>3. ((x % y) + 1) % y = (x + 1) % y
    BY <2>2, WrapOn
  <2> QED
    BY <2>1, <2>2, <2>3
<1> QED
  BY <1>2, <1>4, <1>7, <1>8 DEF Puts, n, c, h

(* The head moves on over the oldest frame.                                *)
LEMMA Removed ==
  ASSUME FifoInv, NEW lane \in Lanes, TypeOK', Accounted',
         Count(lane) > 0, Count(lane)' = Count(lane) - 1,
         head'[lane] = After(head[lane], lane),
         tail'[lane] = tail[lane], ring'[lane] = ring[lane]
  PROVE  /\ Gets(lane)
         /\ tail'[lane] = (head'[lane] + Count(lane)') % Capacity(lane)
<1> DEFINE n == Count(lane)
           c == Capacity(lane)
           h == head[lane]
<1>1. n \in Nat \ {0} /\ n <= c /\ c \in Nat \ {0} /\ h \in 0 .. c - 1
  <2>1. n \in Nat /\ n <= c /\ n > 0
    BY CountBound DEF FifoInv
  <2>2. c \in Nat \ {0} /\ h \in 0 .. c - 1
    BY Sizes DEF FifoInv, TypeOK, Slots
  <2> HIDE DEF n
  <2> QED
    BY <2>1, <2>2
<1>2. tail[lane] = (h + n) % c
  BY DEF FifoInv, TailIsEnd
<1>3. /\ Contents(lane) \in Seq(Stored)
      /\ Len(Contents(lane)) = n
      /\ \A i \in 1 .. n : Contents(lane)[i] = ring[lane][(h + i - 1) % c]
  BY <1>1, ContentsAre DEF FifoInv
<1>4. /\ Contents(lane)' \in Seq(Stored)
      /\ Len(Contents(lane)') = n - 1
      /\ \A i \in 1 .. n - 1 :
           Contents(lane)'[i] = ring[lane][(((h + 1) % c) + i - 1) % c]
  BY StoredNext DEF After
<1>5. head'[lane] = (h + 1) % c
  BY DEF After
<1> HIDE DEF n, c, h
\* From the new head one slot fewer leads to the same place.
<1>6. ASSUME NEW i \in 0 .. n - 1
      PROVE  (((h + 1) % c) + i) % c = (h + 1 + i) % c
  <2>1. PICK x \in Nat, y \in Nat \ {0} : x = h + 1 /\ y = c
                                      /\ x \in 0 .. y + y - 1 /\ x + i \in 0 .. y + y - 1
    BY <1>1, <1>6
  <2>2. ((x % y) + i) % y = (x + i) % y
    BY <1>1, <1>6, <2>1, WrapOn
  <2> QED
    BY <2>1, <2>2
<1>7. Contents(lane) # <<>>
  BY <1>1, <1>3
<1>8. Contents(lane)' = Tail(Contents(lane))
  <2>1. /\ Tail(Contents(lane)) \in Seq(Stored) /\ Len(Tail(Contents(lane))) = n - 1
        /\ \A i \in 1 .. n - 1 : Tail(Contents(lane))[i] = Contents(lane)[i + 1]
    BY <1>3, <1>7, HeadTailProperties
  <2>2. ASSUME NEW i \in 1 .. n - 1
        PROVE  Contents(lane)'[i] = Tail(Contents(lane))[i]
    <3>1. i - 1 \in 0 .. n - 1 /\ i + 1 \in 1 .. n /\ i \in Int /\ h + 1 + (i - 1) = h + (i + 1) - 1
      BY <1>1, <2>2
    <3>2. (((h + 1) % c) + (i - 1)) % c = (h + (i + 1) - 1) % c
      BY <1>6, <3>1
    <3>3. (h + 1) % c \in Int /\ ((h + 1) % c) + (i - 1) = ((h + 1) % c) + i - 1
      BY <1>1, <3>1
    <3>4. Contents(lane)'[i] = ring[lane][(((h + 1) % c) + i - 1) % c]
      BY <1>4
    <3>5. Tail(Contents(lane))[i] = ring[lane][(h + (i + 1) - 1) % c]
      BY <1>3, <2>1, <3>1
    <3> QED
      BY <3>2, <3>3, <3>4, <3>5
  <2> QED
    BY <1>4, <2>1, <2>2, SeqEqual
<1>9. tail'[lane] = (head'[lane] + (n - 1)) % c
  <2>1. n - 1 \in 0 .. n - 1 /\ h + 1 + (n - 1) = h + n
    BY <1>1
  <2> QED
    BY <1>2, <1>5, <1>6, <2>1
<1> QED
  BY <1>7, <1>8, <1>9 DEF Gets, n, c

-----------------------------------------------------------------------------
(* The steps                                                               *)

(* What a step of a producer does to its place.                            *)
LEMMA ProducerMoves ==
  ASSUME TypeOK, NEW p \in Producers, PushStep(p)
  PROVE  /\ push[p].at # "idle" /\ UNCHANGED pop
         /\ push[p].lane \in Lanes
         /\ \A q \in Producers \ {p} : push'[q] = push[q]
         /\ push'[p].at = "idle" \/ push'[p].lane = push[p].lane
         /\ TakeLock(p) => push'[p].at \in {"write", "undo"}
         /\ Write(p) => push'[p].at = "advance"
         /\ Advance(p) => push'[p].at = "item"
         /\ GiveItem(p) => push'[p].at = "work"
         /\ TakeSpace(p) => push'[p].at \in {"lock", "idle"}
         /\ UndoSpace(p) \/ GiveWork(p) => push'[p].at = "idle"
<1>1. push[p].at # "idle" /\ UNCHANGED pop
  BY DEF PushStep, TakeSpace, TakeLock, UndoSpace, Write, Advance, GiveItem,
         GiveWork, At, lanes
<1>2. push[p].lane \in Lanes
  BY <1>1, AtLane
<1>3. \A where \in Points : Goes(p, where) =>
        /\ push'[p].at = where /\ push'[p].lane = push[p].lane
        /\ \A q \in Producers \ {p} : push'[q] = push[q]
  BY <1>1, Goes_Push
<1>4. Returns(p) => push'[p].at = "idle" /\ \A q \in Producers \ {p} : push'[q] = push[q]
  BY Returns_Push
<1> QED
  BY <1>1, <1>2, <1>3, <1>4
     DEF PushStep, TakeSpace, TakeLock, UndoSpace, Write, Advance, GiveItem, GiveWork, Points

(* A step that does not touch a mutex brings nobody to a ring.             *)
LEMMA LocksKept ==
  ASSUME Exclusive, UNCHANGED lock,
         \A lane \in Lanes : Reading(lane)' => Reading(lane),
         \A lane \in Lanes, p \in Producers : Writing(p, lane)' => Writing(p, lane)
  PROVE  Exclusive'
BY DEF Exclusive

LEMMA NextExclusive ==
  ASSUME TypeOK, Exclusive, [Next]_vars
  PROVE  Exclusive'
<1>1. ASSUME NEW p \in Producers, Push(p)
      PROVE  Exclusive'
  <2>1. /\ UNCHANGED <<lock, pop>> /\ push'[p].at = "space"
        /\ \A q \in Producers \ {p} : push'[q] = push[q]
    BY <1>1 DEF Push, lanes, TypeOK
  <2> QED
    BY <2>1, LocksKept DEF Reading, Writing
<1>2. ASSUME NEW p \in Producers, PushStep(p)
      PROVE  Exclusive'
  <2> DEFINE L == push[p].lane
  <2>1. /\ push[p].at # "idle" /\ UNCHANGED pop /\ L \in Lanes
        /\ \A q \in Producers \ {p} : push'[q] = push[q]
        /\ push'[p].at = "idle" \/ push'[p].lane = L
        /\ TakeLock(p) => push'[p].at \in {"write", "undo"}
        /\ Write(p) => push'[p].at = "advance"
        /\ Advance(p) => push'[p].at = "item"
        /\ GiveItem(p) => push'[p].at = "work"
        /\ TakeSpace(p) => push'[p].at \in {"lock", "idle"}
        /\ UndoSpace(p) \/ GiveWork(p) => push'[p].at = "idle"
    BY <1>2, ProducerMoves
  <2>2. CASE GiveItem(p) \/ TakeSpace(p) \/ UndoSpace(p) \/ GiveWork(p) \/ Write(p)
    <3>1. UNCHANGED lock
      BY <2>2 DEF GiveItem, TakeSpace, UndoSpace, GiveWork, Write, lanes
    <3>2. \A lane \in Lanes, q \in Producers : Writing(q, lane)' => Writing(q, lane)
      BY <2>1, <2>2 DEF Writing, Write, At
    <3> QED
      BY <2>1, <3>1, <3>2, LocksKept DEF Reading
  <2>3. CASE TakeLock(p)
    <3>1. CASE lock[L] = "free" /\ lock' = [lock EXCEPT ![L] = "held"]
      <4>1. \A lane \in Lanes : lock'[lane] = IF lane = L THEN "held" ELSE lock[lane]
        BY <2>1, <3>1 DEF TypeOK
      <4>2. ~Reading(L) /\ \A q \in Producers : ~Writing(q, L)
        BY <2>1, <3>1 DEF Exclusive
      <4>3. \A lane \in Lanes, q \in Producers :
              Writing(q, lane)' => Writing(q, lane) \/ (q = p /\ lane = L)
        BY <2>1, <2>3 DEF Writing
      <4> QED
        BY <2>1, <4>1, <4>2, <4>3 DEF Exclusive, Reading
    <3>2. CASE UNCHANGED lock /\ push'[p].at = "undo"
      <4>1. \A lane \in Lanes, q \in Producers : Writing(q, lane)' => Writing(q, lane)
        BY <2>1, <3>2 DEF Writing
      <4> QED
        BY <2>1, <3>2, <4>1, LocksKept DEF Reading
    <3> QED
      <4>1. Goes(p, "undo") => push'[p].at = "undo"
        BY <2>1, Goes_Push DEF Points
      <4> QED
        BY <2>3, <3>1, <3>2, <4>1 DEF TakeLock
  <2>4. CASE Advance(p)
    <3>1. lock' = [lock EXCEPT ![L] = "free"] /\ Writing(p, L) /\ push'[p].at = "item"
      BY <2>1, <2>4 DEF Advance, At, Writing
    <3>2. \A lane \in Lanes : lock'[lane] = IF lane = L THEN "free" ELSE lock[lane]
      BY <2>1, <3>1 DEF TypeOK
    <3>3. ~Reading(L) /\ \A q \in Producers \ {p} : ~Writing(q, L)
      BY <2>1, <3>1 DEF Exclusive
    <3>4. \A lane \in Lanes, q \in Producers :
            Writing(q, lane)' => Writing(q, lane) /\ q # p
      BY <2>1, <3>1 DEF Writing
    <3> QED
      BY <2>1, <3>2, <3>3, <3>4 DEF Exclusive, Reading
  <2> QED
    BY <1>2, <2>2, <2>3, <2>4 DEF PushStep
<1>3. ASSUME PopStep
      PROVE  Exclusive'
  <2>1. UNCHANGED push
    BY <1>3 DEF PopStep, TakeWork, TakeItem, LockForRead, Read, GiveSpace
  <2>2. CASE TakeWork \/ TakeItem \/ GiveSpace
    <3>1. UNCHANGED lock /\ pop'.at # "read"
      BY <2>2 DEF TakeWork, TakeItem, GiveSpace, lanes, Quiet
    <3> QED
      BY <2>1, <3>1, LocksKept DEF Reading, Writing
  <2>3. CASE LockForRead
    <3>1. PICK lane \in Lanes : lane = pop.lane
      BY <2>3 DEF LockForRead, TypeOK, PopStates, Quiet, Lanes
    <3>2. /\ lock[lane] = "free" /\ lock' = [lock EXCEPT ![lane] = "held"]
          /\ pop'.lane = lane
      <4>1. pop \in [at : {"lock"}, lane : Lanes]
        BY <2>3 DEF LockForRead, TypeOK, PopStates, Quiet, Lanes
      <4>2. pop' = [pop EXCEPT !.at = "read"]
        BY <2>3 DEF LockForRead
      <4> QED
        BY <2>3, <3>1, <4>1, <4>2 DEF LockForRead
    <3>3. \A l \in Lanes : lock'[l] = IF l = lane THEN "held" ELSE lock[l]
      BY <3>2 DEF TypeOK
    <3>4. \A q \in Producers : ~Writing(q, lane)
      BY <3>2 DEF Exclusive
    <3> QED
      BY <2>1, <3>2, <3>3, <3>4 DEF Exclusive, Reading, Writing
  <2>4. CASE Read
    <3>1. PICK lane \in Lanes : lane = pop.lane
      BY <2>4 DEF Read, TypeOK, PopStates, Quiet, Lanes
    <3>2. /\ lock' = [lock EXCEPT ![lane] = "free"] /\ pop'.at = "space" /\ Reading(lane)
      BY <2>4, <3>1 DEF Read, Reading
    <3>3. \A l \in Lanes : lock'[l] = IF l = lane THEN "free" ELSE lock[l]
      BY <3>2 DEF TypeOK
    <3>4. \A q \in Producers : ~Writing(q, lane)
      BY <3>2 DEF Exclusive
    <3> QED
      BY <2>1, <3>2, <3>3, <3>4 DEF Exclusive, Reading, Writing
  <2> QED
    BY <1>3, <2>2, <2>3, <2>4 DEF PopStep
<1>4. CASE UNCHANGED vars
  BY <1>4, LocksKept DEF vars, lanes, Reading, Writing
<1> QED
  BY <1>1, <1>2, <1>3, <1>4 DEF Next

LEMMA NextWritten ==
  ASSUME TypeOK, Exclusive, Written, [Next]_vars
  PROVE  Written'
<1>1. SUFFICES ASSUME NEW q \in Producers, push'[q].at = "advance"
               PROVE  ring'[push'[q].lane][tail'[push'[q].lane]] = push'[q].frame
  BY DEF Written, At
<1>2. ASSUME push'[q] = push[q], UNCHANGED <<ring, tail>>
      PROVE  ring'[push'[q].lane][tail'[push'[q].lane]] = push'[q].frame
  BY <1>1, <1>2 DEF Written, At
<1>3. ASSUME NEW p \in Producers, Push(p)
      PROVE  ring'[push'[q].lane][tail'[push'[q].lane]] = push'[q].frame
  <2>1. /\ UNCHANGED <<ring, tail>> /\ push'[p].at = "space"
        /\ \A r \in Producers \ {p} : push'[r] = push[r]
    BY <1>3 DEF Push, lanes, TypeOK
  <2> QED
    BY <1>1, <1>2, <2>1
<1>4. ASSUME NEW p \in Producers, PushStep(p)
      PROVE  ring'[push'[q].lane][tail'[push'[q].lane]] = push'[q].frame
  <2> DEFINE L == push[p].lane
  <2>1. /\ push[p].at # "idle" /\ L \in Lanes
        /\ \A r \in Producers \ {p} : push'[r] = push[r]
        /\ TakeLock(p) => push'[p].at \in {"write", "undo"}
        /\ Write(p) => push'[p].at = "advance"
        /\ Advance(p) => push'[p].at = "item"
        /\ GiveItem(p) => push'[p].at = "work"
        /\ TakeSpace(p) => push'[p].at \in {"lock", "idle"}
        /\ UndoSpace(p) \/ GiveWork(p) => push'[p].at = "idle"
    BY <1>4, ProducerMoves
  <2>2. CASE GiveItem(p) \/ TakeSpace(p) \/ UndoSpace(p) \/ GiveWork(p) \/ TakeLock(p)
    <3>1. UNCHANGED <<ring, tail>> /\ q # p
      BY <1>1, <2>1, <2>2 DEF GiveItem, TakeSpace, UndoSpace, GiveWork, TakeLock, lanes
    <3> QED
      BY <1>2, <2>1, <3>1
  <2>3. CASE Write(p)
    <3>1. /\ ring' = [ring EXCEPT ![L] = [ring[L] EXCEPT ![tail[L]] = push[p].frame]]
          /\ UNCHANGED tail /\ Goes(p, "advance") /\ Writing(p, L)
      BY <2>3 DEF Write, At, Writing
    <3>2. ring'[L][tail[L]] = push[p].frame
      BY <2>1, <3>1 DEF TypeOK
    <3>3. CASE q = p
      <4>1. push' = [push EXCEPT ![p] = [push[p] EXCEPT !.at = "advance"]]
        BY <3>1 DEF Goes
      <4>2. push[p] \in [at : Points, lane : Lanes, frame : Frames, waits : {"forever", "not"}]
        BY <2>1 DEF TypeOK, PushStates, Quiet
      <4>3. push'[p].lane = L /\ push'[p].frame = push[p].frame
        BY <4>1, <4>2 DEF TypeOK
      <4> QED
        BY <3>1, <3>2, <3>3, <4>3
    <3>4. CASE q # p
      <4>1. push'[q] = push[q] /\ push[q].at = "advance" /\ push[q].lane \in Lanes
        BY <1>1, <2>1, <3>4, AtLane
      <4>2. push[q].lane # L
        BY <2>1, <3>1, <3>4, <4>1 DEF Exclusive, Writing
      <4>3. ring'[push[q].lane] = ring[push[q].lane]
        BY <3>1, <4>1, <4>2 DEF TypeOK
      <4> QED
        BY <3>1, <4>1, <4>3 DEF Written, At
    <3> QED
      BY <3>3, <3>4
  <2>4. CASE Advance(p)
    <3>1. /\ tail' = [tail EXCEPT ![L] = After(tail[L], L)] /\ UNCHANGED ring
          /\ Writing(p, L) /\ push'[p].at = "item"
      BY <2>1, <2>4 DEF Advance, At, Writing
    <3>2. push'[q] = push[q] /\ push[q].at = "advance" /\ push[q].lane \in Lanes /\ q # p
      BY <1>1, <2>1, <3>1, AtLane
    <3>3. push[q].lane # L
      BY <2>1, <3>1, <3>2 DEF Exclusive, Writing
    <3>4. tail'[push[q].lane] = tail[push[q].lane]
      BY <3>1, <3>2, <3>3 DEF TypeOK
    <3> QED
      BY <3>1, <3>2, <3>4 DEF Written, At
  <2> QED
    BY <1>4, <2>2, <2>3, <2>4 DEF PushStep
<1>5. ASSUME PopStep
      PROVE  ring'[push'[q].lane][tail'[push'[q].lane]] = push'[q].frame
  BY <1>2, <1>5 DEF PopStep, TakeWork, TakeItem, LockForRead, Read, GiveSpace, lanes
<1>6. CASE UNCHANGED vars
  BY <1>2, <1>6 DEF vars, lanes
<1> QED
  BY <1>3, <1>4, <1>5, <1>6 DEF Next

(* How the producers that are about to announce a frame change.            *)
LEMMA ItemStep ==
  ASSUME TypeOK, NEW p \in Producers, push[p].at # "idle",
         \A q \in Producers \ {p} : push'[q] = push[q],
         push'[p].at = "idle" \/ push'[p].lane = push[p].lane,
         NEW lane \in Lanes
  PROVE  /\ lane # push[p].lane \/ (push[p].at # "item" /\ push'[p].at # "item")
              => Within(lane, {"item"})' = Within(lane, {"item"})
         /\ lane = push[p].lane /\ push[p].at # "item" /\ push'[p].at = "item"
              => Cardinality(Within(lane, {"item"}))'
                   = Cardinality(Within(lane, {"item"})) + 1
         /\ lane = push[p].lane /\ push[p].at = "item" /\ push'[p].at # "item"
              => Cardinality(Within(lane, {"item"}))'
                   = Cardinality(Within(lane, {"item"})) - 1
<1> DEFINE S == Within(lane, {"item"})
<1>1. S \in SUBSET Producers
  BY DEF Within
<1>2. lane # push[p].lane \/ (push[p].at # "item" /\ push'[p].at # "item") => S' = S
  BY DEF Within
<1>3. ASSUME lane = push[p].lane, push[p].at # "item", push'[p].at = "item"
      PROVE  Cardinality(S)' = Cardinality(S) + 1
  <2>1. S' = S \cup {p} /\ p \notin S
    BY <1>3 DEF Within
  <2> QED
    BY <1>1, <2>1, OneMore
<1>4. ASSUME lane = push[p].lane, push[p].at = "item", push'[p].at # "item"
      PROVE  Cardinality(S)' = Cardinality(S) - 1
  <2>1. S' = S \ {p} /\ p \in S
    BY <1>4 DEF Within
  <2> QED
    BY <1>1, <2>1, OneLess
<1> QED
  BY <1>2, <1>3, <1>4

(* The slot that is written is not among the contents.                     *)
LEMMA WrapApart ==
  ASSUME NEW c \in Nat \ {0}, NEW h \in 0 .. c - 1, NEW n \in Nat, n < c, NEW i \in 1 .. n
  PROVE  (h + i - 1) % c # (h + n) % c
<1>1. PICK x, y : x = h + i - 1 /\ y = h + n /\ x \in 0 .. c + c - 1 /\ y \in 0 .. c + c - 1
                  /\ x < y /\ y - x < c
  OBVIOUS
<1>2. x % c = (IF x < c THEN x ELSE x - c) /\ y % c = (IF y < c THEN y ELSE y - c)
  BY <1>1, Wrap
<1>3. x % c # y % c
  BY <1>1, <1>2
<1> QED
  BY <1>1, <1>3

Moves(lane) ==
  /\ Keeps(lane) \/ Puts(lane) \/ Gets(lane)
  /\ tail'[lane] = (head'[lane] + Count(lane)') % Capacity(lane)

(* A step that does not touch the ring and keeps the number of frames.     *)
LEMMA RingKept ==
  ASSUME FifoInv, TypeOK', Accounted', NEW lane \in Lanes,
         Count(lane)' = Count(lane),
         ring'[lane] = ring[lane], head'[lane] = head[lane], tail'[lane] = tail[lane]
  PROVE  Moves(lane)
  BY Kept DEF Moves

LEMMA PushMoves ==
  ASSUME FifoInv, TypeOK', Accounted', NEW p \in Producers, Push(p), NEW lane \in Lanes
  PROVE  Moves(lane)
<1>1. /\ push[p].at = "idle" /\ push'[p].at = "space"
      /\ \A q \in Producers \ {p} : push'[q] = push[q]
      /\ UNCHANGED <<ring, head, tail, items, pop>>
  BY DEF Push, At, FifoInv, TypeOK, lanes
<1>2. Within(lane, {"item"})' = Within(lane, {"item"})
  BY <1>1 DEF Within
<1> QED
  BY <1>1, <1>2, RingKept DEF Count, Taking

LEMMA PushStepMoves ==
  ASSUME FifoInv, TypeOK', Accounted', NEW p \in Producers, PushStep(p), NEW lane \in Lanes
  PROVE  Moves(lane)
<1>1. TypeOK /\ Accounted
  BY DEF FifoInv
<1>2. PICK L \in Lanes : L = push[p].lane
  BY <1>1, ProducerMoves
<1>3. /\ push[p].at # "idle" /\ UNCHANGED pop
      /\ \A q \in Producers \ {p} : push'[q] = push[q]
      /\ push'[p].at = "idle" \/ push'[p].lane = L
      /\ TakeLock(p) => push'[p].at \in {"write", "undo"}
      /\ Write(p) => push'[p].at = "advance"
      /\ Advance(p) => push'[p].at = "item"
      /\ GiveItem(p) => push'[p].at = "work"
      /\ TakeSpace(p) => push'[p].at \in {"lock", "idle"}
      /\ UndoSpace(p) \/ GiveWork(p) => push'[p].at = "idle"
  BY <1>1, <1>2, ProducerMoves
<1> DEFINE I == Cardinality(Within(lane, {"item"}))
<1>4. /\ lane # L \/ (push[p].at # "item" /\ push'[p].at # "item") => I' = I
      /\ lane = L /\ push[p].at # "item" /\ push'[p].at = "item" => I' = I + 1
      /\ lane = L /\ push[p].at = "item" /\ push'[p].at # "item" => I' = I - 1
  BY <1>1, <1>2, <1>3, ItemStep
<1>5. /\ Taking(lane, {"lock", "read"})' = Taking(lane, {"lock", "read"})
      /\ I \in Nat /\ items[lane] \in Nat /\ Taking(lane, {"lock", "read"}) \in {0, 1}
  <2>1. Within(lane, {"item"}) \in SUBSET Producers
    BY DEF Within
  <2> QED
    BY <1>1, <1>3, <2>1, Counted, Numbers DEF Taking
<1>6. /\ Count(lane) = items[lane] + I + Taking(lane, {"lock", "read"})
      /\ Count(lane)' = items'[lane] + I' + Taking(lane, {"lock", "read"})'
  BY DEF Count
<1> HIDE DEF I
<1>7. CASE TakeSpace(p) \/ TakeLock(p) \/ UndoSpace(p) \/ GiveWork(p)
  <2>1. UNCHANGED <<ring, head, tail, items>> /\ push[p].at # "item" /\ push'[p].at # "item"
    BY <1>3, <1>7 DEF TakeSpace, TakeLock, UndoSpace, GiveWork, At, lanes
  <2>2. Count(lane)' = Count(lane)
    BY <1>4, <1>5, <1>6, <2>1
  <2> QED
    BY <2>1, <2>2, RingKept
<1>8. CASE Write(p)
  <2>1. /\ ring' = [ring EXCEPT ![L] = [ring[L] EXCEPT ![tail[L]] = push[p].frame]]
        /\ UNCHANGED <<head, tail, items>> /\ push[p].at = "write" /\ push'[p].at = "advance"
    BY <1>2, <1>3, <1>8 DEF Write, At
  <2>2. Count(lane)' = Count(lane)
    BY <1>4, <1>5, <1>6, <2>1
  <2>3. CASE lane # L
    <3>1. ring'[lane] = ring[lane]
      BY <1>1, <2>1, <2>3 DEF TypeOK
    <3> QED
      BY <2>1, <2>2, <3>1, RingKept
  <2>4. CASE lane = L
    <3>1. Count(lane) \in Nat /\ Count(lane) < Capacity(lane)
      BY <1>1, <1>2, <2>1, <2>4, CountBound DEF Writing
    <3>2. Capacity(lane) \in Nat \ {0} /\ head[lane] \in 0 .. Capacity(lane) - 1
      BY <1>1, Sizes DEF TypeOK, Slots
    <3>3. tail[lane] = (head[lane] + Count(lane)) % Capacity(lane)
      BY DEF FifoInv, TailIsEnd
    <3>4. ring'[lane] = [ring[lane] EXCEPT ![tail[lane]] = push[p].frame]
      BY <1>1, <2>1, <2>4 DEF TypeOK
    <3>5. ASSUME NEW i \in 1 .. Count(lane)
          PROVE  ring'[lane][(head[lane] + i - 1) % Capacity(lane)]
                   = ring[lane][(head[lane] + i - 1) % Capacity(lane)]
      <4>1. (head[lane] + i - 1) % Capacity(lane) # tail[lane]
        BY <3>1, <3>2, <3>3, WrapApart
      <4>2. (head[lane] + i - 1) % Capacity(lane) \in Slots(lane)
        BY <3>1, <3>2, <3>5 DEF Slots
      <4>3. ring[lane] \in [Slots(lane) -> Stored]
        BY <1>1 DEF TypeOK, Stored
      <4> QED
        BY <3>4, <4>1, <4>2, <4>3
    <3> QED
      BY <2>1, <2>2, <3>5, Kept DEF Moves
  <2> QED
    BY <2>3, <2>4
<1>9. CASE Advance(p)
  <2>1. /\ tail' = [tail EXCEPT ![L] = After(tail[L], L)] /\ UNCHANGED <<ring, head, items>>
        /\ push[p].at = "advance" /\ push'[p].at = "item"
    BY <1>2, <1>3, <1>9 DEF Advance, At
  <2>2. CASE lane # L
    <3>1. tail'[lane] = tail[lane] /\ Count(lane)' = Count(lane)
      BY <1>1, <1>4, <1>5, <1>6, <2>1, <2>2 DEF TypeOK
    <3> QED
      BY <2>1, <3>1, RingKept
  <2>3. CASE lane = L
    <3>1. tail'[lane] = After(tail[lane], lane)
      BY <1>1, <2>1, <2>3 DEF TypeOK
    <3>2. Count(lane)' = Count(lane) + 1
      BY <1>4, <1>5, <1>6, <2>1, <2>3
    <3>3. At(p, "advance") /\ push[p].lane = lane
      BY <1>2, <2>1, <2>3 DEF At
    <3> QED
      BY <2>1, <3>1, <3>2, <3>3, Appended DEF Moves
  <2> QED
    BY <2>2, <2>3
<1>10. CASE GiveItem(p)
  <2>1. /\ items' = [items EXCEPT ![L] = Given(items[L], Capacity(L))]
        /\ UNCHANGED <<ring, head, tail>> /\ push[p].at = "item" /\ push'[p].at = "work"
    BY <1>2, <1>3, <1>10 DEF GiveItem, At, lanes
  <2>2. CASE lane # L
    <3>1. items'[lane] = items[lane] /\ Count(lane)' = Count(lane)
      BY <1>1, <1>4, <1>5, <1>6, <2>1, <2>2 DEF TypeOK
    <3> QED
      BY <2>1, <3>1, RingKept
  <2>3. CASE lane = L
    <3>1. items[lane] < Capacity(lane)
      <4>1. spaces[lane] + items[lane] + Cardinality(Reserved(lane)) + Taking(lane, Emptying)
              = Capacity(lane)
        BY <1>1, SlotSum DEF Accounted
      <4>2. p \in Reserved(lane) /\ Reserved(lane) \in SUBSET Producers
        BY <1>2, <2>1, <2>3 DEF Reserved, Within, Reserving
      <4>3. Cardinality(Reserved(lane)) > 0
        BY <4>2, OneLess
      <4> QED
        BY <1>1, <4>1, <4>3, Numbers
    <3>2. items'[lane] = items[lane] + 1
      <4>1. Given(items[lane], Capacity(lane)) = items[lane] + 1
        BY <3>1 DEF Given
      <4> QED
        BY <1>1, <2>1, <2>3, <4>1 DEF TypeOK
    <3>3. Count(lane)' = Count(lane)
      BY <1>4, <1>5, <1>6, <2>1, <2>3, <3>2
    <3> QED
      BY <2>1, <3>3, RingKept
  <2> QED
    BY <2>2, <2>3
<1> QED
  BY <1>7, <1>8, <1>9, <1>10 DEF PushStep

LEMMA PopStepMoves ==
  ASSUME FifoInv, TypeOK', Accounted', PopStep, NEW lane \in Lanes
  PROVE  Moves(lane)
<1>1. TypeOK /\ Accounted
  BY DEF FifoInv
<1> DEFINE I == Cardinality(Within(lane, {"item"}))
           T == Taking(lane, {"lock", "read"})
<1>2. I' = I
  BY DEF PopStep, TakeWork, TakeItem, LockForRead, Read, GiveSpace, Within
<1>3. I \in Nat /\ items[lane] \in Nat /\ T \in {0, 1}
  <2>1. Within(lane, {"item"}) \in SUBSET Producers
    BY DEF Within
  <2> QED
    BY <1>1, <2>1, Counted, Numbers
<1>4. /\ Count(lane) = items[lane] + I + T
      /\ Count(lane)' = items'[lane] + I' + T'
  BY DEF Count
<1> HIDE DEF I
<1>5. CASE TakeWork \/ GiveSpace
  <2>1. UNCHANGED <<ring, head, tail, items>> /\ T' = T
    BY <1>5 DEF TakeWork, GiveSpace, lanes, Taking, Quiet
  <2> QED
    BY <1>2, <1>4, <2>1, RingKept
<1>6. CASE TakeItem
  <2>1. UNCHANGED <<ring, head, tail>> /\ T = 0
    BY <1>6 DEF TakeItem, lanes, Taking, Lanes
  <2>2. PICK l \in Lanes :
          \/ /\ items[l] > 0 /\ items' = [items EXCEPT ![l] = items[l] - 1]
             /\ pop' = [at |-> "lock", lane |-> l]
          \/ /\ pop' \in {[at |-> "realtime"], Quiet}
             /\ UNCHANGED items
    BY <1>6 DEF TakeItem
  <2>3. CASE pop' \in {[at |-> "realtime"], Quiet} /\ UNCHANGED items
    <3>1. T' = 0
      BY <2>3 DEF Taking, Quiet
    <3> QED
      BY <1>2, <1>4, <2>1, <2>3, <3>1, RingKept
  <2>4. CASE /\ items[l] > 0 /\ items' = [items EXCEPT ![l] = items[l] - 1]
             /\ pop' = [at |-> "lock", lane |-> l]
    <3>1. /\ T' = IF lane = l THEN 1 ELSE 0
          /\ items'[lane] = IF lane = l THEN items[lane] - 1 ELSE items[lane]
      BY <1>1, <2>4 DEF Taking, TypeOK
    <3>2. Count(lane)' = Count(lane)
      BY <1>2, <1>3, <1>4, <2>1, <3>1
    <3> QED
      BY <2>1, <3>2, RingKept
  <2> QED
    BY <2>2, <2>3, <2>4
<1>7. CASE LockForRead
  <2>1. pop \in [at : {"lock"}, lane : Lanes]
    BY <1>1, <1>7 DEF LockForRead, TypeOK, PopStates, Quiet, Lanes
  <2>2. pop' = [pop EXCEPT !.at = "read"] /\ UNCHANGED <<ring, head, tail, items>>
    BY <1>7 DEF LockForRead
  <2>3. T' = T
    BY <2>1, <2>2 DEF Taking
  <2> QED
    BY <1>2, <1>4, <2>2, <2>3, RingKept
<1>8. CASE Read
  <2>1. PICK l \in Lanes : l = pop.lane
    BY <1>1, <1>8 DEF Read, TypeOK, PopStates, Quiet, Lanes
  <2>2. /\ pop.at = "read" /\ head' = [head EXCEPT ![l] = After(head[l], l)]
        /\ pop'.at = "space" /\ UNCHANGED <<ring, tail, items>>
    BY <1>8, <2>1 DEF Read
  <2>3. /\ T = IF lane = l THEN 1 ELSE 0
        /\ T' = 0
    BY <2>1, <2>2 DEF Taking
  <2>4. CASE lane # l
    <3>1. head'[lane] = head[lane] /\ Count(lane)' = Count(lane)
      BY <1>1, <1>2, <1>4, <2>2, <2>3, <2>4 DEF TypeOK
    <3> QED
      BY <2>2, <3>1, RingKept
  <2>5. CASE lane = l
    <3>1. head'[lane] = After(head[lane], lane)
      BY <1>1, <2>2, <2>5 DEF TypeOK
    <3>2. Count(lane)' = Count(lane) - 1 /\ Count(lane) > 0
      BY <1>2, <1>3, <1>4, <2>2, <2>3, <2>5
    <3> QED
      BY <2>2, <3>1, <3>2, Removed DEF Moves
  <2> QED
    BY <2>4, <2>5
<1> QED
  BY <1>5, <1>6, <1>7, <1>8 DEF PopStep

LEMMA NextMoves ==
  ASSUME FifoInv, TypeOK', Accounted', [Next]_vars
  PROVE  \A lane \in Lanes : Moves(lane)
<1>1. CASE UNCHANGED vars
  <2>1. UNCHANGED <<ring, head, tail>> /\ \A lane \in Lanes : Count(lane)' = Count(lane)
    BY <1>1 DEF vars, lanes, Count, Within, Taking
  <2> QED
    BY <2>1, RingKept
<1> QED
  BY <1>1, PushMoves, PushStepMoves, PopStepMoves DEF Next

LEMMA NextFifo == FifoInv /\ [Next]_vars => FifoInv'
<1> SUFFICES ASSUME FifoInv, [Next]_vars PROVE FifoInv'
  OBVIOUS
<1>1. TypeOK' /\ Accounted'
  BY NextTypeOK, NextAccounted DEF FifoInv
<1>2. Exclusive' /\ Written'
  BY NextExclusive, NextWritten DEF FifoInv
<1>3. TailIsEnd'
  BY <1>1, NextMoves DEF Moves, TailIsEnd, Capacity
<1> QED
  BY <1>1, <1>2, <1>3 DEF FifoInv

(* Whoever is at the ring has its mutex alone, writes behind the contents  *)
(* and finds the tail there (usb_priority_queue_push).                     *)
THEOREM FifoHolds == Spec => []FifoInv
<1>1. Init => FifoInv
  BY InitTypeOK, InitAccounted, InitFifo DEF FifoInv
<1> QED
  BY <1>1, NextFifo, PTL DEF Spec

(* The rings of usb_priority_queue_push and usb_priority_queue_pop, their  *)
(* indices, mutexes and semaphores implement a bounded queue per lane that *)
(* loses, doubles and reorders nothing, whichever producer gives up.       *)
THEOREM QueuesAreFifo == Spec => LanesAreFifo
<1>1. Init => Control!Init /\ Realtime!Init
  <2> SUFFICES ASSUME Init PROVE Control!Init /\ Realtime!Init
    OBVIOUS
  <2>1. \A lane \in Lanes : Contents(lane) = <<>>
    <3>1. TypeOK /\ Accounted
      BY InitTypeOK, InitAccounted
    <3>2. \A lane \in Lanes : Count(lane) = 0
      BY InitCount
    <3> QED
      BY <3>1, <3>2, NowStored DEF ContentsStored
  <2> QED
    BY <2>1 DEF Control!Init, Realtime!Init, Lanes
<1>2. FifoInv /\ FifoInv' /\ [Next]_vars =>
        /\ [Control!Put \/ Control!Get]_(Contents("control"))
        /\ [Realtime!Put \/ Realtime!Get]_(Contents("realtime"))
  <2> SUFFICES ASSUME FifoInv, FifoInv', [Next]_vars
               PROVE  /\ [Control!Put \/ Control!Get]_(Contents("control"))
                      /\ [Realtime!Put \/ Realtime!Get]_(Contents("realtime"))
    OBVIOUS
  <2>1. \A lane \in Lanes : Keeps(lane) \/ Puts(lane) \/ Gets(lane)
    BY NextMoves DEF FifoInv, Moves
  <2>2. \A lane \in Lanes : Len(Contents(lane)) = Count(lane)
    BY NowStored DEF FifoInv, ContentsStored
  <2>3. [Control!Put \/ Control!Get]_(Contents("control"))
    BY <2>1, <2>2, Sizes DEF Control!Put, Control!Get, Puts, Gets, Keeps, Lanes
  <2>4. [Realtime!Put \/ Realtime!Get]_(Contents("realtime"))
    BY <2>1, <2>2, Sizes DEF Realtime!Put, Realtime!Get, Puts, Gets, Keeps, Lanes
  <2> QED
    BY <2>3, <2>4
<1> QED
  BY <1>1, <1>2, FifoHolds, PTL DEF Spec, LanesAreFifo, Control!Spec, Realtime!Spec

-----------------------------------------------------------------------------
(* The beacon (DeviceBeacon).  Unless a request is under way or will be     *)
(* told, every stage of a pass has the place of the settings.               *)

Settled == ~notice /\ Beacon!Quiet /\ ~untold

PassIsCurrent ==
  Settled =>
    /\ task.at \in {"ready", "put"} => task.place = ram.place
    /\ task.at = "refresh" => profile.place = ram.place
    /\ task.at = "rest" => profile.place = ram.place /\ ie.place = ram.place

BeaconInv == Beacon!TypeOK /\ PassIsCurrent

BeaconParts == [ident : Beacon!Numbers, place : Beacon!Numbers]
BeaconPoints == {"top", "build", "ready", "put", "refresh", "wait", "rest", "paused"}
BeaconJobs == [at : {"idle", "set", "put", "refresh", "tell", "place"}, new : BeaconParts]

BeaconTyped ==
  /\ ram \in BeaconParts /\ profile \in BeaconParts /\ ie \in BeaconParts
  /\ radio \in BOOLEAN /\ phone \in BOOLEAN /\ sleeps \in BOOLEAN /\ notice \in BOOLEAN
  /\ task \in [at : BeaconPoints, place : Beacon!Numbers]
  /\ job \in [Tasks -> BeaconJobs]
  /\ request \in Beacon!Numbers

LEMMA BeaconTypes == Beacon!TypeOK <=> BeaconTyped
BY DEF Beacon!TypeOK, BeaconTyped, BeaconParts, BeaconPoints, BeaconJobs

LEMMA BeaconNumbers == 0 \in Beacon!Numbers
BY LanesAssumption DEF Beacon!Numbers

LEMMA BeaconInit == Beacon!Init => BeaconInv
<1> SUFFICES ASSUME Beacon!Init PROVE BeaconInv
  OBVIOUS
<1>1. BeaconTyped
  BY BeaconNumbers, LanesAssumption
     DEF Beacon!Init, BeaconTyped, BeaconParts, BeaconPoints, BeaconJobs, Beacon!Parts, Beacon!Idle
<1>2. PassIsCurrent
  BY DEF Beacon!Init, PassIsCurrent
<1> QED
  BY <1>1, <1>2, BeaconTypes DEF BeaconInv

(* A request has work to do until its settings are told.                    *)
LEMMA JobGoesOn ==
  ASSUME BeaconTyped, NEW t \in Tasks, NEW j \in BeaconJobs, job' = [job EXCEPT ![t] = j]
  PROVE  job' \in [Tasks -> BeaconJobs] /\ (j.at # "idle" => ~Beacon!Quiet')
<1>1. job'[t] = j
  BY DEF BeaconTyped
<1>2. job' \in [Tasks -> BeaconJobs]
  BY DEF BeaconTyped
<1> QED
  BY <1>1, <1>2 DEF Beacon!Quiet, Beacon!Busy, Beacon!At

LEMMA BeaconGoes ==
  ASSUME BeaconTyped, NEW t \in Tasks, NEW where \in {"put", "refresh", "tell", "place"},
         Beacon!Goes(t, where)
  PROVE  job' \in [Tasks -> BeaconJobs] /\ ~Beacon!Quiet'
<1>1. job[t] \in BeaconJobs
  BY DEF BeaconTyped
<1>2. job' = [job EXCEPT ![t] = [job[t] EXCEPT !.at = where]]
  BY DEF Beacon!Goes
<1>3. [job[t] EXCEPT !.at = where] \in BeaconJobs /\ [job[t] EXCEPT !.at = where].at = where
  BY <1>1 DEF BeaconJobs
<1> QED
  BY <1>2, <1>3, JobGoesOn

(* A step of a request leaves it under way, told or noted as untold.        *)
LEMMA RequestSteps ==
  ASSUME BeaconTyped, NEW t \in Tasks,
         Beacon!Set(t) \/ Beacon!Locate(t) \/ Beacon!Serve(t)
  PROVE  BeaconTyped' /\ ~Settled'
<1>1. CASE Beacon!Set(t)
  <2> DEFINE n == request + 1
  <2>1. n \in Beacon!Numbers /\ request' = n
    BY <1>1, LanesAssumption DEF Beacon!Set, Beacon!Starts, BeaconTyped, Beacon!Numbers
  <2>2. Beacon!Parts(n, n) \in BeaconParts
    BY <2>1 DEF Beacon!Parts, BeaconParts
  <2>3. ram' = Beacon!Parts(n, n)
    BY <1>1, <2>1 DEF Beacon!Set
  <2>4. [at |-> "put", new |-> ram'] \in BeaconJobs
    BY <2>2, <2>3 DEF BeaconJobs
  <2>5. job' \in [Tasks -> BeaconJobs] /\ ~Beacon!Quiet'
    BY <1>1, <2>4, JobGoesOn DEF Beacon!Set
  <2> QED
    BY <1>1, <2>1, <2>2, <2>3, <2>5 DEF Beacon!Set, BeaconTyped, Settled, Beacon!device
<1>2. CASE Beacon!Locate(t)
  <2> DEFINE n == request + 1
  <2>1. n \in Beacon!Numbers /\ request' = n
    BY <1>2, LanesAssumption DEF Beacon!Locate, Beacon!Starts, BeaconTyped, Beacon!Numbers
  <2>2. ram' = [ram EXCEPT !.place = n]
    BY <1>2, <2>1 DEF Beacon!Locate
  <2>3. ram' \in BeaconParts
    BY <2>1, <2>2 DEF BeaconTyped, BeaconParts
  <2>4. [at |-> "place", new |-> ram'] \in BeaconJobs
    BY <2>3 DEF BeaconJobs
  <2>5. job' \in [Tasks -> BeaconJobs] /\ ~Beacon!Quiet'
    BY <1>2, <2>4, JobGoesOn DEF Beacon!Locate
  <2> QED
    BY <1>2, <2>1, <2>3, <2>5 DEF Beacon!Locate, BeaconTyped, Settled, Beacon!device
<1>3. CASE Beacon!PutProfile(t)
  <2>1. job[t].new \in BeaconParts
    BY DEF BeaconTyped, BeaconJobs
  <2>2. job' \in [Tasks -> BeaconJobs] /\ ~Beacon!Quiet'
    BY <1>3, BeaconGoes DEF Beacon!PutProfile
  <2> QED
    BY <1>3, <2>1, <2>2 DEF Beacon!PutProfile, BeaconTyped, Settled, Beacon!device
<1>4. CASE Beacon!RefreshNow(t)
  <2>1. job' \in [Tasks -> BeaconJobs] /\ ~Beacon!Quiet'
    BY <1>4, BeaconGoes DEF Beacon!RefreshNow
  <2>2. ie' \in BeaconParts
    BY <1>4 DEF Beacon!RefreshNow, Beacon!Advertise, Beacon!NotAdvertised, BeaconTyped
  <2> QED
    BY <1>4, <2>1, <2>2 DEF Beacon!RefreshNow, BeaconTyped, Settled, Beacon!device
<1>5. CASE Beacon!PutPlace(t)
  <2>1. job[t].new.place \in Beacon!Numbers
    BY DEF BeaconTyped, BeaconJobs, BeaconParts
  <2>2. profile' \in BeaconParts
    BY <1>5, <2>1 DEF Beacon!PutPlace, BeaconTyped, BeaconParts
  <2>3. job' \in [Tasks -> BeaconJobs] /\ ~Beacon!Quiet'
    BY <1>5, BeaconGoes DEF Beacon!PutPlace
  <2> QED
    BY <1>5, <2>2, <2>3 DEF Beacon!PutPlace, BeaconTyped, Settled, Beacon!device
<1>6. CASE Beacon!Tell(t)
  <2>1. Beacon!Idle \in BeaconJobs
    BY BeaconNumbers DEF Beacon!Idle, Beacon!Parts, BeaconJobs, BeaconParts
  <2>2. job' \in [Tasks -> BeaconJobs]
    BY <1>6, <2>1, JobGoesOn DEF Beacon!Tell
  <2>3. notice' \in BOOLEAN
    BY <1>6 DEF Beacon!Tell, BeaconTyped
  <2>4. notice' \/ untold'
    BY <1>6 DEF Beacon!Tell
  <2>5. UNCHANGED <<ram, profile, ie, radio, phone, sleeps, task, request>>
    BY <1>6 DEF Beacon!Tell, Beacon!shared, Beacon!device
  <2>6. BeaconTyped'
    BY <2>2, <2>3, <2>5 DEF BeaconTyped
  <2> QED
    BY <2>4, <2>6 DEF Settled
<1> QED
  BY <1>1, <1>2, <1>3, <1>4, <1>5, <1>6 DEF Beacon!Serve

LEMMA BeaconStep ==
  ASSUME BeaconInv, [Beacon!Next]_(Beacon!vars)
  PROVE  BeaconInv'
<1>t. BeaconTyped /\ PassIsCurrent
  BY BeaconTypes DEF BeaconInv
<1>p. BeaconTyped' => Beacon!TypeOK'
  BY DEF Beacon!TypeOK, BeaconTyped, BeaconParts, BeaconPoints, BeaconJobs
<1> SUFFICES BeaconTyped' /\ PassIsCurrent'
  BY <1>p DEF BeaconInv
<1>s. ASSUME NEW where \in BeaconPoints, Beacon!Steps(where)
      PROVE  /\ task' \in [at : BeaconPoints, place : Beacon!Numbers]
             /\ task'.at = where /\ task'.place = task.place
  BY <1>t, <1>s DEF Beacon!Steps, BeaconTyped
<1>q. UNCHANGED <<notice, job, untold>> => Settled' = Settled
  BY DEF Settled, Beacon!Quiet, Beacon!Busy, Beacon!At
<1>1. ASSUME NEW t \in Tasks, Beacon!Set(t) \/ Beacon!Locate(t) \/ Beacon!Serve(t)
      PROVE  BeaconTyped' /\ PassIsCurrent'
  BY <1>t, <1>1, RequestSteps DEF PassIsCurrent
<1>2. CASE Beacon!Top
  <2>1. PICK where \in {"paused", "build"} : Beacon!Steps(where)
    BY <1>2 DEF Beacon!Top
  <2>2. /\ task' \in [at : BeaconPoints, place : Beacon!Numbers]
        /\ task'.at \in {"paused", "build"}
    BY <1>s, <2>1 DEF BeaconPoints
  <2>3. UNCHANGED <<ram, profile, ie, radio, phone, sleeps, notice, job, request>>
    BY <1>2 DEF Beacon!Top, Beacon!shared, Beacon!device
  <2> QED
    BY <1>t, <2>2, <2>3 DEF BeaconTyped, PassIsCurrent
<1>3. CASE Beacon!Wake
  <2>1. /\ task' \in [at : BeaconPoints, place : Beacon!Numbers]
        /\ task'.at = "top"
    BY <1>3, <1>s DEF Beacon!Wake, BeaconPoints
  <2>2. UNCHANGED <<ram, profile, ie, radio, phone, sleeps, job, request>> /\ notice' = FALSE
    BY <1>3 DEF Beacon!Wake, Beacon!shared, Beacon!device
  <2> QED
    BY <1>t, <2>1, <2>2 DEF BeaconTyped, PassIsCurrent
<1>4. CASE Beacon!Build
  <2>1. /\ UNCHANGED <<ram, profile, ie, radio, phone, sleeps, notice, job, request>>
        /\ task' = [at |-> "ready", place |-> ram.place]
    BY <1>4 DEF Beacon!Build, Beacon!shared, Beacon!device
  <2>2. ram.place \in Beacon!Numbers
    BY <1>t DEF BeaconTyped, BeaconParts
  <2>3. BeaconTyped'
    BY <1>t, <2>1, <2>2 DEF BeaconTyped, BeaconPoints
  <2>4. PassIsCurrent'
    BY <2>1 DEF PassIsCurrent
  <2> QED
    BY <2>3, <2>4
<1>5. CASE Beacon!Check
  <2>1. PICK where \in {"wait", "put"} : Beacon!Steps(where)
    BY <1>5 DEF Beacon!Check
  <2>2. /\ task' \in [at : BeaconPoints, place : Beacon!Numbers]
        /\ task'.at \in {"wait", "put"} /\ task'.place = task.place
    BY <1>s, <2>1 DEF BeaconPoints
  <2>3. task.at = "ready"
    BY <1>5 DEF Beacon!Check, Beacon!TaskAt
  <2>4. UNCHANGED <<ram, profile, ie, radio, phone, sleeps, notice, job, request, untold>>
    BY <1>5 DEF Beacon!Check, Beacon!shared, Beacon!device
  <2>5. BeaconTyped'
    BY <1>t, <2>2, <2>4 DEF BeaconTyped
  <2>6. PassIsCurrent'
    BY <1>t, <1>q, <2>2, <2>3, <2>4 DEF PassIsCurrent
  <2> QED
    BY <2>5, <2>6
<1>6. CASE Beacon!PutPublished
  <2>1. /\ task' \in [at : BeaconPoints, place : Beacon!Numbers]
        /\ task'.at = "refresh" /\ task.at = "put"
    BY <1>6, <1>s DEF Beacon!PutPublished, Beacon!TaskAt, BeaconPoints
  <2>2. profile' = [profile EXCEPT !.place = task.place] /\ task.place \in Beacon!Numbers
    BY <1>6, <1>t DEF Beacon!PutPublished, BeaconTyped
  <2>3. profile' \in BeaconParts /\ profile'.place = task.place
    BY <1>t, <2>2 DEF BeaconTyped, BeaconParts
  <2>4. UNCHANGED <<ram, ie, radio, phone, sleeps, notice, job, request, untold>>
    BY <1>6 DEF Beacon!PutPublished, Beacon!device
  <2>5. BeaconTyped'
    BY <1>t, <2>1, <2>3, <2>4 DEF BeaconTyped
  <2>6. PassIsCurrent'
    BY <1>t, <1>q, <2>1, <2>3, <2>4 DEF PassIsCurrent
  <2> QED
    BY <2>5, <2>6
<1>7. CASE Beacon!Publish
  <2>1. /\ task' \in [at : BeaconPoints, place : Beacon!Numbers]
        /\ task'.at \in {"rest", "wait"} /\ task.at = "refresh"
        /\ task'.at = "rest" => ie' = profile
    BY <1>7, <1>s DEF Beacon!Publish, Beacon!Advertise, Beacon!TaskAt, BeaconPoints
  <2>2. ie' = profile \/ ie' = ie
    BY <1>7 DEF Beacon!Publish, Beacon!Advertise, Beacon!NotAdvertised
  <2>3. UNCHANGED <<ram, profile, radio, phone, sleeps, notice, job, request, untold>>
    BY <1>7 DEF Beacon!Publish, Beacon!device
  <2>4. BeaconTyped'
    BY <1>t, <2>1, <2>2, <2>3 DEF BeaconTyped
  <2>5. PassIsCurrent'
    BY <1>t, <1>q, <2>1, <2>3 DEF PassIsCurrent
  <2> QED
    BY <2>4, <2>5
<1>8. CASE Beacon!Connection
  <2>1. UNCHANGED <<ram, profile, ie, radio, sleeps, task, job, request>> /\ notice' = TRUE
    BY <1>8 DEF Beacon!Connection, Beacon!shared
  <2>2. phone' \in BOOLEAN
    BY <1>8 DEF Beacon!Connection
  <2>3. BeaconTyped'
    BY <1>t, <2>1, <2>2 DEF BeaconTyped
  <2>4. ~Settled'
    BY <2>1 DEF Settled
  <2> QED
    BY <2>3, <2>4 DEF PassIsCurrent
<1>9. CASE Beacon!RadioUp
  <2>1. UNCHANGED <<ram, profile, phone, sleeps, task, notice, job, request, untold>>
    BY <1>9 DEF Beacon!RadioUp
  <2>2. radio' = TRUE /\ ie' = profile
    BY <1>9 DEF Beacon!RadioUp
  <2>3. BeaconTyped'
    BY <1>t, <2>1, <2>2 DEF BeaconTyped
  <2>4. PassIsCurrent'
    BY <1>t, <1>q, <2>1, <2>2 DEF PassIsCurrent
  <2> QED
    BY <2>3, <2>4
<1>10. ASSUME UNCHANGED <<ram, profile, ie, phone, sleeps, task, notice, job, request, untold>>,
              radio' \in BOOLEAN
       PROVE  BeaconTyped' /\ PassIsCurrent'
  <2>1. BeaconTyped'
    BY <1>t, <1>10 DEF BeaconTyped
  <2>2. PassIsCurrent'
    BY <1>t, <1>q, <1>10 DEF PassIsCurrent
  <2> QED
    BY <2>1, <2>2
<1>11. CASE Beacon!RadioDown
  BY <1>10, <1>11 DEF Beacon!RadioDown, Beacon!shared
<1>12. CASE UNCHANGED Beacon!vars
  BY <1>t, <1>10, <1>12 DEF Beacon!vars, Beacon!shared, Beacon!device, BeaconTyped
<1> QED
  BY <1>1, <1>2, <1>3, <1>4, <1>5, <1>6, <1>7, <1>8, <1>9, <1>11, <1>12
     DEF Beacon!Next, Beacon!BeaconTask

(* When the beacon task rests and nothing notifies it, the radio advertises *)
(* the place of the settings, for any number of tasks that handle requests  *)
(* and any number of requests: a change that comes between two steps of a   *)
(* pass is told before its request ends, or was one that is not told.       *)
THEOREM RestingIsCurrent == Beacon!Spec => []RestIsCurrent
<1>1. BeaconInv /\ [Beacon!Next]_(Beacon!vars) => BeaconInv'
  BY BeaconStep
<1>2. BeaconInv => RestIsCurrent
  BY DEF BeaconInv, PassIsCurrent, Settled, RestIsCurrent, Beacon!RestIsCurrent, Beacon!TaskAt
<1> QED
  BY BeaconInit, <1>1, <1>2, PTL DEF Beacon!Spec
=============================================================================
