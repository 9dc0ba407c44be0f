------------------------ MODULE PowerPolicy_proofs -------------------------
(***************************************************************************)
(* No user device goes to sleep before its window, for any windows and any *)
(* number of links, sessions and commands.                                 *)
(***************************************************************************)
EXTENDS PowerPolicy, SequenceTheorems, TLAPS

In(s, S) == \E i \in 1 .. Len(s) : s[i] \in S

Arming == {"scheduleShort", "scheduleLong", "armShort", "armLong", "cancelSleep"}

Arms == \E t \in Tasks : In(todo[t], Arming)
Asks == \E t \in Tasks : In(todo[t], {"ifAlone"})

(* The timer would run out before the window.                              *)
Early == sleepTimer # Off /\ sleepTimer + idleFor < ShortWindow

(* A timer that would run out early is about to be armed again or dropped: *)
(* some handler will do so whatever happens, or a disconnect handler has   *)
(* not looked yet, and then nobody is connected.                           *)
EarlyIsPending == Early => Arms \/ (~Connected /\ Asks)

(* A queued frame is an event that happened.                               *)
Typed == TypeOK /\ queued <= events

-----------------------------------------------------------------------------
(* The steps a handler still has to run                                    *)

LEMMA ConcatIn ==
  ASSUME NEW s1 \in Seq(Steps), NEW s2 \in Seq(Steps), NEW S
  PROVE  In(s1 \o s2, S) <=> In(s1, S) \/ In(s2, S)
<1>1. /\ Len(s1) \in Nat /\ Len(s2) \in Nat
      /\ Len(s1 \o s2) = Len(s1) + Len(s2)
      /\ \A i \in 1 .. Len(s1) + Len(s2) :
           (s1 \o s2)[i] = IF i <= Len(s1) THEN s1[i] ELSE s2[i - Len(s1)]
  BY ConcatProperties, LenProperties
<1>2. ASSUME NEW i \in 1 .. Len(s1)
      PROVE  i \in 1 .. Len(s1 \o s2) /\ (s1 \o s2)[i] = s1[i]
  BY <1>1
<1>3. ASSUME NEW i \in 1 .. Len(s2)
      PROVE  Len(s1) + i \in 1 .. Len(s1 \o s2) /\ (s1 \o s2)[Len(s1) + i] = s2[i]
  BY <1>1
<1>4. ASSUME NEW i \in 1 .. Len(s1 \o s2), (s1 \o s2)[i] \in S
      PROVE  In(s1, S) \/ In(s2, S)
  <2>1. CASE i <= Len(s1)
    BY <1>1, <1>4, <2>1 DEF In
  <2>2. CASE i > Len(s1)
    <3>1. i - Len(s1) \in 1 .. Len(s2) /\ s2[i - Len(s1)] \in S
      BY <1>1, <1>4, <2>2
    <3> QED
      BY <3>1 DEF In
  <2> QED
    BY <1>1, <2>1, <2>2
<1> QED
  BY <1>2, <1>3, <1>4 DEF In

LEMMA TailIn ==
  ASSUME NEW s \in Seq(Steps), s # <<>>, NEW S, Head(s) \notin S, In(s, S)
  PROVE  In(Tail(s), S)
<1>1. PICK i \in 1 .. Len(s) : s[i] \in S
  BY DEF In
<1>2. Len(s) \in Nat /\ s[1] = Head(s)
  BY LenProperties
<1>3. i # 1 /\ i - 1 \in 1 .. Len(Tail(s)) /\ Tail(s)[i - 1] = s[i]
  BY <1>1, <1>2, HeadTailProperties
<1> QED
  BY <1>1, <1>3 DEF In

LEMMA NothingIn == \A S : ~In(<<>>, S)
BY DEF In

(* What a step leaves to its task, and to the others.                      *)
LEMMA ContinuesTo ==
  ASSUME todo \in [Tasks -> Seq(Steps)], NEW t \in Tasks, todo[t] # <<>>,
         NEW steps \in Seq(Steps), Continues(t, steps)
  PROVE  /\ todo' \in [Tasks -> Seq(Steps)]
         /\ \A u \in Tasks \ {t} : todo'[u] = todo[u]
         /\ \A S : In(steps, S) => In(todo'[t], S)
         /\ \A S : In(todo[t], S) /\ Head(todo[t]) \notin S => In(todo'[t], S)
<1>1. todo[t] \in Seq(Steps) /\ Tail(todo[t]) \in Seq(Steps)
  BY HeadTailProperties
<1>2. /\ todo' = [todo EXCEPT ![t] = steps \o Tail(todo[t])]
      /\ steps \o Tail(todo[t]) \in Seq(Steps)
  BY <1>1, ConcatProperties DEF Continues
<1>3. /\ todo' \in [Tasks -> Seq(Steps)] /\ todo'[t] = steps \o Tail(todo[t])
      /\ \A u \in Tasks \ {t} : todo'[u] = todo[u]
  BY <1>2
<1>4. ASSUME NEW S
      PROVE  In(todo'[t], S) <=> In(steps, S) \/ In(Tail(todo[t]), S)
  <2>1. In(steps \o Tail(todo[t]), S) <=> In(steps, S) \/ In(Tail(todo[t]), S)
    BY <1>1, ConcatIn
  <2> QED
    BY <1>3, <2>1
<1>5. ASSUME NEW S, In(todo[t], S), Head(todo[t]) \notin S
      PROVE  In(Tail(todo[t]), S)
  BY <1>1, <1>5, TailIn
<1> QED
  BY <1>3, <1>4, <1>5

LEMMA StartsWith ==
  ASSUME todo \in [Tasks -> Seq(Steps)], NEW t \in Tasks, todo[t] = <<>>,
         NEW steps \in Seq(Steps), Starts(t, steps)
  PROVE  /\ todo' \in [Tasks -> Seq(Steps)] /\ todo'[t] = steps
         /\ \A S : \A u \in Tasks : In(todo[u], S) => In(todo'[u], S)
<1>1. /\ todo' \in [Tasks -> Seq(Steps)] /\ todo'[t] = steps
      /\ \A u \in Tasks \ {t} : todo'[u] = todo[u]
  BY DEF Starts
<1> QED
  BY <1>1, NothingIn

(* The handlers and what they go on with.                                  *)
LEMMA Handlers ==
  /\ ConnectHandler \in Seq(Steps) /\ In(ConnectHandler, Arming)
  /\ DisconnectHandler \in Seq(Steps) /\ In(DisconnectHandler, {"ifAlone"})
  /\ SettingsHandler \in Seq(Steps)
  /\ DisconnectPolicy \in Seq(Steps) /\ In(DisconnectPolicy, Arming)
  /\ \A s \in Steps : <<s>> \in Seq(Steps)
  /\ \A s \in Arming : In(<<s>>, Arming)
  /\ <<>> \in Seq(Steps)
<1>1. /\ ConnectHandler \in Seq(Steps) /\ DisconnectHandler \in Seq(Steps)
      /\ SettingsHandler \in Seq(Steps) /\ <<>> \in Seq(Steps)
      /\ \A s \in Steps : <<s>> \in Seq(Steps)
  BY DEF ConnectHandler, DisconnectHandler, SettingsHandler, Steps
<1>2. DisconnectPolicy \in Seq(Steps)
  <2>1. /\ <<"scheduleBle", "scheduleShort", "askUnload">> \in Seq(Steps)
        /\ <<"scheduleBle", "scheduleLong">> \in Seq(Steps)
    BY DEF Steps
  <2> QED
    BY <2>1 DEF DisconnectPolicy
<1>3. In(ConnectHandler, Arming)
  <2>1. Len(ConnectHandler) = 3 /\ ConnectHandler[2] = "cancelSleep"
    BY DEF ConnectHandler
  <2> QED
    BY <2>1 DEF In, Arming
<1>4. In(DisconnectHandler, {"ifAlone"})
  BY DEF DisconnectHandler, In
<1>5. In(DisconnectPolicy, Arming)
  <2>1. Len(DisconnectPolicy) >= 2 /\ Len(DisconnectPolicy) \in Nat
        /\ DisconnectPolicy[2] \in {"scheduleShort", "scheduleLong"}
    BY DEF DisconnectPolicy
  <2> QED
    BY <2>1 DEF In, Arming
<1>6. \A s \in Arming : In(<<s>>, Arming)
  BY DEF In
<1> QED
  BY <1>1, <1>2, <1>3, <1>4, <1>5, <1>6

-----------------------------------------------------------------------------
(* What each step leaves to do                                             *)

(* A step of a handler: what it goes on with.                              *)
LEMMA SharedContinues ==
  ASSUME NEW t \in Tasks, SharedStep(t)
  PROVE  /\ todo[t] # <<>> /\ power = "on"
         /\ \E steps \in Seq(Steps) : Continues(t, steps)
<1>1. ASSUME NEW step, Runs(t, step)
      PROVE  todo[t] # <<>> /\ power = "on"
  BY <1>1 DEF Runs
<1>2. CASE CancelBle(t) \/ CancelSleep(t) \/ ClearUnload(t) \/ ArmBle(t) \/ ArmSleep(t)
           \/ AskUnload(t) \/ StartHalow(t)
  BY <1>1, <1>2, Handlers
     DEF CancelBle, CancelSleep, ClearUnload, ArmBle, ArmSleep, AskUnload, StartHalow, Completes
<1>3. CASE IfAlone(t)
  BY <1>1, <1>3, Handlers DEF IfAlone
<1>4. CASE ApplyType(t)
  <2>1. /\ <<"cancelBle", "cancelSleep">> \in Seq(Steps)
        /\ <<"scheduleBle", "scheduleLong">> \in Seq(Steps)
        /\ <<"startHalow">> \in Seq(Steps) /\ <<>> \in Seq(Steps)
    BY DEF Steps
  <2> DEFINE a == IF Connected THEN <<"cancelBle", "cancelSleep">>
                               ELSE <<"scheduleBle", "scheduleLong">>
             b == IF SleepsWhenIdle THEN <<>> ELSE <<"startHalow">>
  <2>2. a \in Seq(Steps) /\ b \in Seq(Steps)
    BY <2>1
  <2>3. a \o b \in Seq(Steps)
    BY <2>2, ConcatProperties
  <2> QED
    BY <1>1, <1>4, <2>3 DEF ApplyType
<1>5. CASE ScheduleBle(t)
  BY <1>1, <1>5, Handlers DEF ScheduleBle, Steps
<1>6. CASE ScheduleSleep(t)
  <2>1. PICK window \in {<<"scheduleShort", "armShort">>, <<"scheduleLong", "armLong">>} :
          /\ Runs(t, window[1])
          /\ Continues(t, IF SleepsWhenIdle /\ ~Connected THEN <<window[2]>>
                                                          ELSE <<"cancelSleep">>)
    BY <1>6 DEF ScheduleSleep
  <2>2. window[2] \in Steps /\ "cancelSleep" \in Steps
    BY DEF Steps
  <2> QED
    BY <1>1, <2>1, <2>2, Handlers
<1> QED
  BY <1>2, <1>3, <1>4, <1>5, <1>6 DEF SharedStep

LEMMA PassStepsTyped ==
  ASSUME TypeOK
  PROVE  PassSteps \in Seq(Steps)
<1>1. /\ <<"tryUnload">> \in Seq(Steps) /\ <<>> \in Seq(Steps)
      /\ <<"cancelBle", "stopPairing">> \in Seq(Steps)
      /\ <<"trySleep">> \in Seq(Steps) /\ <<"checkPolicy">> \in Seq(Steps)
  BY DEF Steps
<1> DEFINE a == IF snap.unload = "asked" THEN <<"tryUnload">> ELSE <<>>
           b == IF snap.ble = 0 THEN <<"cancelBle", "stopPairing">> ELSE <<>>
           c == IF snap.sleep = 0 THEN <<"trySleep">>
                ELSE IF snap.sleep = Off THEN <<>> ELSE <<"checkPolicy">>
<1>2. a \in Seq(Steps) /\ b \in Seq(Steps) /\ c \in Seq(Steps)
  BY <1>1
<1>3. a \o b \in Seq(Steps)
  BY <1>2, ConcatProperties
<1>4. (a \o b) \o c \in Seq(Steps)
  BY <1>2, <1>3, ConcatProperties
<1>5. PassSteps = (a \o b) \o c
  BY DEF PassSteps
<1> QED
  BY <1>4, <1>5

(* A step of the power task within its pass.                               *)
WorkerPass ==
  \/ WorkerCheck \/ WorkerUnload \/ WorkerCheckPolicy
  \/ WorkerTrySleep \/ StopPairing \/ StopHost \/ PowerDown \/ DeepSleep

LEMMA WorkerContinues ==
  ASSUME TypeOK, WorkerPass
  PROVE  /\ todo["worker"] # <<>> /\ power = "on"
         /\ Head(todo["worker"]) \notin Arming \cup {"ifAlone"}
         /\ \E steps \in Seq(Steps) : Continues("worker", steps)
<1>1. /\ todo["worker"] # <<>> /\ power = "on"
      /\ Head(todo["worker"]) \notin Arming \cup {"ifAlone"}
  BY DEF WorkerPass, WorkerCheck, WorkerUnload, WorkerCheckPolicy, WorkerTrySleep,
         StopPairing, StopHost, PowerDown, DeepSleep, Runs, Arming
<1>2. \E steps \in Seq(Steps) : Continues("worker", steps)
  <2>1. CASE WorkerCheck
    <3>1. <<"cancelBle", "cancelSleep", "clearUnload">> \in Seq(Steps)
      BY DEF Steps
    <3>2. (IF Connected THEN <<"cancelBle", "cancelSleep", "clearUnload">> ELSE PassSteps)
            \in Seq(Steps)
      BY <3>1, PassStepsTyped
    <3> QED
      BY <2>1, <3>2 DEF WorkerCheck
  <2>2. CASE WorkerUnload \/ StopHost \/ PowerDown \/ DeepSleep
    BY <2>2, Handlers DEF WorkerUnload, StopHost, PowerDown, DeepSleep, Completes
  <2>3. CASE WorkerCheckPolicy
    <3>1. (IF SleepsWhenIdle THEN <<>> ELSE <<"cancelSleep">>) \in Seq(Steps)
      BY Handlers DEF Steps
    <3> QED
      BY <2>3, <3>1 DEF WorkerCheckPolicy
  <2>4. CASE WorkerTrySleep
    <3>1. /\ <<"cancelBle", "cancelSleep", "stopPairing", "powerDown", "deepSleep">> \in Seq(Steps)
          /\ <<"cancelSleep">> \in Seq(Steps)
      BY DEF Steps
    <3>2. (IF SleepsWhenIdle
           THEN <<"cancelBle", "cancelSleep", "stopPairing", "powerDown", "deepSleep">>
           ELSE <<"cancelSleep">>) \in Seq(Steps)
      BY <3>1
    <3> QED
      BY <2>4, <3>2 DEF WorkerTrySleep
  <2>5. CASE StopPairing
    <3>1. (IF BleEnabled THEN <<"stopHost">> ELSE <<>>) \in Seq(Steps)
      BY Handlers DEF Steps
    <3> QED
      BY <2>5, <3>1 DEF StopPairing
  <2> QED
    BY <2>1, <2>2, <2>3, <2>4, <2>5 DEF WorkerPass
<1> QED
  BY <1>1, <1>2

(* A handler of the phones, and what it begins with.                       *)
LEMMA PhoneStarts ==
  ASSUME TypeOK, PhoneStep
  PROVE  \/ UNCHANGED todo
         \/ \E t \in Tasks, steps \in Seq(Steps) : todo[t] = <<>> /\ Starts(t, steps)
BY Handlers
   DEF PhoneStep, BleLink, BlePair, BleDrop, UsbEnter, UsbExit, UsbQueue, InitHalow,
       SetDeviceType, Receives, Free, Tasks, Phones

-----------------------------------------------------------------------------
(* Types                                                                   *)

LEMMA WindowsTyped ==
  /\ ShortWindow \in Nat /\ BleWindow \in Nat /\ LongWindow \in Nat /\ MaxEvents \in Nat
  /\ ShortWindow > 0 /\ ShortWindow <= LongWindow
  /\ Off \in Off .. BleWindow /\ Off \in Off .. LongWindow
  /\ BleWindow \in Off .. BleWindow
  /\ ShortWindow \in Off .. LongWindow /\ LongWindow \in Off .. LongWindow
  /\ \A n \in Nat : \A timer \in Off .. n : Left(timer) \in Off .. n
BY WindowsAssumption DEF Off, Left

LEMMA InitTyped == Init => Typed
<1> SUFFICES ASSUME Init
             PROVE  Typed
  OBVIOUS
<1>1. /\ sleepTimer \in Off .. LongWindow /\ bleTimer \in Off .. BleWindow
      /\ idleFor \in 0 .. LongWindow /\ queued \in 0 .. MaxEvents /\ events \in 0 .. MaxEvents
      /\ queued <= events
  BY WindowsTyped DEF Init
<1>2. snap \in [ble : Off .. BleWindow, sleep : Off .. LongWindow, unload : {"asked", "no"}]
  BY WindowsTyped DEF Init, Nothing
<1>3. todo \in [Tasks -> Seq(Steps)]
  BY Handlers DEF Init
<1> QED
  BY <1>1, <1>2, <1>3 DEF Init, Typed, TypeOK

LEMMA TodoTyped == Typed /\ [Next]_vars => todo' \in [Tasks -> Seq(Steps)]
<1> SUFFICES ASSUME Typed, [Next]_vars
             PROVE  todo' \in [Tasks -> Seq(Steps)]
  OBVIOUS
<1>1. todo \in [Tasks -> Seq(Steps)] /\ TypeOK
  BY DEF Typed, TypeOK
<1>2. CASE PhoneStep
  BY <1>1, <1>2, PhoneStarts, StartsWith
<1>3. ASSUME NEW t \in Tasks, SharedStep(t)
      PROVE  todo' \in [Tasks -> Seq(Steps)]
  BY <1>1, <1>3, SharedContinues, ContinuesTo
<1>4. CASE WorkerWake
  <2>1. <<"checkAlone">> \in Seq(Steps) /\ "worker" \in Tasks
    BY DEF Steps, Tasks
  <2> QED
    BY <1>1, <1>4, <2>1, StartsWith DEF WorkerWake, Free
<1>5. CASE WorkerPass
  BY <1>1, <1>5, WorkerContinues, ContinuesTo DEF Tasks
<1>6. CASE Tick \/ UNCHANGED vars
  BY <1>1, <1>6 DEF Tick, vars
<1> QED
  BY <1>2, <1>3, <1>4, <1>5, <1>6 DEF Next, WorkerStep, WorkerPass

LEMMA NextTyped == Typed /\ [Next]_vars => Typed'
<1> SUFFICES ASSUME Typed, [Next]_vars
             PROVE  Typed'
  OBVIOUS
<1> USE WindowsTyped
<1>1. todo' \in [Tasks -> Seq(Steps)]
  BY TodoTyped
<1>2. /\ queued \in Nat /\ events \in Nat /\ events <= MaxEvents /\ queued <= events
      /\ idleFor \in Nat /\ idleFor <= LongWindow
  BY DEF Typed, TypeOK
<1>3. ASSUME Happens
      PROVE  events' = events + 1 /\ events' \in 0 .. MaxEvents
  BY <1>2, <1>3 DEF Happens
<1>4. CASE BleLink \/ BlePair \/ BleDrop
  <2>1. /\ events' \in 0 .. MaxEvents /\ queued' = queued /\ queued' <= events'
        /\ idleFor' \in 0 .. LongWindow
    BY <1>2, <1>3, <1>4 DEF BleLink, BlePair, BleDrop, rest
  <2> QED
    BY <1>1, <1>4, <2>1 DEF BleLink, BlePair, BleDrop, Typed, TypeOK, timers, rest
<1>5. CASE UsbEnter \/ UsbExit
  <2>1. /\ events' \in 0 .. MaxEvents /\ queued' = queued /\ queued' <= events'
        /\ idleFor' \in 0 .. LongWindow
    BY <1>2, <1>3, <1>5 DEF UsbEnter, UsbExit
  <2> QED
    BY <1>1, <1>5, <2>1 DEF UsbEnter, UsbExit, Typed, TypeOK, timers
<1>6. CASE UsbQueue
  <2>1. /\ events' \in 0 .. MaxEvents /\ queued' \in 0 .. MaxEvents /\ queued' <= events'
    BY <1>2, <1>3, <1>6 DEF UsbQueue
  <2> QED
    BY <1>1, <1>6, <2>1 DEF UsbQueue, Typed, TypeOK, timers
<1>7. ASSUME NEW t \in Phones, Receives(t)
      PROVE  /\ queued' \in 0 .. MaxEvents /\ events' \in 0 .. MaxEvents
             /\ queued' <= events'
  BY <1>2, <1>3, <1>7 DEF Receives
<1>8. ASSUME NEW t \in Phones, InitHalow(t)
      PROVE  Typed'
  BY <1>1, <1>7, <1>8 DEF InitHalow, Typed, TypeOK, timers
<1>9. ASSUME NEW t \in Phones, NEW type \in {"user", "autonomous"}, SetDeviceType(t, type)
      PROVE  Typed'
  BY <1>1, <1>7, <1>9 DEF SetDeviceType, Typed, TypeOK, timers
<1>10. ASSUME NEW t \in Tasks, SharedStep(t)
       PROVE  Typed'
  <2>1. CASE CancelBle(t) \/ CancelSleep(t) \/ ClearUnload(t) \/ ArmBle(t) \/ AskUnload(t)
    <3>1. /\ UNCHANGED <<links, snap, rest>>
          /\ bleTimer' \in {bleTimer, Off, BleWindow} /\ sleepTimer' \in {sleepTimer, Off}
          /\ unload' \in {unload, "no", "asked"}
      BY <2>1 DEF CancelBle, CancelSleep, ClearUnload, ArmBle, AskUnload
    <3>2. bleTimer' \in Off .. BleWindow
      BY <1>1, <3>1 DEF Typed, TypeOK
    <3>3. sleepTimer' \in Off .. LongWindow
      BY <1>1, <3>1 DEF Typed, TypeOK
    <3>4. unload' \in {"asked", "no"}
      BY <3>1 DEF Typed, TypeOK
    <3>5. UNCHANGED <<deviceType, bleHost, ble, usb, queued, halow, snap, power, idleFor, events>>
      BY <3>1 DEF links, rest
    <3> QED
      BY <1>10, <1>1, <3>2, <3>3, <3>4, <3>5 DEF Typed, TypeOK
  <2>2. CASE IfAlone(t) \/ ApplyType(t) \/ ScheduleBle(t) \/ ScheduleSleep(t)
    BY <1>1, <2>2 DEF IfAlone, ApplyType, ScheduleBle, ScheduleSleep,
                      links, timers, rest, Typed, TypeOK
  <2>3. CASE ArmSleep(t)
    <3>1. /\ sleepTimer' \in {ShortWindow, LongWindow}
          /\ UNCHANGED <<links, bleTimer, unload, snap, rest>>
      BY <2>3 DEF ArmSleep
    <3> QED
      BY <1>1, <3>1 DEF links, rest, Typed, TypeOK
  <2>4. CASE StartHalow(t)
    BY <1>1, <2>4 DEF StartHalow, links, timers, Typed, TypeOK
  <2> QED
    BY <1>10, <2>1, <2>2, <2>3, <2>4 DEF SharedStep
<1>11. CASE WorkerWake
  <2>1. snap' \in [ble : Off .. BleWindow, sleep : Off .. LongWindow, unload : {"asked", "no"}]
    BY <1>11 DEF WorkerWake, Typed, TypeOK
  <2> QED
    BY <1>1, <1>11, <2>1 DEF WorkerWake, links, timers, rest, Typed, TypeOK
<1>12. CASE WorkerCheck
  <2>1. snap' \in [ble : Off .. BleWindow, sleep : Off .. LongWindow, unload : {"asked", "no"}]
    BY <1>12 DEF WorkerCheck, Nothing
  <2> QED
    BY <1>1, <1>12, <2>1 DEF WorkerCheck, links, timers, rest, Typed, TypeOK
<1>13. CASE WorkerUnload \/ PowerDown \/ DeepSleep
  <2>1. queued' \in {queued, 0} /\ events' = events /\ idleFor' = idleFor
    BY <1>13 DEF WorkerUnload, PowerDown, DeepSleep, links
  <2>2. queued' \in 0 .. MaxEvents /\ queued' <= events'
    BY <1>2, <2>1
  <2> QED
    BY <1>1, <1>13, <2>1, <2>2
       DEF WorkerUnload, PowerDown, DeepSleep, links, timers, Typed, TypeOK
<1>14. CASE WorkerCheckPolicy \/ WorkerTrySleep \/ StopPairing \/ StopHost
  BY <1>1, <1>14 DEF WorkerCheckPolicy, WorkerTrySleep, StopPairing, StopHost,
                     links, timers, rest, Typed, TypeOK
<1>15. CASE Tick
  <2>1. /\ bleTimer' \in Off .. BleWindow /\ sleepTimer' \in Off .. LongWindow
        /\ idleFor' \in 0 .. LongWindow
    BY <1>2, <1>15 DEF Tick, Typed, TypeOK
  <2>2. snap' = [snap EXCEPT !.ble = Left(snap.ble), !.sleep = Left(snap.sleep)]
    BY <1>15 DEF Tick
  <2>3. /\ Left(snap.ble) \in Off .. BleWindow /\ Left(snap.sleep) \in Off .. LongWindow
    BY DEF Typed, TypeOK
  <2>4. snap' \in [ble : Off .. BleWindow, sleep : Off .. LongWindow, unload : {"asked", "no"}]
    BY <2>2, <2>3 DEF Typed, TypeOK
  <2> QED
    BY <1>1, <1>15, <2>1, <2>4 DEF Tick, links, Typed, TypeOK
<1>16. CASE UNCHANGED vars
  BY <1>1, <1>16 DEF vars, Typed, TypeOK
<1> QED
  BY <1>4, <1>5, <1>6, <1>8, <1>9, <1>10, <1>11, <1>12, <1>13, <1>14, <1>15, <1>16
     DEF Next, PhoneStep, WorkerStep

(* Timers, the snapshot and what the handlers still have to do keep their  *)
(* types (ble_disconnect_power_policy_schedule,                            *)
(* device_mode_ble_shutdown_task).                                         *)
THEOREM TypeCorrect == Spec => []TypeOK
<1>1. Typed => TypeOK
  BY DEF Typed
<1> QED
  BY <1>1, InitTyped, NextTyped, PTL DEF Spec

-----------------------------------------------------------------------------
(* The window                                                              *)

LEMMA PhonesPending ==
  ASSUME Typed, EarlyIsPending, PhoneStep
  PROVE  EarlyIsPending'
<1>1. todo \in [Tasks -> Seq(Steps)] /\ Tasks = {"ble", "usb", "forward", "worker"}
  BY DEF Typed, TypeOK, Tasks
<1>2. sleepTimer' = sleepTimer
  BY DEF PhoneStep, BleLink, BlePair, BleDrop, UsbEnter, UsbExit, UsbQueue, InitHalow,
         SetDeviceType, timers
<1>3. (Arms => Arms') /\ (Asks => Asks')
  <2>1. CASE UNCHANGED todo
    BY <2>1 DEF Arms, Asks
  <2>2. CASE \E t \in Tasks, steps \in Seq(Steps) : todo[t] = <<>> /\ Starts(t, steps)
    BY <1>1, <2>2, StartsWith DEF Arms, Asks
  <2> QED
    BY <2>1, <2>2, PhoneStarts DEF Typed
<1>4. CASE BlePair \/ UsbEnter
  <2>1. PICK t \in {"ble", "usb"} : todo[t] = <<>> /\ Starts(t, ConnectHandler)
    BY <1>4 DEF BlePair, UsbEnter, Free
  <2>2. In(todo'[t], Arming)
    BY <1>1, <2>1, StartsWith, Handlers
  <2> QED
    BY <1>1, <2>2 DEF EarlyIsPending, Arms
<1>5. CASE BleDrop \/ UsbExit
  <2>1. PICK t \in {"ble", "usb"} : todo[t] = <<>> /\ Starts(t, DisconnectHandler)
    BY <1>5 DEF BleDrop, UsbExit, Free
  <2>2. In(todo'[t], {"ifAlone"})
    BY <1>1, <2>1, StartsWith, Handlers
  <2>3. Asks'
    BY <1>1, <2>2 DEF Asks
  <2>4. CASE ~Connected'
    BY <2>3, <2>4 DEF EarlyIsPending
  <2>5. CASE Connected'
    <3>1. Connected /\ idleFor' = idleFor
      BY <1>5, <2>5 DEF BleDrop, UsbExit, Connected
    <3> QED
      BY <1>2, <1>3, <3>1 DEF EarlyIsPending, Early
  <2> QED
    BY <2>4, <2>5
<1>6. CASE BleLink \/ UsbQueue
  BY <1>2, <1>3, <1>6 DEF BleLink, UsbQueue, EarlyIsPending, Early, Connected
<1>7. ASSUME NEW t \in Phones, InitHalow(t) \/ \E type \in {"user", "autonomous"} : SetDeviceType(t, type)
      PROVE  EarlyIsPending'
  BY <1>2, <1>3, <1>7 DEF InitHalow, SetDeviceType, EarlyIsPending, Early, Connected
<1> QED
  BY <1>4, <1>5, <1>6, <1>7 DEF PhoneStep

LEMMA SharedPending ==
  ASSUME Typed, EarlyIsPending, NEW t \in Tasks, SharedStep(t)
  PROVE  EarlyIsPending'
<1>1. todo \in [Tasks -> Seq(Steps)]
  BY DEF Typed, TypeOK
<1>2. ASSUME NEW S, Head(todo[t]) \notin S, NEW u \in Tasks, In(todo[u], S)
      PROVE  In(todo'[u], S)
  BY <1>1, <1>2, SharedContinues, ContinuesTo
<1>3. ASSUME NEW steps \in Seq(Steps), Continues(t, steps), In(steps, Arming)
      PROVE  EarlyIsPending'
  <2>1. In(todo'[t], Arming)
    BY <1>1, <1>3, SharedContinues, ContinuesTo
  <2> QED
    BY <2>1 DEF EarlyIsPending, Arms
<1>4. CASE CancelSleep(t)
  BY <1>4 DEF CancelSleep, EarlyIsPending, Early
<1>5. CASE ArmSleep(t)
  <2>1. sleepTimer' \in {ShortWindow, LongWindow} /\ idleFor' = idleFor
    BY <1>5 DEF ArmSleep, rest
  <2>2. idleFor \in Nat
    BY DEF Typed, TypeOK
  <2>3. \A w \in {ShortWindow, LongWindow} : ~(w + idleFor < ShortWindow)
    BY <2>2, WindowsAssumption
  <2>4. ~(sleepTimer' + idleFor' < ShortWindow)
    BY <2>1, <2>3
  <2> QED
    BY <2>4 DEF EarlyIsPending, Early
<1>6. CASE ScheduleSleep(t)
  <2>1. PICK window \in {<<"scheduleShort", "armShort">>, <<"scheduleLong", "armLong">>} :
          Continues(t, IF SleepsWhenIdle /\ ~Connected THEN <<window[2]>>
                                                       ELSE <<"cancelSleep">>)
    BY <1>6 DEF ScheduleSleep
  <2>2. PICK s \in {"armShort", "armLong", "cancelSleep"} : Continues(t, <<s>>)
    BY <2>1
  <2>3. s \in Steps /\ s \in Arming
    BY DEF Steps, Arming
  <2> QED
    BY <1>3, <2>2, <2>3, Handlers
<1>7. CASE IfAlone(t) /\ ~Connected
  BY <1>3, <1>7, Handlers DEF IfAlone
<1>8. CASE IfAlone(t) /\ Connected
  <2>1. Head(todo[t]) \notin Arming /\ UNCHANGED <<sleepTimer, idleFor>>
    BY <1>8 DEF IfAlone, Runs, Arming, timers, rest
  <2>2. Arms => Arms'
    BY <1>2, <2>1 DEF Arms
  <2> QED
    BY <1>8, <2>1, <2>2 DEF EarlyIsPending, Early
<1>9. CASE CancelBle(t) \/ ClearUnload(t) \/ ApplyType(t) \/ ScheduleBle(t) \/ ArmBle(t)
           \/ AskUnload(t) \/ StartHalow(t)
  <2>1. /\ Head(todo[t]) \notin Arming /\ Head(todo[t]) \notin {"ifAlone"}
        /\ UNCHANGED <<sleepTimer, idleFor, ble, usb>>
    BY <1>9 DEF CancelBle, ClearUnload, ApplyType, ScheduleBle, ArmBle, AskUnload, StartHalow,
                Runs, Arming, timers, rest, links
  <2>2. (Arms => Arms') /\ (Asks => Asks')
    BY <1>2, <2>1 DEF Arms, Asks
  <2> QED
    BY <2>1, <2>2 DEF EarlyIsPending, Early, Connected
<1> QED
  BY <1>4, <1>5, <1>6, <1>7, <1>8, <1>9 DEF SharedStep

LEMMA WorkerPending ==
  ASSUME Typed, EarlyIsPending, WorkerStep
  PROVE  EarlyIsPending'
<1>1. todo \in [Tasks -> Seq(Steps)] /\ "worker" \in Tasks /\ TypeOK
  BY DEF Typed, TypeOK, Tasks
<1>2. /\ UNCHANGED <<sleepTimer, idleFor>> /\ (Connected' => Connected)
  BY DEF WorkerStep, WorkerWake, WorkerCheck, WorkerUnload, WorkerCheckPolicy, WorkerTrySleep,
         StopPairing, StopHost, PowerDown, DeepSleep, links, timers, rest, Connected
<1>3. (Arms => Arms') /\ (Asks => Asks')
  <2>1. CASE WorkerWake
    <3>1. <<"checkAlone">> \in Seq(Steps)
      BY Handlers DEF Steps
    <3> QED
      BY <1>1, <2>1, <3>1, StartsWith DEF WorkerWake, Free, Arms, Asks
  <2>2. CASE WorkerPass
    <3>1. ASSUME NEW S \in {Arming, {"ifAlone"}}, NEW u \in Tasks, In(todo[u], S)
          PROVE  In(todo'[u], S)
      BY <1>1, <2>2, <3>1, WorkerContinues, ContinuesTo
    <3> QED
      BY <3>1 DEF Arms, Asks
  <2> QED
    BY <2>1, <2>2 DEF WorkerStep, WorkerPass
<1>4. Early' => Early
  BY <1>2 DEF Early
<1> QED
  BY <1>2, <1>3, <1>4 DEF EarlyIsPending

LEMMA NextPending == Typed /\ EarlyIsPending /\ [Next]_vars => EarlyIsPending'
<1> SUFFICES ASSUME Typed, EarlyIsPending, [Next]_vars
             PROVE  EarlyIsPending'
  OBVIOUS
<1>1. CASE Tick
  <2>1. /\ sleepTimer \in Off .. LongWindow /\ idleFor \in 0 .. LongWindow
        /\ UNCHANGED <<todo, ble, usb>>
    BY <1>1 DEF Tick, Typed, TypeOK, links
  <2>2. Early' => Early
    BY <1>1, <2>1, WindowsTyped DEF Tick, Early, Left, Off
  <2> QED
    BY <2>1, <2>2 DEF EarlyIsPending, Arms, Asks, Connected
<1>2. CASE UNCHANGED vars
  BY <1>2 DEF vars, EarlyIsPending, Early, Arms, Asks, Connected
<1> QED
  BY <1>1, <1>2, PhonesPending, SharedPending, WorkerPending DEF Next

(* No sleep before its window: between handlers, with no phone connected, a *)
(* pending sleep timer leaves at least the short window counted from the    *)
(* end of the last session (mode_deep_sleep_schedule, note_ble_connected,   *)
(* note_usb_connected).                                                     *)
THEOREM SleepsInTime == Spec => []NoEarlySleep
<1>1. Init => EarlyIsPending
  BY WindowsTyped DEF Init, EarlyIsPending, Early
<1>2. Typed /\ EarlyIsPending => NoEarlySleep
  <2> SUFFICES ASSUME Typed, EarlyIsPending, Settled, sleepTimer # Off
               PROVE  sleepTimer + idleFor >= ShortWindow
    BY DEF NoEarlySleep
  <2>1. ~Arms /\ ~Asks
    BY NothingIn DEF Settled, Arms, Asks
  <2>2. sleepTimer \in Int /\ idleFor \in Int
    BY DEF Typed, TypeOK, Off
  <2> QED
    BY <2>1, <2>2, WindowsTyped DEF EarlyIsPending, Early
<1> QED
  BY <1>1, <1>2, InitTyped, NextTyped, NextPending, PTL DEF Spec
=============================================================================
