--------------------------- MODULE Session_proofs ---------------------------
(***************************************************************************)
(* What is proved of what comes in: mode and bridge of the USB session     *)
(* agree between two frames and no record is cut, for any number of tasks, *)
(* and the sensor data is always of one run.                               *)
(***************************************************************************)
EXTENDS MCSession, FiniteSetTheorems, TLAPS

-----------------------------------------------------------------------------
(* The USB session (UsbSession)                                             *)

(* Mode and bridge, by the point at which the receive task is.             *)
PointOfSession ==
  /\ rx = "idle" => mode # "entering" /\ (noted <=> InSession)
  /\ rx \in {"enter", "pong"} => mode = "entering" /\ ~noted
  /\ rx = "entered" => InSession /\ ~noted
  /\ rx \in {"echo", "echoing", "answer", "answering", "exit", "close"}
       => InSession /\ noted
  /\ rx = "left" => mode = "log" /\ noted

IInv == TypeOK /\ PointOfSession

LEMMA InitIInv == Init => IInv
<1> SUFFICES ASSUME Init PROVE IInv
  OBVIOUS
<1>1. LockHeld
  BY UsbSessionAssumption DEF Init, LockHeld
<1>2. strays \in [records : Nat, lines : Nat]
  BY DEF Init
<1>3. PointOfSession
  BY DEF Init, PointOfSession, InSession
<1>4. TypeOK
  BY <1>1, <1>2 DEF Init, TypeOK, RxStates
<1> QED
  BY <1>3, <1>4 DEF IInv

LEMMA HostIInv == IInv /\ Host => IInv'
<1> SUFFICES ASSUME IInv, Host PROVE IInv'
  OBVIOUS
<1> USE DEF IInv, TypeOK, LockHeld, PointOfSession, InSession, RxStates, bounds, ghosts
<1>a. ASSUME Request
      PROVE  rx = "idle" /\ lock # "rx" /\ requests' \in Nat /\ silent' \in BOOLEAN
  <2>1. rx = "idle" /\ silent' = FALSE
    BY <1>a DEF Request
  <2>2. requests' \in Nat
    BY <1>a DEF Request
  <2>3. lock # "rx"
    BY <2>1
  <2> QED
    BY <2>1, <2>2, <2>3, Zenon
<1>1. CASE Ping
  <2>1. rx = "idle" /\ lock # "rx" /\ requests' \in Nat /\ silent' \in BOOLEAN
    BY <1>1, <1>a DEF Ping
  <2>2. UNCHANGED <<lock, writer, logger, todo, noted, strays, ended, records, texts>>
        /\ answered' \in BOOLEAN
    BY <1>1 DEF Ping
  <2>3. CASE InSession /\ rx' = "echo" /\ UNCHANGED <<mode, begun>>
    <3>1. TypeOK'
      BY <2>1, <2>2, <2>3
    <3>2. PointOfSession'
      BY <2>1, <2>2, <2>3
    <3> QED
      BY <3>1, <3>2
  <2>4. CASE mode = "log" /\ mode' = "entering" /\ rx' = "enter" /\ begun' = begun + 1
    <3>1. TypeOK'
      BY <2>1, <2>2, <2>4
    <3>2. PointOfSession'
      BY <2>1, <2>2, <2>4
    <3> QED
      BY <3>1, <3>2
  <2> QED
    BY <1>1, <2>3, <2>4 DEF Ping
<1>2. CASE Frame
  <2>1. rx = "idle" /\ requests' \in Nat /\ silent' \in BOOLEAN
    BY <1>2, <1>a DEF Frame
  <2>2. todo' \in [Writers -> Nat] /\ records' \in Nat
    BY <1>2 DEF Frame
  <2>3. UNCHANGED <<mode, lock, rx, writer, logger, noted, ghosts, texts>>
    BY <1>2 DEF Frame
  <2>4. TypeOK'
    BY <2>1, <2>2, <2>3
  <2>5. PointOfSession'
    BY <2>3
  <2> QED
    BY <2>4, <2>5
<1>3. CASE Exit
  <2>1. rx = "idle" /\ lock # "rx" /\ requests' \in Nat /\ silent' \in BOOLEAN
    BY <1>3, <1>a DEF Exit
  <2>2. UNCHANGED <<mode, lock, writer, logger, todo, noted, ghosts, records, texts>>
    BY <1>3 DEF Exit
  <2>3. (InSession /\ rx' = "answer") \/ rx' = "idle"
    BY <1>3 DEF Exit
  <2>4. TypeOK'
    BY <2>1, <2>2, <2>3
  <2>5. PointOfSession'
    BY <2>1, <2>2, <2>3
  <2> QED
    BY <2>4, <2>5
<1>4. CASE FallSilent
  BY <1>4 DEF FallSilent
<1> QED
  BY <1>1, <1>2, <1>3, <1>4 DEF Host

LEMMA RxStepIInv == IInv /\ RxStep => IInv'
<1> SUFFICES ASSUME IInv, RxStep PROVE IInv'
  OBVIOUS
<1> USE UsbSessionAssumption
    DEF IInv, TypeOK, LockHeld, PointOfSession, InSession, RxStates, bounds, ghosts,
        RxGoes, Acquire, Held, rxKept, rxLocal
<1>1. CASE ActivityTimeout
  BY <1>1 DEF ActivityTimeout
<1>2. CASE TakeForPong
  BY <1>2 DEF TakeForPong
<1>3. CASE Pong
  BY <1>3 DEF Pong
<1>4. CASE NoteEntered
  BY <1>4 DEF NoteEntered
<1>5. CASE TakeForAnswer
  BY <1>5 DEF TakeForAnswer, AfterAnswer, Answering
<1>6. CASE Answer
  BY <1>6 DEF Answer
<1>7. CASE TakeForExit
  BY <1>7 DEF TakeForExit
<1>8. CASE Close
  BY <1>8 DEF Close
<1>9. CASE NoteLeft
  BY <1>9 DEF NoteLeft
<1> QED
  BY <1>1, <1>2, <1>3, <1>4, <1>5, <1>6, <1>7, <1>8, <1>9 DEF RxStep

LEMMA WriterIInv ==
  ASSUME IInv, NEW w \in Writers, Submit(w) \/ WriterStep(w)
  PROVE  IInv'
<1> USE UsbSessionAssumption
    DEF IInv, TypeOK, LockHeld, PointOfSession, InSession, RxStates, bounds, ghosts,
        WriterGoes, Acquire, Held, writerLocal
<1>1. CASE Submit(w)
  BY <1>1 DEF Submit
<1>2. CASE Look(w)
  BY <1>2 DEF Look
<1>3. CASE TakeForWrite(w)
  BY <1>3 DEF TakeForWrite
<1>4. CASE Write(w)
  BY <1>4 DEF Write
<1> QED
  BY <1>1, <1>2, <1>3, <1>4 DEF WriterStep

LEMMA LoggerIInv ==
  ASSUME IInv, NEW g \in Loggers, LoggerStep(g)
  PROVE  IInv'
<1> USE DEF IInv, TypeOK, LockHeld, PointOfSession, InSession, RxStates, bounds, ghosts,
            LoggerGoes
<1>1. CASE LogLook(g)
  BY <1>1 DEF LogLook
<1>2. CASE LogPrint(g)
  BY <1>2 DEF LogPrint
<1> QED
  BY <1>1, <1>2 DEF LoggerStep

LEMMA NextIInv == IInv /\ [Next]_vars => IInv'
<1>1. IInv /\ UNCHANGED vars => IInv'
  BY DEF IInv, TypeOK, LockHeld, PointOfSession, InSession, vars, ghosts, bounds
<1> QED
  BY <1>1, HostIInv, RxStepIInv, WriterIInv, LoggerIInv DEF Next

LEMMA AlwaysIInv == Spec => []IInv
  BY InitIInv, NextIInv, PTL DEF Spec

(* The lock is held by the task that writes, by one at a time.             *)
THEOREM TypeCorrect == Spec => []TypeOK
<1>1. IInv => TypeOK
  BY DEF IInv
<1> QED
  BY <1>1, AlwaysIInv, PTL

(* Between two frames of the host the bridge knows whether there is a      *)
(* session, whatever timed out on the way.                                 *)
THEOREM NotedIsTheMode == Spec => []NotedIsMode
<1>1. IInv => NotedIsMode
  BY DEF IInv, PointOfSession, NotedIsMode
<1> QED
  BY <1>1, AlwaysIInv, PTL

(* The mode changes only while no other task is within a record.           *)
THEOREM SessionsCutNone == Spec => SessionsCutNoRecord
<1>1. IInv /\ [Next]_vars =>
        [mode # mode' /\ "control" \in {mode, mode'}
           => \A w \in Writers : writer[w] # "write"]_vars
  <2> SUFFICES ASSUME IInv, Next, mode # mode', "control" \in {mode, mode'},
                      NEW w \in Writers
               PROVE  writer[w] # "write"
    BY DEF IInv
  <2>1. Pong \/ Close \/ TakeForPong \/ Ping
    BY DEF Next, Host, RxStep, WriterStep, LoggerStep, Frame, Exit, FallSilent,
           ActivityTimeout, NoteEntered, TakeForAnswer, Answer, TakeForExit, NoteLeft,
           Submit, Look, TakeForWrite, Write, LogLook, LogPrint, writerLocal
  <2>2. CASE Ping \/ TakeForPong
    BY <2>2 DEF Ping, TakeForPong, InSession, IInv, PointOfSession, RxGoes
  <2>3. CASE Pong \/ Close
    BY <2>3, UsbSessionAssumption DEF Pong, Close, RxGoes, IInv, TypeOK, LockHeld
  <2> QED
    BY <2>1, <2>2, <2>3
<1> QED
  BY <1>1, AlwaysIInv, PTL DEF Spec, SessionsCutNoRecord

-----------------------------------------------------------------------------
(* What outlives a session *)

Busy == {w \in Writers : writer[w] # "idle"}
Printing == {g \in Loggers : logger[g] = "print"}

\* Outside a session every busy writer may still send one record in the
\* wrong mode; once a handshake began, every printing task one line.
StrayInv ==
  /\ strays.records + (IF InSession THEN 0 ELSE Cardinality(Busy))
       <= Cardinality(Writers) * ended
  /\ strays.lines + (IF mode = "log" THEN 0 ELSE Cardinality(Printing))
       <= Cardinality(Loggers) * begun

LEMMA Counts ==
  /\ Cardinality(Writers) \in Nat /\ Cardinality(Loggers) \in Nat
  /\ IsFiniteSet(Busy) /\ Cardinality(Busy) \in Nat
  /\ Cardinality(Busy) <= Cardinality(Writers)
  /\ IsFiniteSet(Printing) /\ Cardinality(Printing) \in Nat
  /\ Cardinality(Printing) <= Cardinality(Loggers)
<1>1. Busy \subseteq Writers /\ Printing \subseteq Loggers
  BY DEF Busy, Printing
<1>2. IsFiniteSet(Writers) /\ IsFiniteSet(Loggers)
  BY UsbSessionAssumption
<1> QED
  BY <1>1, <1>2, FS_Subset, FS_CardinalityType

LEMMA OneMoreSession ==
  ASSUME NEW n \in Nat, NEW k \in Nat
  PROVE  n * (k + 1) = n * k + n /\ n * k \in Nat
  OBVIOUS

LEMMA InitStrayInv == Init => StrayInv
<1> SUFFICES ASSUME Init PROVE StrayInv
  OBVIOUS
<1>1. Busy = {} /\ Printing = {} /\ Cardinality({}) = 0
  BY FS_EmptySet DEF Init, Busy, Printing
<1>2. \A n \in Nat : n * 0 = 0
  OBVIOUS
<1> QED
  BY <1>1, <1>2, Counts DEF Init, StrayInv

LEMMA NextStrayInv == IInv /\ StrayInv /\ [Next]_vars => StrayInv'
<1> SUFFICES ASSUME IInv, StrayInv, [Next]_vars PROVE StrayInv'
  OBVIOUS
<1> DEFINE W == Cardinality(Writers)
           G == Cardinality(Loggers)
           B == Cardinality(Busy)
           P == Cardinality(Printing)
<1>a. /\ strays.records \in Nat /\ strays.lines \in Nat /\ begun \in Nat /\ ended \in Nat
      /\ strays \in [records : Nat, lines : Nat]
  BY DEF IInv, TypeOK
<1>b. W \in Nat /\ G \in Nat /\ B \in Nat /\ P \in Nat /\ B <= W /\ P <= G
  BY Counts
<1>c. W * ended \in Nat /\ G * begun \in Nat
      /\ W * (ended + 1) = W * ended + W /\ G * (begun + 1) = G * begun + G
  BY <1>a, <1>b, OneMoreSession
\* Steps that touch neither tasks nor counts, and leave both modes as good.
<1>1. ASSUME UNCHANGED <<writer, logger, strays, begun, ended>>,
             InSession => InSession', mode = "log" => mode' = "log"
      PROVE  StrayInv'
  BY <1>1, <1>a, <1>b, <1>c DEF StrayInv, Busy, Printing
<1>2. CASE Ping
  <2>1. UNCHANGED <<writer, logger, strays, ended>>
    BY <1>2 DEF Ping
  <2>2. CASE UNCHANGED <<mode, begun>>
    BY <2>1, <2>2, <1>1 DEF InSession
  <2>3. CASE mode = "log" /\ mode' = "entering" /\ begun' = begun + 1
    BY <2>1, <2>3, <1>a, <1>b, <1>c DEF StrayInv, Busy, Printing, InSession
  <2> QED
    BY <1>2, <2>2, <2>3 DEF Ping
<1>3. CASE Frame \/ Exit \/ FallSilent \/ ActivityTimeout \/ NoteEntered
           \/ TakeForAnswer \/ Answer \/ TakeForExit \/ NoteLeft
  <2>1. UNCHANGED <<writer, logger, strays, begun, ended, mode>>
    BY <1>3 DEF Frame, Exit, FallSilent, ActivityTimeout, NoteEntered, TakeForAnswer,
                Answer, TakeForExit, NoteLeft, rxKept, rxLocal, ghosts
  <2> QED
    BY <2>1, <1>1 DEF InSession
<1>4. CASE TakeForPong \/ Pong
  <2>1. UNCHANGED <<writer, logger, strays, begun, ended>> /\ rx \in {"enter", "pong"}
    BY <1>4 DEF TakeForPong, Pong, RxGoes, rxKept, rxLocal
  <2>2. mode = "entering"
    BY <2>1 DEF IInv, PointOfSession
  <2> QED
    BY <2>1, <2>2, <1>1 DEF InSession
<1>5. CASE Close
  <2>1. /\ UNCHANGED <<writer, logger, strays, begun>>
        /\ mode' = "log" /\ ended' = ended + 1 /\ rx = "close"
    BY <1>5 DEF Close, RxGoes, rxLocal
  <2>2. InSession
    BY <2>1 DEF IInv, PointOfSession
  <2> QED
    BY <2>1, <2>2, <1>a, <1>b, <1>c DEF StrayInv, Busy, Printing, InSession
<1>6. ASSUME NEW w \in Writers, Submit(w)
      PROVE  StrayInv'
  BY <1>6, <1>1 DEF Submit, InSession, ghosts
<1>7. ASSUME NEW w \in Writers, Look(w) \/ TakeForWrite(w)
      PROVE  StrayInv'
  <2>1. UNCHANGED <<mode, logger, strays, begun, ended>>
    BY <1>7 DEF Look, TakeForWrite, writerLocal
  <2>2. ~InSession => Busy' \subseteq Busy
    BY <1>7 DEF Look, TakeForWrite, Busy, WriterGoes, IInv, TypeOK
  <2>3. ~InSession => Cardinality(Busy') <= B
    BY <2>2, Counts, FS_Subset
  <2>4. Cardinality(Busy') \in Nat
    <3>1. Busy' \subseteq Writers
      BY DEF Busy
    <3> QED
      BY <3>1, UsbSessionAssumption, FS_Subset, FS_CardinalityType
  <2> QED
    BY <2>1, <2>3, <2>4, <1>a, <1>b, <1>c DEF StrayInv, Printing, InSession
<1>8. ASSUME NEW w \in Writers, Write(w)
      PROVE  StrayInv'
  <2>1. UNCHANGED <<mode, logger, begun, ended>>
    BY <1>8 DEF Write, writerLocal
  <2>2. Busy' = Busy \ {w} /\ w \in Busy
    BY <1>8 DEF Write, Busy, WriterGoes, IInv, TypeOK
  <2>3. Cardinality(Busy') = B - 1
    BY <2>2, Counts, FS_RemoveElement
  <2>4. /\ strays'.records = IF InSession THEN strays.records ELSE strays.records + 1
        /\ strays'.lines = strays.lines
    BY <1>8, <1>a DEF Write
  <2> QED
    BY <2>1, <2>3, <2>4, <1>a, <1>b, <1>c DEF StrayInv, Printing, InSession
<1>9. ASSUME NEW g \in Loggers, LogLook(g)
      PROVE  StrayInv'
  <2>1. UNCHANGED <<mode, writer, strays, begun, ended>> /\ mode = "log"
    BY <1>9 DEF LogLook, ghosts
  <2> QED
    BY <2>1, <1>a, <1>b, <1>c DEF StrayInv, Busy, InSession
<1>10. ASSUME NEW g \in Loggers, LogPrint(g)
       PROVE  StrayInv'
  <2>1. UNCHANGED <<mode, writer, begun, ended>>
    BY <1>10 DEF LogPrint
  <2>2. Printing' = Printing \ {g} /\ g \in Printing
    BY <1>10 DEF LogPrint, Printing, LoggerGoes, IInv, TypeOK
  <2>3. Cardinality(Printing') = P - 1
    BY <2>2, Counts, FS_RemoveElement
  <2>4. /\ strays'.lines = IF mode = "log" THEN strays.lines ELSE strays.lines + 1
        /\ strays'.records = strays.records
    BY <1>10, <1>a DEF LogPrint
  <2> QED
    BY <2>1, <2>3, <2>4, <1>a, <1>b, <1>c DEF StrayInv, Busy, InSession
<1>11. CASE UNCHANGED vars
  BY <1>11, <1>1 DEF vars, ghosts, InSession
<1> QED
  BY <1>2, <1>3, <1>4, <1>5, <1>6, <1>7, <1>8, <1>9, <1>10, <1>11
     DEF Next, Host, RxStep, WriterStep, LoggerStep

(* At most one record of each writer outlives each session, and one line   *)
(* of each logging task reaches the line after each handshake began.       *)
THEOREM StraysAreBounded == Spec => []StraysBounded
<1>1. IInv /\ StrayInv => StraysBounded
  BY Counts, OneMoreSession DEF IInv, TypeOK, StrayInv, StraysBounded
<1> QED
  BY <1>1, AlwaysIInv, InitStrayInv, NextStrayInv, PTL DEF Spec

(* Bridge, mode and line agree: the bridge knows of every session, and     *)
(* little is written in the wrong mode.                                    *)
THEOREM SessionAlwaysAgrees == Spec => []SessionAgrees
<1>1. IInv /\ StrayInv => SessionAgrees
  BY Counts, OneMoreSession
     DEF IInv, PointOfSession, NotedIsMode, TypeOK, StrayInv, StraysBounded, SessionAgrees
<1> QED
  BY <1>1, AlwaysIInv, InitStrayInv, NextStrayInv, PTL DEF Spec

-----------------------------------------------------------------------------
(* The sensor data (Sampling).  From its begin to its end a run is active   *)
(* and what is pending stems from it.                                       *)

RunPoints == {"collect", "build", "flag", "run", "take", "execute"}

PendingIsOneRun ==
  /\ sampler.at \in {"off", "wait", "report"} \cup RunPoints
  /\ run \in 1 .. 2
  /\ pending \in [Fields -> {0, 1, 2}]
  /\ sampler.at \in RunPoints => active = TRUE /\ \A f \in Fields : pending[f] \in {0, run}

WholeOrNone ==
  data' # data => /\ active /\ ~active'
                  /\ \A f \in Fields : data'[f] \in {0, run}

LEMMA AtGoes ==
  ASSUME NEW where, Sampler!SamplerGoes(where)
  PROVE  sampler'.at = where
BY DEF Sampler!SamplerGoes, Sampler!At

LEMMA SamplingInit == Sampler!Init => PendingIsOneRun
BY DEF Sampler!Init, PendingIsOneRun, Sampler!At, Sampler!NoData, RunPoints

LEMMA SamplingStep ==
  ASSUME PendingIsOneRun, [Sampler!Next]_(Sampler!vars)
  PROVE  PendingIsOneRun' /\ WholeOrNone
<1>1. ASSUME UNCHANGED <<sampler, run, active, pending, data>>
      PROVE  PendingIsOneRun' /\ WholeOrNone
  BY <1>1 DEF PendingIsOneRun, WholeOrNone
<1>2. ASSUME UNCHANGED <<run, active, pending, data>>,
             sampler'.at \in {"off", "wait", "report"}
             \/ (sampler.at \in RunPoints /\ sampler'.at \in RunPoints)
      PROVE  PendingIsOneRun' /\ WholeOrNone
  BY <1>2 DEF PendingIsOneRun, WholeOrNone, RunPoints
<1>3. ASSUME NEW f \in Fields, Sampler!Record(f)
      PROVE  PendingIsOneRun' /\ WholeOrNone
  <2>1. sampler.at = "execute" /\ active = TRUE
    BY <1>3 DEF Sampler!Record, PendingIsOneRun, RunPoints
  <2>2. UNCHANGED <<sampler, run, active, data>>
    BY <1>3, <2>1 DEF Sampler!Record
  <2>3. pending' = pending \/ pending' = [pending EXCEPT ![f] = run]
    BY <1>3 DEF Sampler!Record, Sampler!Field
  <2>4. pending' \in [Fields -> {0, 1, 2}] /\ \A g \in Fields : pending'[g] \in {0, run}
    <3>1. pending \in [Fields -> {0, 1, 2}] /\ run \in {1, 2}
          /\ \A g \in Fields : pending[g] \in {0, run}
      BY <2>1 DEF PendingIsOneRun, RunPoints
    <3> QED
      BY <2>3, <3>1
  <2> QED
    BY <2>1, <2>2, <2>4 DEF PendingIsOneRun, WholeOrNone
<1>4. CASE Sampler!Begin
  <2>1. sampler'.at \in {"report", "run", "collect"}
    BY <1>4, AtGoes DEF Sampler!Begin, Sampler!First
  <2>2. pending' = [f \in Fields |-> 0] /\ active' = TRUE /\ UNCHANGED <<run, data>>
    BY <1>4 DEF Sampler!Begin, Sampler!Cleared, Sampler!NoData
  <2> QED
    BY <2>1, <2>2 DEF PendingIsOneRun, WholeOrNone, RunPoints
<1>5. ASSUME NEW ok \in BOOLEAN, Sampler!Executed(ok)
      PROVE  PendingIsOneRun' /\ WholeOrNone
  <2>1. sampler.at = "execute" /\ sampler'.at = "report"
    BY <1>5, AtGoes DEF Sampler!Executed
  <2>2. active' = FALSE /\ UNCHANGED <<run, pending>> /\ data' \in {pending, data}
    BY <1>5 DEF Sampler!Executed, Sampler!Keeps
  <2> QED
    BY <2>1, <2>2 DEF PendingIsOneRun, WholeOrNone, RunPoints
<1>6. CASE Sampler!Report
  <2>1. sampler'.at = "wait" /\ run' = 3 - run /\ UNCHANGED <<pending, data>>
    BY <1>6, AtGoes DEF Sampler!Report
  <2>2. run' \in 1 .. 2
    BY <2>1 DEF PendingIsOneRun
  <2> QED
    BY <2>1, <2>2 DEF PendingIsOneRun, WholeOrNone, RunPoints
<1>7. CASE Sampler!World \/ Sampler!IsDue \/ Sampler!Setter \/ Sampler!Skip
           \/ Sampler!LocksElsewhere \/ Sampler!FreesElsewhere
  BY <1>1, <1>7 DEF Sampler!World, Sampler!IsDue, Sampler!Setter, Sampler!Skip, Sampler!Select,
       Sampler!Commit, Sampler!Collect, Sampler!Build, Sampler!Flag, Sampler!data,
       Sampler!LocksElsewhere, Sampler!FreesElsewhere, Sampler!Moves
<1>8. CASE Sampler!Launch \/ Sampler!NoBuffers
  <2>1. sampler'.at \in {"wait", "report"} /\ UNCHANGED <<run, active, pending, data>>
    BY <1>8, AtGoes DEF Sampler!Launch, Sampler!NoBuffers, Sampler!data
  <2> QED
    BY <1>2, <2>1
<1>9. CASE Sampler!CollectAgain \/ Sampler!BuildAgain \/ Sampler!FlagAgain
           \/ Sampler!Check \/ Sampler!Execute
  <2>1. sampler.at \in RunPoints /\ UNCHANGED <<run, active, pending, data>>
    BY <1>9 DEF Sampler!CollectAgain, Sampler!BuildAgain, Sampler!FlagAgain, Sampler!Check,
                Sampler!Execute, Sampler!data, RunPoints
  <2>2. sampler'.at \in RunPoints \cup {"report"}
    <3>1. CASE Sampler!FlagAgain \/ Sampler!Check
      BY <3>1, AtGoes DEF Sampler!FlagAgain, Sampler!Check, RunPoints
    <3>2. CASE Sampler!CollectAgain
      BY <3>2 DEF Sampler!CollectAgain, Sampler!At, RunPoints
    <3>3. CASE Sampler!BuildAgain
      BY <3>3 DEF Sampler!BuildAgain, Sampler!At, RunPoints
    <3>4. CASE Sampler!Execute
      BY <3>4 DEF Sampler!Execute, Sampler!At, RunPoints
    <3> QED
      BY <1>9, <3>1, <3>2, <3>3, <3>4
  <2> QED
    BY <1>2, <2>1, <2>2
<1>10. CASE UNCHANGED Sampler!vars
  BY <1>1, <1>10 DEF Sampler!vars, Sampler!data
<1> QED
  BY <1>3, <1>4, <1>5, <1>6, <1>7, <1>8, <1>9, <1>10 DEF Sampler!Next, Sampler!Sampler

(* The sensor data the beacon sends changes only when a run ends, and then  *)
(* as a whole, for any scripts and fields and whoever rebuilds the cache     *)
(* meanwhile: sample_begin_sensor_data_update clears what is pending and     *)
(* only the end of the run shows it.                                        *)
THEOREM DataIsOneRun == Sampler!Spec => LatestIsOneRun
<1>1. PendingIsOneRun /\ [Sampler!Next]_(Sampler!vars) => PendingIsOneRun'
  BY SamplingStep
<1>2. PendingIsOneRun /\ [Sampler!Next]_(Sampler!vars) =>
        [data' # data => /\ active /\ ~active'
                         /\ \A f \in Fields : data'[f] \in {0, run}]_(Sampler!vars)
  BY SamplingStep DEF WholeOrNone
<1> QED
  BY SamplingInit, <1>1, <1>2, PTL DEF Sampler!Spec, LatestIsOneRun, Sampler!LatestIsOneRun
=============================================================================
