---------------------------- MODULE Talk_proofs -----------------------------
(***************************************************************************)
(* What is proved of what phones and devices say to each other: the tables *)
(* of the reliable delivery are well formed, nothing is acknowledged that  *)
(* was not handed over, a loss is reported for a reason, the effort is     *)
(* bounded and a submission reaches the phone once; what two devices say   *)
(* reaches whom it is for and is acknowledged by whom it should be; and    *)
(* every request of a phone is answered once, to its own phone and in      *)
(* order, for any numbers of nodes, channels, frames, requests and reports.*)
(***************************************************************************)
EXTENDS MCTalk, SequenceTheorems, FiniteSetTheorems, TLAPS

-----------------------------------------------------------------------------
(* The conversation of two nodes (Conversation).  What is held for a retry   *)
(* is a text to one node; a number is given to one message, and only its     *)
(* acknowledgements have it too.                                            *)

AloftIsKnown ==
  /\ says \in Nat
  /\ \A m \in aloft : m.id \in Nat /\ m.id <= says
  /\ \A m \in aloft : m.kind \in Chat!Spoken => m.open

HeldIsSingle ==
  \A m \in stored : m.kind = "text" /\ ~Chat!Crowd(m.to)

HeardWasSent == \A t \in heardBy : t.packet \in aloft

ChatInv ==
  /\ AloftIsKnown /\ HeldIsSingle /\ HeardWasSent
  /\ Chat!HeardAsAddressed /\ Chat!AcksMatchRetries

LEMMA ChatInit == Chat!Init => ChatInv
BY DEF Chat!Init, ChatInv, AloftIsKnown, HeldIsSingle, HeardWasSent, Chat!HeardAsAddressed,
       Chat!AcksMatchRetries

(* A new message has a number of its own, and is open to its sender.        *)
LEMMA MessageGoesOut ==
  ASSUME ChatInv, NEW n, NEW kind, NEW to,
         Chat!Transmits(n, kind, to), kind # "ack",
         kind \in Chat!Spoken /\ to \in Channels => to \in enabled[n],
         UNCHANGED heardBy,
         \/ UNCHANGED stored
         \/ /\ stored' = stored \cup {Chat!Packet(n, kind, to)}
            /\ kind = "text" /\ ~Chat!Crowd(to)
  PROVE  ChatInv'
<1> DEFINE m == Chat!Packet(n, kind, to)
<1>t. /\ AloftIsKnown /\ HeldIsSingle /\ HeardWasSent
      /\ Chat!HeardAsAddressed /\ Chat!AcksMatchRetries
  BY DEF ChatInv
<1>1. /\ m.id = says + 1 /\ m.kind = kind /\ m.to = to
      /\ m.kind \in Chat!Spoken => m.open
  BY DEF Chat!Packet
<1>2. says' = says + 1 /\ aloft' = aloft \cup {m}
  BY DEF Chat!Transmits
<1> HIDE DEF m
<1>3. AloftIsKnown'
  BY <1>t, <1>1, <1>2 DEF AloftIsKnown
<1>4. HeldIsSingle'
  BY <1>t, <1>1 DEF HeldIsSingle, m
<1>5. HeardWasSent'
  BY <1>t, <1>2 DEF HeardWasSent
<1>6. Chat!HeardAsAddressed'
  BY <1>t DEF Chat!HeardAsAddressed
<1>7. \A t \in heardBy : t.packet # m
  BY <1>t, <1>1 DEF HeardWasSent, AloftIsKnown
<1>8. Chat!AcksMatchRetries'
  <2>1. \A s \in stored', t \in heardBy' :
          t.packet = s /\ t.node \notin Headless => Chat!AckOf(t.node, s) \in aloft'
    BY <1>t, <1>2, <1>7 DEF Chat!AcksMatchRetries, m
  <2>2. \A a \in aloft' : a.kind = "ack" =>
          \E s \in aloft' : Chat!AckOf(a.from, s) = a /\ ~Chat!Crowd(s.to) /\ s.kind = "text"
    BY <1>t, <1>1, <1>2 DEF Chat!AcksMatchRetries
  <2> QED
    BY <2>1, <2>2 DEF Chat!AcksMatchRetries
<1> QED
  BY <1>3, <1>4, <1>5, <1>6, <1>8 DEF ChatInv

(* Hearing a held text puts its acknowledgement on the air.                 *)
LEMMA MessageHeard ==
  ASSUME ChatInv, NEW n \in Nodes, NEW m \in aloft, Chat!Hear(n, m)
  PROVE  ChatInv'
<1> DEFINE ack == Chat!AckOf(n, m)
           note == [node |-> n, packet |-> m, open |-> m.to \in Channels => m.to \in enabled[n]]
<1>t. /\ AloftIsKnown /\ HeldIsSingle /\ HeardWasSent
      /\ Chat!HeardAsAddressed /\ Chat!AcksMatchRetries
  BY DEF ChatInv
<1>1. UNCHANGED says /\ stored' \subseteq stored
  BY DEF Chat!Hear
<1>2. \/ Chat!Acks(n, m) /\ aloft' = aloft \cup {ack}
      \/ ~Chat!Acks(n, m) /\ aloft' = aloft
  BY DEF Chat!Hear
<1>3. \/ Chat!Tells(n, m) /\ heardBy' = heardBy \cup {note}
      \/ heardBy' = heardBy
  BY DEF Chat!Hear
<1>4. /\ ack.id = m.id /\ ack.kind = "ack" /\ ack.from = n /\ ack.open = TRUE
      /\ note.node = n /\ note.packet = m
  BY DEF Chat!AckOf
<1>5. AloftIsKnown'
  <2>1. "ack" \notin Chat!Spoken
    BY DEF Chat!Spoken, Chat!Exchange
  <2> HIDE DEF ack
  <2> QED
    BY <1>t, <1>1, <1>2, <1>4, <2>1 DEF AloftIsKnown
<1>6. HeldIsSingle'
  BY <1>t, <1>1 DEF HeldIsSingle
<1>7. HeardWasSent'
  BY <1>t, <1>2, <1>3, <1>4 DEF HeardWasSent
<1>8. Chat!HeardAsAddressed'
  <2>1. ASSUME Chat!Tells(n, m), heardBy' = heardBy \cup {note}
        PROVE  Chat!HeardAsAddressed'
    <3>1. ~Chat!Crowd(m.to) => n = Chat!Terminal(m.to)
      BY DEF Chat!Hear, Chat!Reaches
    <3>2. m.kind \in Chat!Spoken => m.open
      BY <1>t DEF AloftIsKnown
    <3>3. m.kind # "raw" => note.open
      BY <2>1 DEF Chat!Tells, Chat!Suppressed
    <3> HIDE DEF note
    <3> QED
      BY <1>t, <1>4, <2>1, <3>1, <3>2, <3>3 DEF Chat!HeardAsAddressed
  <2> QED
    BY <1>t, <1>3, <2>1 DEF Chat!HeardAsAddressed
<1>9. Chat!Acks(n, m) <=> /\ m.kind = "text" /\ ~Chat!Crowd(m.to) /\ n \notin Headless
  BY DEF Chat!Acks, Chat!Single, Chat!Spoken, Chat!Exchange
<1>10. Chat!AcksMatchRetries'
  <2>1. ASSUME NEW s \in stored', NEW t \in heardBy', t.packet = s, t.node \notin Headless
        PROVE  Chat!AckOf(t.node, s) \in aloft'
    <3>1. s \in stored /\ s.kind = "text" /\ ~Chat!Crowd(s.to)
      BY <1>t, <1>1 DEF HeldIsSingle
    <3>2. CASE t \in heardBy
      BY <1>t, <1>2, <2>1, <3>1, <3>2 DEF Chat!AcksMatchRetries
    <3>3. CASE t = note
      BY <1>2, <1>4, <1>9, <2>1, <3>1, <3>3
    <3> QED
      BY <1>3, <3>2, <3>3
  <2>2. ASSUME NEW a \in aloft', a.kind = "ack"
        PROVE  \E s \in aloft' :
                 Chat!AckOf(a.from, s) = a /\ ~Chat!Crowd(s.to) /\ s.kind = "text"
    <3>1. CASE a \in aloft
      BY <1>t, <1>2, <2>2, <3>1 DEF Chat!AcksMatchRetries
    <3>2. CASE a = ack /\ Chat!Acks(n, m)
      BY <1>2, <1>4, <1>9, <3>2
    <3> QED
      BY <1>2, <3>1, <3>2
  <2> QED
    BY <2>1, <2>2 DEF Chat!AcksMatchRetries
<1> QED
  BY <1>5, <1>6, <1>7, <1>8, <1>10 DEF ChatInv

LEMMA ChatStep ==
  ASSUME ChatInv, [Chat!Next]_(Chat!vars)
  PROVE  ChatInv'
<1>1. ASSUME NEW n \in Nodes, NEW via, NEW kind \in Chat!FromPhone, NEW to \in Chat!Targets,
             Chat!Say(n, via, kind, to)
      PROVE  ChatInv'
  <2>1. kind \in {"text", "call", "request", "chunk", "receipt"}
    BY DEF Chat!FromPhone, Chat!Spoken, Chat!Exchange
  <2>2. kind \in Chat!Spoken /\ to \in Channels => to \in enabled[n]
    BY <1>1, <2>1 DEF Chat!Say, Chat!Accepts, Chat!Spoken, Chat!Exchange
  <2>3. \/ UNCHANGED stored
        \/ /\ stored' = stored \cup {Chat!Packet(n, kind, to)}
           /\ kind = "text" /\ ~Chat!Crowd(to)
    BY <1>1, <2>1 DEF Chat!Say, Chat!Single, Chat!Spoken, Chat!Exchange
  <2>4. Chat!Transmits(n, kind, to) /\ UNCHANGED heardBy
    BY <1>1 DEF Chat!Say
  <2> QED
    BY <2>1, <2>2, <2>3, <2>4, MessageGoesOut
<1>2. ASSUME NEW n \in Nodes, NEW to, NEW kind \in {"raw", "report", "opaque"},
             Chat!Transmits(n, kind, to), UNCHANGED <<stored, heardBy>>
      PROVE  ChatInv'
  <2>1. kind \notin Chat!Spoken
    BY DEF Chat!Spoken, Chat!Exchange
  <2> QED
    BY <1>2, <2>1, MessageGoesOut
<1>3. ASSUME NEW m \in stored, Chat!GiveUp(m) PROVE ChatInv'
  <2>1. UNCHANGED <<aloft, heardBy, says>> /\ stored' \subseteq stored
    BY <1>3 DEF Chat!GiveUp
  <2> QED
    BY <2>1 DEF ChatInv, AloftIsKnown, HeldIsSingle, HeardWasSent, Chat!HeardAsAddressed,
                Chat!AcksMatchRetries
<1>4. ASSUME UNCHANGED <<aloft, stored, heardBy, says>> PROVE ChatInv'
  BY <1>4 DEF ChatInv, AloftIsKnown, HeldIsSingle, HeardWasSent, Chat!HeardAsAddressed,
              Chat!AcksMatchRetries
<1>5. ASSUME NEW n \in Nodes, Chat!RadioChanges(n) PROVE ChatInv'
  BY <1>4, <1>5 DEF Chat!RadioChanges
<1>6. ASSUME NEW n \in Nodes, NEW channels, Chat!Subscribe(n, channels) PROVE ChatInv'
  BY <1>4, <1>6 DEF Chat!Subscribe
<1>7. CASE UNCHANGED Chat!vars
  BY <1>4, <1>7 DEF Chat!vars
<1>8. ASSUME NEW n \in Nodes, NEW to, Chat!SayRaw(n, to) \/ Chat!Opaque(n, to)
      PROVE  ChatInv'
  BY <1>2, <1>8 DEF Chat!SayRaw, Chat!Opaque
<1>9. ASSUME NEW n \in Nodes, Chat!Report(n) PROVE ChatInv'
  BY <1>2, <1>9 DEF Chat!Report
<1> QED
  BY <1>1, <1>3, <1>5, <1>6, <1>7, <1>8, <1>9, MessageHeard DEF Chat!Next

(* What is said reaches the phones it is for, and what one node holds for a  *)
(* retry is what the other acknowledges, for any number of nodes, channels   *)
(* and messages and whatever the air loses, repeats or reorders.            *)
THEOREM ConversationStays == Chat!Spec => []Chat!ConversationKept
<1>1. ChatInv /\ [Chat!Next]_(Chat!vars) => ChatInv'
  BY ChatStep
<1>2. ChatInv => Chat!ConversationKept
  BY DEF ChatInv, Chat!ConversationKept
<1> QED
  BY ChatInit, <1>1, <1>2, PTL DEF Chat!Spec

-----------------------------------------------------------------------------
(* The dialogue of a device with its phones (Requests).                     *)

(* Where the tasks stand: a task that marks or handles has the number of    *)
(* the newest request of its phone, the others have none.                   *)
Kinds  == {"status", "settings", "script", "routes"}
Serves == {"marks ble", "marks usb", "handles"}

PhonesPlaced ==
  /\ links \subseteq Desk!Hosts
  /\ host \in [Desk!Hosts ->
                 [at : {"idle", "joins", "leaves"} \cup Serves, n : Nat]]
  /\ host["ble"].at \notin {"marks ble", "marks usb"}
  /\ host["usb"].at \notin {"joins", "leaves"}
  /\ asked \in Seq([host : Desk!Hosts, request : Asked])
  /\ \A h \in Desk!Hosts : host[h].n # 0 <=> host[h].at \in Serves

ServesNewest ==
  \A h \in Desk!Hosts : host[h].n # 0 =>
    /\ host[h].n \in DOMAIN asked
    /\ asked[host[h].n].host = h
    /\ \A m \in DOMAIN asked : asked[m].host = h => m <= host[h].n

(* The frames that answer have the number of a request.                     *)
FramesPlaced ==
  /\ lane \in Seq([kind : Kinds, n : 0 .. Len(asked)])
  /\ answers \in Seq([kind : Kinds \cup {"rpc"}, n : 1 .. Len(asked), to : Desk!Hosts])
  /\ lost \subseteq [kind : Kinds \cup {"rpc"}, n : 1 .. Len(asked)]
  /\ courier \in [frame : [kind : Kinds \cup {"nothing"}, n : 0 .. Len(asked)],
                  to : Desk!Hosts \cup {"none", "nobody"}]
  /\ courier.to = "none" => courier.frame = Desk!NoFrame
  /\ courier.frame.kind = "nothing" => courier.frame.n = 0

(* A request is alone as long as no other phone is beside its own, and then *)
(* its answer has no other way to go.                                       *)
LonelyGoHome ==
  /\ \A n \in DOMAIN asked : n \notin apart => links = {asked[n].host}
  /\ courier.to # "none" /\ courier.frame.n # 0 /\ courier.frame.n \notin apart =>
       courier.to = asked[courier.frame.n].host

(* The answers to one phone are in the order of its requests from the lane  *)
(* to its ears.                                                             *)
Before(m, n) == m # 0 /\ n # 0 /\ asked[m].host = asked[n].host => m < n

InLine ==
  /\ \A i \in DOMAIN answers : answers[i].kind # "rpc" =>
       /\ Before(answers[i].n, courier.frame.n)
       /\ \A j \in DOMAIN lane : Before(answers[i].n, lane[j].n)
  /\ \A j \in DOMAIN lane : Before(courier.frame.n, lane[j].n)
  /\ \A i, j \in DOMAIN lane : i < j => Before(lane[i].n, lane[j].n)

(* The mode was reported in the session, or is about to be, once the phone  *)
(* is marked; what the status task saw at the start of its turn is told     *)
(* apart by the number of connections.                                      *)
ModeIsDue ==
  /\ joins \in Nat /\ reports \in 0 .. 255
  /\ profiled \in BOOLEAN
  /\ monitor \in [at : {"waits", "looks", "loads", "stores", "profile", "status"},
                  old : Nat, session : 0 .. joins]
  /\ monitor.old \in 0 .. 255
  /\ links # {} => joins > 0
  /\ host["ble"].at = "joins" => "ble" \in links
  /\ host["ble"].at = "leaves" => "ble" \notin links
  /\ monitor.at # "waits" /\ monitor.session = joins => host["ble"].at # "joins"
  /\ "ble" \in links /\ host["ble"].at # "joins" =>
       profiled = TRUE \/ reports > 0 \/ monitor.at = "profile"
  /\ monitor.at = "status" /\ monitor.session = joins /\ "ble" \in links => profiled = TRUE
  /\ early = FALSE

(* Who marks a phone found it there.                                        *)
MarksWhatIsThere ==
  /\ crossed \in BOOLEAN
  /\ cable \in {"idle", "joins", "marks", "leaves"}
  /\ cable \in {"joins", "marks"} => "usb" \in links
  /\ cable = "leaves" => "usb" \notin links
  /\ crossed = FALSE /\ host["usb"].at = "marks ble" => "ble" \in links
  /\ crossed = FALSE /\ host["usb"].at = "marks usb" => "usb" \in links
  /\ \/ crossed = TRUE
     \/ active \in links \cup {"none"}
     \/ active = "ble" /\ host["ble"].at = "leaves"
     \/ active = "usb" /\ cable = "leaves"

DeskInv ==
  /\ PhonesPlaced /\ ServesNewest /\ FramesPlaced
  /\ Desk!Matched
  /\ LonelyGoHome /\ Desk!Home
  /\ InLine /\ Desk!InOrder
  /\ ModeIsDue /\ MarksWhatIsThere

LEMMA DeskStarts == ASSUME Desk!Init PROVE DeskInv
<1>h. /\ host["ble"] = [at |-> "idle", n |-> 0] /\ host["usb"] = [at |-> "idle", n |-> 0]
      /\ monitor = [at |-> "waits", old |-> 0, session |-> 0]
  BY DEF Desk!Init, Desk!Hosts, Desk!Rest
<1>1. PhonesPlaced /\ ServesNewest
  BY EmptySeq DEF Desk!Init, PhonesPlaced, ServesNewest, Desk!Hosts, Desk!Rest, Serves
<1>2. FramesPlaced
  BY DEF Desk!Init, FramesPlaced, Desk!NoFrame, Desk!Frame
<1>3. Desk!Matched /\ LonelyGoHome /\ Desk!Home /\ InLine /\ Desk!InOrder
  BY DEF Desk!Init, Desk!Matched, LonelyGoHome, Desk!Home, InLine, Desk!InOrder
<1>4. ModeIsDue
  <2>1. /\ joins = 0 /\ reports = 0 /\ profiled = FALSE /\ early = FALSE /\ links = {}
        /\ profiled \in BOOLEAN
    BY DEF Desk!Init
  <2>2. /\ monitor \in [at : {"waits", "looks", "loads", "stores", "profile", "status"},
                         old : Nat, session : 0 .. joins]
        /\ joins \in Nat /\ reports \in 0 .. 255 /\ monitor.old \in 0 .. 255
    BY <1>h, <2>1
  <2> QED
    BY <1>h, <2>1, <2>2 DEF ModeIsDue
<1>5. MarksWhatIsThere
  <2>1. /\ crossed = FALSE /\ active = "none" /\ cable = "idle" /\ links = {}
        /\ crossed \in BOOLEAN
    BY DEF Desk!Init
  <2> QED
    BY <1>h, <2>1 DEF MarksWhatIsThere
<1> QED
  BY <1>1, <1>2, <1>3, <1>4, <1>5 DEF DeskInv

(* A task takes its next step, with a number k.                             *)
HostMoves(h, a, k) ==
  /\ host' \in [Desk!Hosts -> [at : {"idle", "joins", "leaves"} \cup Serves, n : Nat]]
  /\ host'[h].at = a /\ host'[h].n = k
  /\ \A o \in Desk!Hosts : o # h => host'[o] = host[o]

LEMMA HostGoesOn ==
  ASSUME PhonesPlaced, NEW h \in Desk!Hosts,
         NEW a \in {"idle", "joins", "leaves"} \cup Serves,
         host' = [host EXCEPT ![h].at = a]
  PROVE  HostMoves(h, a, host[h].n)
<1>1. host \in [Desk!Hosts -> [at : {"idle", "joins", "leaves"} \cup Serves, n : Nat]]
  BY DEF PhonesPlaced
<1>2. host[h] \in [at : {"idle", "joins", "leaves"} \cup Serves, n : Nat]
  BY <1>1
<1>3. [host[h] EXCEPT !.at = a] = [at |-> a, n |-> host[h].n]
  BY <1>2
<1>4. host' = [host EXCEPT ![h] = [host[h] EXCEPT !.at = a]]
  OBVIOUS
<1>5. host' = [host EXCEPT ![h] = [at |-> a, n |-> host[h].n]]
  BY <1>3, <1>4
<1> QED
  BY <1>1, <1>2, <1>5 DEF HostMoves

LEMMA HostTakes ==
  ASSUME PhonesPlaced, NEW h \in Desk!Hosts,
         NEW a \in {"idle", "joins", "leaves"} \cup Serves, NEW k \in Nat,
         host' = [host EXCEPT ![h] = [at |-> a, n |-> k]]
  PROVE  HostMoves(h, a, k)
BY DEF HostMoves, PhonesPlaced

LEMMA HostRests ==
  ASSUME PhonesPlaced, NEW h \in Desk!Hosts, host' = [host EXCEPT ![h] = Desk!Rest]
  PROVE  HostMoves(h, "idle", 0)
BY HostTakes DEF Desk!Rest

(* The phones and the requests, from the step of one task.                  *)
LEMMA PhonesStayPlaced ==
  ASSUME PhonesPlaced, ServesNewest, UNCHANGED asked, links' \subseteq Desk!Hosts,
         NEW h \in Desk!Hosts, NEW a, NEW k, HostMoves(h, a, k),
         k = 0 \/ k = host[h].n,
         k # 0 <=> a \in Serves,
         h = "ble" => a \notin {"marks ble", "marks usb"},
         h = "usb" => a \notin {"joins", "leaves"}
  PROVE  PhonesPlaced' /\ ServesNewest'
<1>1. PhonesPlaced'
  BY DEF PhonesPlaced, HostMoves, Desk!Hosts
<1>2. ServesNewest'
  BY DEF ServesNewest, HostMoves
<1> QED
  BY <1>1, <1>2

LEMMA PhonesUntouched ==
  ASSUME PhonesPlaced, ServesNewest, UNCHANGED <<asked, host>>, links' \subseteq Desk!Hosts
  PROVE  PhonesPlaced' /\ ServesNewest'
<1>1. PhonesPlaced'
  BY DEF PhonesPlaced
<1>2. ServesNewest'
  BY DEF ServesNewest
<1> QED
  BY <1>1, <1>2

(* A phone asks.                                                            *)
LEMMA PhoneAsks ==
  ASSUME PhonesPlaced, ServesNewest, NEW h \in Desk!Hosts, NEW request \in Asked, NEW at \in Serves,
         h = "ble" => at = "handles",
         Desk!Asks(h, request, at)
  PROVE  /\ PhonesPlaced' /\ ServesNewest'
         /\ asked' = Append(asked, [host |-> h, request |-> request])
         /\ Len(asked') = Len(asked) + 1 /\ Len(asked) \in Nat
         /\ \A m \in 1 .. Len(asked) : asked'[m] = asked[m]
         /\ asked'[Len(asked) + 1] = [host |-> h, request |-> request]
         /\ DOMAIN asked = 1 .. Len(asked) /\ DOMAIN asked' = 1 .. Len(asked) + 1
         /\ host[h].n = 0
         /\ HostMoves(h, at, Len(asked) + 1)
<1>1. /\ asked \in Seq([host : Desk!Hosts, request : Asked])
      /\ [host |-> h, request |-> request] \in [host : Desk!Hosts, request : Asked]
  BY DEF PhonesPlaced
<1>2. /\ asked' = Append(asked, [host |-> h, request |-> request])
      /\ links' = links
  BY DEF Desk!Asks
<1>3. /\ asked' \in Seq([host : Desk!Hosts, request : Asked])
      /\ Len(asked') = Len(asked) + 1 /\ Len(asked) \in Nat
      /\ \A m \in 1 .. Len(asked) : asked'[m] = asked[m]
      /\ asked'[Len(asked) + 1] = [host |-> h, request |-> request]
      /\ DOMAIN asked = 1 .. Len(asked) /\ DOMAIN asked' = 1 .. Len(asked) + 1
  BY <1>1, <1>2
<1>4. host[h].n = 0
  BY DEF Desk!Asks, Desk!Rest
<1>5. host' = [host EXCEPT ![h] = [at |-> at, n |-> Len(asked) + 1]]
  BY <1>3 DEF Desk!Asks
<1>6. HostMoves(h, at, Len(asked) + 1)
  <2>1. at \in {"idle", "joins", "leaves"} \cup Serves /\ Len(asked) + 1 \in Nat
    BY <1>3
  <2> QED
    BY <1>5, <2>1, HostTakes
<1>7. PhonesPlaced'
  <2>1. \A o \in Desk!Hosts : host'[o].n # 0 <=> host'[o].at \in Serves
    <3>1. Len(asked) + 1 # 0
      BY <1>3
    <3>2. host'[h].n # 0 /\ host'[h].at \in Serves
      BY <1>6, <3>1 DEF HostMoves
    <3> QED
      BY <1>6, <3>2 DEF PhonesPlaced, HostMoves
  <2>2. host'["ble"].at \notin {"marks ble", "marks usb"}
    BY <1>6 DEF PhonesPlaced, HostMoves, Desk!Hosts
  <2>3. host'["usb"].at \notin {"joins", "leaves"}
    BY <1>6 DEF PhonesPlaced, HostMoves, Desk!Hosts, Serves
  <2>4. host' \in [Desk!Hosts -> [at : {"idle", "joins", "leaves"} \cup Serves, n : Nat]]
    BY <1>6 DEF HostMoves
  <2>5. links' \subseteq Desk!Hosts
    BY <1>2 DEF PhonesPlaced
  <2> QED
    BY <1>3, <2>1, <2>2, <2>3, <2>4, <2>5 DEF PhonesPlaced
<1>8. ServesNewest'
  <2> SUFFICES ASSUME NEW o \in Desk!Hosts, host'[o].n # 0
               PROVE  /\ host'[o].n \in DOMAIN asked'
                      /\ asked'[host'[o].n].host = o
                      /\ \A m \in DOMAIN asked' : asked'[m].host = o => m <= host'[o].n
    BY DEF ServesNewest
  <2>1. CASE o = h
    BY <2>1, <1>3, <1>6 DEF HostMoves
  <2>2. CASE o # h
    <3>1. host'[o] = host[o]
      BY <2>2, <1>6 DEF HostMoves
    <3>2. /\ host[o].n \in 1 .. Len(asked)
          /\ asked[host[o].n].host = o
          /\ \A m \in 1 .. Len(asked) : asked[m].host = o => m <= host[o].n
      BY <3>1, <1>3 DEF ServesNewest
    <3> QED
      BY <2>2, <3>1, <3>2, <1>3
  <2> QED
    BY <2>1, <2>2
<1> QED
  BY <1>2, <1>3, <1>4, <1>6, <1>7, <1>8

LEMMA PhonesKept ==
  ASSUME PhonesPlaced, ServesNewest, Desk!Next
  PROVE  PhonesPlaced' /\ ServesNewest'
<1>h. "ble" \in Desk!Hosts /\ "usb" \in Desk!Hosts /\ links \subseteq Desk!Hosts
  BY DEF Desk!Hosts, PhonesPlaced
<1>1. CASE Desk!BleSecured
  <2>1. /\ HostMoves("ble", "joins", 0) /\ UNCHANGED asked
        /\ links' \subseteq Desk!Hosts
    <3>1. /\ host["ble"].n = 0 /\ host' = [host EXCEPT !["ble"].at = "joins"]
          /\ UNCHANGED asked /\ links' \subseteq Desk!Hosts
      BY <1>1, <1>h DEF Desk!BleSecured, Desk!Rest
    <3>2. HostMoves("ble", "joins", host["ble"].n)
      BY <1>h, <3>1, HostGoesOn
    <3> QED
      BY <3>1, <3>2
  <2> QED
    BY <1>h, <2>1, PhonesStayPlaced DEF Serves
<1>2. CASE Desk!BleJoined
  <2>1. HostMoves("ble", "idle", 0) /\ UNCHANGED <<asked, links>>
    BY <1>2, <1>h, HostRests DEF Desk!BleJoined
  <2> QED
    BY <1>h, <2>1, PhonesStayPlaced DEF Serves
<1>3. CASE Desk!BleLost
  <2>1. /\ HostMoves("ble", "leaves", 0) /\ UNCHANGED asked
        /\ links' \subseteq Desk!Hosts
    <3>1. /\ host["ble"].n = 0 /\ host' = [host EXCEPT !["ble"].at = "leaves"]
          /\ UNCHANGED asked /\ links' \subseteq Desk!Hosts
      BY <1>3, <1>h DEF Desk!BleLost, Desk!Rest
    <3>2. HostMoves("ble", "leaves", host["ble"].n)
      BY <1>h, <3>1, HostGoesOn
    <3> QED
      BY <3>1, <3>2
  <2> QED
    BY <1>h, <2>1, PhonesStayPlaced DEF Serves
<1>4. CASE Desk!BleLeft
  <2>1. HostMoves("ble", "idle", 0) /\ UNCHANGED <<asked, links>>
    BY <1>4, <1>h, HostRests DEF Desk!BleLeft, Desk!ghosts
  <2> QED
    BY <1>h, <2>1, PhonesStayPlaced DEF Serves
<1>5. CASE Desk!UsbOpens \/ Desk!UsbSees \/ Desk!UsbJoined \/ Desk!UsbCloses \/ Desk!UsbLeft
  <2>1. UNCHANGED <<asked, host>> /\ links' \subseteq Desk!Hosts
    BY <1>5, <1>h DEF Desk!UsbOpens, Desk!UsbSees, Desk!UsbJoined, Desk!UsbCloses, Desk!UsbLeft,
         Desk!ghosts, Desk!phones
  <2> QED
    BY <2>1, PhonesUntouched
<1>6. ASSUME NEW request \in Asked, Desk!AskBle(request) PROVE PhonesPlaced' /\ ServesNewest'
  BY <1>6, <1>h, PhoneAsks DEF Desk!AskBle, Serves
<1>7. ASSUME NEW request \in Asked, Desk!AskUsb(request) PROVE PhonesPlaced' /\ ServesNewest'
  <2> DEFINE at == IF "ble" \in links THEN "marks ble" ELSE "marks usb"
  <2>1. at \in Serves /\ Desk!Asks("usb", request, at)
    BY <1>7 DEF Desk!AskUsb, Serves
  <2> QED
    BY <2>1, <1>h, PhoneAsks
<1>8. CASE Desk!MarkUsb
  <2>1. HostMoves("usb", "handles", host["usb"].n) /\ UNCHANGED <<asked, links>>
    BY <1>8, <1>h, HostGoesOn DEF Desk!MarkUsb, Serves, Desk!ghosts
  <2>2. host["usb"].n # 0
    BY <1>8, <1>h DEF Desk!MarkUsb, Desk!Marking, PhonesPlaced, Serves
  <2> QED
    BY <1>h, <2>1, <2>2, PhonesStayPlaced DEF Serves
<1>9. ASSUME NEW h \in Desk!Hosts, Desk!Handle(h) PROVE PhonesPlaced' /\ ServesNewest'
  <2>1. HostMoves(h, "idle", 0) /\ UNCHANGED <<asked, links>>
    BY <1>9, HostRests DEF Desk!Handle, Desk!phones
  <2> QED
    BY <1>h, <2>1, PhonesStayPlaced DEF Serves
<1>10. CASE Desk!Reporting \/ Desk!Delivery
  <2>1. UNCHANGED <<asked, host, links>>
    BY <1>10 DEF Desk!Reporting, Desk!Delivery, Desk!Wake, Desk!LookReports, Desk!LoadReports,
         Desk!StoreReports, Desk!ReportMode, Desk!ReportStatus, Desk!Take, Desk!Deliver,
         Desk!ghosts, Desk!phones
  <2> QED
    BY <1>h, <2>1, PhonesUntouched
<1> QED
  BY <1>1, <1>2, <1>3, <1>4, <1>5, <1>6, <1>7, <1>8, <1>9, <1>10
  DEF Desk!Next, Desk!Links, Desk!Dialogue

-----------------------------------------------------------------------------
(* Every request is answered once.                                          *)

LEMMA ToSetAppends ==
  ASSUME NEW S, NEW s \in Seq(S), NEW x \in S
  PROVE  Desk!ToSet(Append(s, x)) = Desk!ToSet(s) \cup {x}
<1>1. /\ DOMAIN s = 1 .. Len(s) /\ Len(s) \in Nat
      /\ DOMAIN Append(s, x) = 1 .. Len(s) + 1
      /\ \A i \in 1 .. Len(s) : Append(s, x)[i] = s[i]
      /\ Append(s, x)[Len(s) + 1] = x
  OBVIOUS
<1>2. 1 .. Len(s) + 1 = (1 .. Len(s)) \cup {Len(s) + 1}
  BY <1>1
<1> QED
  BY <1>1, <1>2 DEF Desk!ToSet

LEMMA ToSetOfTail ==
  ASSUME NEW S, NEW s \in Seq(S), s # <<>>
  PROVE  Desk!ToSet(s) = Desk!ToSet(Tail(s)) \cup {Head(s)}
<1>1. /\ DOMAIN s = 1 .. Len(s) /\ Len(s) \in Nat \ {0}
      /\ DOMAIN Tail(s) = 1 .. Len(s) - 1
      /\ \A i \in 1 .. Len(s) - 1 : Tail(s)[i] = s[i + 1]
      /\ Head(s) = s[1]
  OBVIOUS
<1>2. ASSUME NEW x \in Desk!ToSet(s) PROVE x \in Desk!ToSet(Tail(s)) \cup {Head(s)}
  <2>1. PICK i \in 1 .. Len(s) : x = s[i]
    BY <1>1, <1>2 DEF Desk!ToSet
  <2>2. CASE i = 1
    BY <1>1, <2>1, <2>2
  <2>3. CASE i # 1
    <3>1. i - 1 \in 1 .. Len(s) - 1 /\ (i - 1) + 1 = i
      BY <1>1, <2>3
    <3>2. Tail(s)[i - 1] = x
      BY <1>1, <2>1, <3>1
    <3> QED
      BY <1>1, <3>1, <3>2 DEF Desk!ToSet
  <2> QED
    BY <2>2, <2>3
<1>3. Head(s) \in Desk!ToSet(s)
  <2>1. 1 \in 1 .. Len(s)
    BY <1>1
  <2> QED
    BY <1>1, <2>1 DEF Desk!ToSet
<1>4. ASSUME NEW x \in Desk!ToSet(Tail(s)) PROVE x \in Desk!ToSet(s)
  <2>1. PICK i \in 1 .. Len(s) - 1 : x = Tail(s)[i]
    BY <1>1, <1>4 DEF Desk!ToSet
  <2>2. i + 1 \in 1 .. Len(s)
    BY <1>1
  <2> QED
    BY <1>1, <2>1, <2>2 DEF Desk!ToSet
<1> QED
  BY <1>2, <1>3, <1>4

(* The frames of a sequence of deliveries.                                  *)
Carried(s) == {[kind |-> r.kind, n |-> r.n] : r \in Desk!ToSet(s)}

LEMMA InFlightIs ==
  /\ Desk!InFlight = Desk!ToSet(lane) \cup Carried(answers) \cup lost \cup {courier.frame}
  /\ Desk!InFlight' = Desk!ToSet(lane') \cup Carried(answers') \cup lost' \cup {courier.frame'}
BY DEF Desk!InFlight, Carried, Desk!ToSet

LEMMA CarriedAppends ==
  ASSUME NEW S, NEW s \in Seq(S), NEW x \in S
  PROVE  Carried(Append(s, x)) = Carried(s) \cup {[kind |-> x.kind, n |-> x.n]}
BY ToSetAppends DEF Carried

(* What a step adds to the frames under way.                                *)
Adds(f) == \A g : g.n # 0 => (g \in Desk!InFlight' <=> g \in Desk!InFlight \/ g = f)
Moves   == \A g : g.n # 0 => (g \in Desk!InFlight' <=> g \in Desk!InFlight)

LEMMA FrameQueues ==
  ASSUME FramesPlaced, NEW f \in [kind : Kinds, n : 0 .. Len(asked)], Desk!Queue(f),
         UNCHANGED <<answers, courier>>
  PROVE  Adds(f)
<1>1. CASE Len(lane) < LaneSize
  <2>1. Desk!ToSet(lane') = Desk!ToSet(lane) \cup {f} /\ lost' = lost
    <3>1. lane' = Append(lane, f) /\ lost' = lost
      BY <1>1 DEF Desk!Queue
    <3> DEFINE S == [kind : Kinds, n : 0 .. Len(asked)]
    <3>2. lane \in Seq(S) /\ f \in S
      BY DEF FramesPlaced
    <3> HIDE DEF S
    <3> QED
      BY <3>1, <3>2, ToSetAppends
  <2> QED
    BY <2>1, InFlightIs DEF Adds
<1>2. CASE ~(Len(lane) < LaneSize)
  <2>1. lane' = lane /\ lost' = IF f.n = 0 THEN lost ELSE lost \cup {f}
    BY <1>2 DEF Desk!Queue, Desk!Loses
  <2> QED
    BY <2>1, InFlightIs DEF Adds
<1> QED
  BY <1>1, <1>2

LEMMA ReportQueues ==
  ASSUME FramesPlaced, NEW kind \in Kinds, Desk!Queue(Desk!Frame(kind, 0)),
         UNCHANGED <<answers, courier>>
  PROVE  Moves
<1>1. Len(asked) \in Nat => Desk!Frame(kind, 0) \in [kind : Kinds, n : 0 .. Len(asked)]
  BY DEF Desk!Frame
<1> QED
  BY <1>1, FrameQueues DEF Adds, Moves, Desk!Frame

LEMMA FramesRest ==
  ASSUME UNCHANGED <<lane, answers, lost, courier>>
  PROVE  Moves
BY InFlightIs DEF Moves

LEMMA FrameTaken ==
  ASSUME FramesPlaced, Desk!Take
  PROVE  Moves
<1>1. /\ Desk!ToSet(lane) = Desk!ToSet(lane') \cup {courier'.frame}
      /\ UNCHANGED <<answers, lost>>
  BY ToSetOfTail DEF Desk!Take, FramesPlaced, Desk!ghosts
<1>2. courier.frame.n = 0
  BY DEF Desk!Take, FramesPlaced, Desk!NoFrame, Desk!Frame
<1> QED
  BY <1>1, <1>2, InFlightIs DEF Moves

(* The frame in hand reaches a phone or is dropped, or answers nothing.     *)
Heard   == [kind |-> courier.frame.kind, n |-> courier.frame.n, to |-> courier.to]
Reaches == /\ courier.to \in links /\ courier.frame.n # 0
           /\ Heard \in [kind : Kinds \cup {"rpc"}, n : 1 .. Len(asked), to : Desk!Hosts]
           /\ answers' = Append(answers, Heard) /\ UNCHANGED lost
Drops   == /\ courier.frame.n # 0
           /\ courier.frame \in [kind : Kinds \cup {"rpc"}, n : 1 .. Len(asked)]
           /\ lost' = lost \cup {courier.frame} /\ UNCHANGED answers

LEMMA FrameDelivered ==
  ASSUME PhonesPlaced, FramesPlaced, Desk!Deliver
  PROVE  /\ Reaches \/ Drops \/ (courier.frame.n = 0 /\ UNCHANGED <<answers, lost>>)
         /\ UNCHANGED <<lane, asked, links, host>>
         /\ courier' = [frame |-> Desk!NoFrame, to |-> "none"]
<1>1. /\ Len(asked) \in Nat
      /\ courier.frame \in [kind : Kinds \cup {"nothing"}, n : 0 .. Len(asked)]
      /\ courier.frame.kind = "nothing" => courier.frame.n = 0
      /\ courier.to # "none"
  <2>1. asked \in Seq([host : Desk!Hosts, request : Asked])
    BY DEF PhonesPlaced
  <2>2. Len(asked) \in Nat
    BY <2>1
  <2>3. courier.to # "none"
    BY DEF Desk!Deliver
  <2> QED
    BY <2>2, <2>3 DEF FramesPlaced
<1>2. courier.frame.n # 0 =>
        courier.frame.kind \in Kinds /\ courier.frame.n \in 1 .. Len(asked)
  BY <1>1
<1>3. /\ UNCHANGED <<lane, asked, links, host>>
      /\ courier' = [frame |-> Desk!NoFrame, to |-> "none"]
  BY DEF Desk!Deliver, Desk!phones
<1>4. CASE courier.to \in links
  <2>1. lost' = lost /\ answers' = IF courier.frame.n = 0 THEN answers
                                  ELSE Append(answers, Heard)
    BY <1>4 DEF Desk!Deliver, Heard
  <2>2. courier.to \in Desk!Hosts
    BY <1>4 DEF PhonesPlaced
  <2>3. courier.frame.n # 0 =>
          Heard \in [kind : Kinds \cup {"rpc"}, n : 1 .. Len(asked), to : Desk!Hosts]
    BY <1>2, <2>2 DEF Heard
  <2> QED
    BY <1>3, <1>4, <2>1, <2>3 DEF Reaches
<1>5. CASE courier.to \notin links
  <2>1. answers' = answers /\ lost' = IF courier.frame.n = 0 THEN lost
                                     ELSE lost \cup {courier.frame}
    BY <1>5 DEF Desk!Deliver, Desk!Loses
  <2>2. courier.frame.n # 0 => courier.frame \in [kind : Kinds \cup {"rpc"}, n : 1 .. Len(asked)]
    BY <1>1, <1>2
  <2> QED
    BY <1>3, <2>1, <2>2 DEF Drops
<1> QED
  BY <1>4, <1>5

LEMMA DeliveryMoves ==
  ASSUME PhonesPlaced, FramesPlaced, Desk!Deliver
  PROVE  Moves
<1>1. UNCHANGED lane /\ courier'.frame.n = 0
  BY FrameDelivered DEF Desk!NoFrame, Desk!Frame
<1>2. courier.frame \in [kind : Kinds \cup {"nothing"}, n : 0 .. Len(asked)]
  BY DEF FramesPlaced
<1>3. CASE Reaches
  <2>1. Carried(answers') = Carried(answers) \cup {[kind |-> Heard.kind, n |-> Heard.n]}
    <3> DEFINE S == [kind : Kinds \cup {"rpc"}, n : 1 .. Len(asked), to : Desk!Hosts]
    <3>1. answers \in Seq(S)
      BY DEF FramesPlaced
    <3>2. answers' = Append(answers, Heard) /\ Heard \in S
      BY <1>3 DEF Reaches
    <3> HIDE DEF S
    <3> QED
      BY <3>1, <3>2, CarriedAppends
  <2>2. [kind |-> Heard.kind, n |-> Heard.n] = courier.frame
    BY <1>2 DEF Heard
  <2> QED
    BY <1>1, <1>3, <2>1, <2>2, InFlightIs DEF Moves, Reaches
<1>4. CASE Drops
  BY <1>1, <1>4, InFlightIs DEF Moves, Drops
<1>5. CASE courier.frame.n = 0 /\ UNCHANGED <<answers, lost>>
  BY <1>1, <1>5, InFlightIs DEF Moves
<1> QED
  BY <1>3, <1>4, <1>5, FrameDelivered

(* The requests have the numbers from one on.                               *)
LEMMA RequestsNumbered ==
  ASSUME PhonesPlaced
  PROVE  /\ Len(asked) \in Nat /\ DOMAIN asked = 1 .. Len(asked)
         /\ \A n \in 1 .. Len(asked) : asked[n] \in [host : Desk!Hosts, request : Asked]
<1> DEFINE S == [host : Desk!Hosts, request : Asked]
<1>1. asked \in Seq(S)
  BY DEF PhonesPlaced
<1> HIDE DEF S
<1>2. /\ Len(asked) \in Nat /\ DOMAIN asked = 1 .. Len(asked)
      /\ \A n \in 1 .. Len(asked) : asked[n] \in S
  BY <1>1
<1> QED
  BY <1>2 DEF S

(* A request is answered by the kind the handlers give it.                  *)
Answer(request) == IF Desk!Direct(request) THEN "rpc" ELSE Desk!AnswerOf(request)

LEMMA AnswerIsOfAKind ==
  ASSUME NEW request \in Asked
  PROVE  /\ Answer(request) \in Kinds \cup {"rpc", "nothing"}
         /\ Desk!Direct(request) <=> Answer(request) = "rpc"
         /\ Answer(request) = IF Desk!Direct(request) THEN "rpc"
                              ELSE CASE request \in {"settings", "script", "routes"} -> request
                                     [] request \in {"text", "unknown"} -> "nothing"
                                     [] OTHER -> "status"
<1>1. request \in {"status", "init", "beacon", "no_beacon", "place", "no_place",
                   "settings", "script", "routes", "text", "unknown", "rpc"}
  BY TalkAssumption
<1> QED
  BY <1>1 DEF Answer, Desk!AnswerOf, Desk!Direct, Kinds

LEMMA PhoneIsAnswered ==
  ASSUME PhonesPlaced, ServesNewest, NEW h \in Desk!Hosts, Desk!Handle(h),
         NEW n, n = host[h].n, NEW kind, kind = Answer(asked[n].request)
  PROVE  /\ n \in 1 .. Len(asked) /\ DOMAIN asked = 1 .. Len(asked) /\ Len(asked) \in Nat
         /\ asked[n] \in [host : Desk!Hosts, request : Asked] /\ asked[n].host = h
         /\ UNCHANGED <<asked, courier, links>> /\ HostMoves(h, "idle", 0)
         /\ \/ /\ kind = "rpc" /\ h \in links /\ UNCHANGED <<lane, lost>>
               /\ answers' = Append(answers, [kind |-> kind, n |-> n, to |-> h])
            \/ /\ kind = "rpc" /\ h \notin links /\ UNCHANGED <<lane, answers>>
               /\ lost' = lost \cup {Desk!Frame(kind, n)}
            \/ kind = "nothing" /\ UNCHANGED <<lane, answers, lost>>
            \/ kind \in Kinds /\ Desk!Queue(Desk!Frame(kind, n)) /\ UNCHANGED answers
<1>1. /\ n \in DOMAIN asked /\ asked[n].host = h
  <2>1. n # 0
    BY DEF PhonesPlaced, Desk!Handle, Serves
  <2> QED
    BY <2>1 DEF ServesNewest
<1>2. /\ DOMAIN asked = 1 .. Len(asked) /\ Len(asked) \in Nat
      /\ asked[n] \in [host : Desk!Hosts, request : Asked]
  BY <1>1, RequestsNumbered
<1>3. UNCHANGED <<asked, courier, links>> /\ HostMoves(h, "idle", 0)
  BY HostRests DEF Desk!Handle, Desk!phones
<1>4. /\ kind \in Kinds \cup {"rpc", "nothing"}
      /\ Desk!Direct(asked[n].request) <=> kind = "rpc"
  BY <1>2, AnswerIsOfAKind
<1>5. CASE kind = "rpc"
  <2>1. Desk!Direct(asked[n].request)
    BY <1>4, <1>5
  <2>2. CASE h \in links
    BY <1>1, <1>2, <1>3, <1>5, <2>1, <2>2 DEF Desk!Handle
  <2>3. CASE h \notin links
    BY <1>1, <1>2, <1>3, <1>5, <2>1, <2>3 DEF Desk!Handle
  <2> QED
    BY <2>2, <2>3
<1>6. CASE kind # "rpc"
  <2>1. ~Desk!Direct(asked[n].request) /\ kind = Desk!AnswerOf(asked[n].request)
    BY <1>4, <1>6 DEF Answer
  <2>2. CASE kind = "nothing"
    BY <1>1, <1>2, <1>3, <2>1, <2>2 DEF Desk!Handle, Desk!Frame
  <2>3. CASE kind # "nothing"
    BY <1>1, <1>2, <1>3, <1>4, <1>6, <2>1, <2>3 DEF Desk!Handle, Desk!Frame
  <2> QED
    BY <2>2, <2>3
<1> QED
  BY <1>5, <1>6

(* The frames keep their types ...                                          *)
LEMMA FramesStayPlaced ==
  ASSUME FramesPlaced, Len(asked) \in Nat, Len(asked') \in Nat, Len(asked) <= Len(asked'),
         UNCHANGED <<lane, answers, lost, courier>>
  PROVE  FramesPlaced'
<1>1. 0 .. Len(asked) \subseteq 0 .. Len(asked') /\ 1 .. Len(asked) \subseteq 1 .. Len(asked')
  OBVIOUS
<1>2. /\ [kind : Kinds, n : 0 .. Len(asked)] \subseteq [kind : Kinds, n : 0 .. Len(asked')]
      /\ [kind : Kinds \cup {"rpc"}, n : 1 .. Len(asked), to : Desk!Hosts]
           \subseteq [kind : Kinds \cup {"rpc"}, n : 1 .. Len(asked'), to : Desk!Hosts]
      /\ [kind : Kinds \cup {"rpc"}, n : 1 .. Len(asked)]
           \subseteq [kind : Kinds \cup {"rpc"}, n : 1 .. Len(asked')]
  BY <1>1
<1>3. ASSUME NEW S, NEW T, S \subseteq T, NEW s \in Seq(S) PROVE s \in Seq(T)
  BY <1>3
<1>4. lane' \in Seq([kind : Kinds, n : 0 .. Len(asked')])
  BY <1>2, <1>3 DEF FramesPlaced
<1>5. answers' \in Seq([kind : Kinds \cup {"rpc"}, n : 1 .. Len(asked'), to : Desk!Hosts])
  BY <1>2, <1>3 DEF FramesPlaced
<1>6. lost' \subseteq [kind : Kinds \cup {"rpc"}, n : 1 .. Len(asked')]
  BY <1>2 DEF FramesPlaced
<1>7. courier' \in [frame : [kind : Kinds \cup {"nothing"}, n : 0 .. Len(asked')],
                    to : Desk!Hosts \cup {"none", "nobody"}]
  BY <1>1 DEF FramesPlaced
<1> QED
  BY <1>4, <1>5, <1>6, <1>7 DEF FramesPlaced

LEMMA QueuedIsPlaced ==
  ASSUME PhonesPlaced, FramesPlaced, NEW kind \in Kinds, NEW n \in 0 .. Len(asked),
         Desk!Queue(Desk!Frame(kind, n)), UNCHANGED <<asked, answers, courier>>
  PROVE  FramesPlaced'
<1> DEFINE S == [kind : Kinds, n : 0 .. Len(asked)]
<1>1. /\ lane \in Seq(S) /\ Desk!Frame(kind, n) \in S
      /\ lost \subseteq [kind : Kinds \cup {"rpc"}, n : 1 .. Len(asked)]
  BY DEF FramesPlaced, Desk!Frame
<1>2. n # 0 => Desk!Frame(kind, n) \in [kind : Kinds \cup {"rpc"}, n : 1 .. Len(asked)]
  <2>1. asked \in Seq([host : Desk!Hosts, request : Asked])
    BY DEF PhonesPlaced
  <2>2. Len(asked) \in Nat
    BY <2>1
  <2> QED
    BY <2>2 DEF Desk!Frame
<1>3. Desk!Frame(kind, n).n = n
  BY DEF Desk!Frame
<1>4. lane' \in Seq(S) /\ lost' \subseteq [kind : Kinds \cup {"rpc"}, n : 1 .. Len(asked)]
  <2> HIDE DEF S
  <2>1. CASE Len(lane) < LaneSize
    BY <1>1, <2>1 DEF Desk!Queue
  <2>2. CASE ~(Len(lane) < LaneSize)
    BY <1>1, <1>2, <1>3, <2>2 DEF Desk!Queue, Desk!Loses
  <2> QED
    BY <2>1, <2>2
<1> QED
  BY <1>4 DEF FramesPlaced

LEMMA FramesKept ==
  ASSUME PhonesPlaced, ServesNewest, FramesPlaced, Desk!Next
  PROVE  FramesPlaced'
<1>l. Len(asked) \in Nat
  BY RequestsNumbered
<1>1. CASE Desk!Links \/ Desk!MarkUsb \/ Desk!Wake \/ Desk!LookReports \/ Desk!LoadReports
           \/ Desk!StoreReports
  <2>1. UNCHANGED <<asked, lane, answers, lost, courier>>
    BY <1>1 DEF Desk!Links, Desk!BleSecured, Desk!BleJoined, Desk!BleLost, Desk!BleLeft,
       Desk!UsbOpens, Desk!UsbSees, Desk!UsbJoined, Desk!UsbCloses, Desk!UsbLeft,
       Desk!MarkUsb, Desk!Wake, Desk!LookReports, Desk!LoadReports, Desk!StoreReports,
       Desk!ghosts, Desk!phones
  <2> QED
    BY <1>l, <2>1, FramesStayPlaced
<1>2. ASSUME NEW h \in Desk!Hosts, NEW request \in Asked, NEW at \in Serves,
             h = "ble" => at = "handles", Desk!Asks(h, request, at)
      PROVE  FramesPlaced'
  <2>1. Len(asked') = Len(asked) + 1
    BY <1>2, PhoneAsks
  <2>2. UNCHANGED <<lane, answers, lost, courier>>
    BY <1>2 DEF Desk!Asks
  <2> QED
    BY <1>l, <2>1, <2>2, FramesStayPlaced
<1>3. ASSUME NEW request \in Asked, Desk!AskBle(request) \/ Desk!AskUsb(request)
      PROVE  FramesPlaced'
  BY <1>2, <1>3 DEF Desk!AskBle, Desk!AskUsb, Serves, Desk!Hosts
<1>4. ASSUME NEW h \in Desk!Hosts, Desk!Handle(h) PROVE FramesPlaced'
  <2> DEFINE n == host[h].n
             kind == Answer(asked[n].request)
  <2>1. /\ n \in 1 .. Len(asked) /\ UNCHANGED <<asked, courier>>
        /\ \/ /\ kind = "rpc" /\ h \in links /\ UNCHANGED <<lane, lost>>
              /\ answers' = Append(answers, [kind |-> kind, n |-> n, to |-> h])
           \/ /\ kind = "rpc" /\ h \notin links /\ UNCHANGED <<lane, answers>>
              /\ lost' = lost \cup {Desk!Frame(kind, n)}
           \/ kind = "nothing" /\ UNCHANGED <<lane, answers, lost>>
           \/ kind \in Kinds /\ Desk!Queue(Desk!Frame(kind, n)) /\ UNCHANGED answers
    BY <1>4, PhoneIsAnswered
  <2> HIDE DEF n, kind
  <2>2. CASE /\ kind = "rpc" /\ UNCHANGED <<lane, lost>>
             /\ answers' = Append(answers, [kind |-> kind, n |-> n, to |-> h])
    <3> DEFINE S == [kind : Kinds \cup {"rpc"}, n : 1 .. Len(asked), to : Desk!Hosts]
    <3>1. answers \in Seq(S) /\ [kind |-> kind, n |-> n, to |-> h] \in S
      BY <2>1, <2>2 DEF FramesPlaced
    <3>2. answers' \in Seq(S)
      <4> HIDE DEF S
      <4> QED
        BY <3>1, <2>2
    <3> QED
      BY <2>1, <2>2, <3>2 DEF FramesPlaced
  <2>3. CASE /\ kind = "rpc" /\ UNCHANGED <<lane, answers>>
             /\ lost' = lost \cup {Desk!Frame(kind, n)}
    <3>1. Desk!Frame(kind, n) \in [kind : Kinds \cup {"rpc"}, n : 1 .. Len(asked)]
      BY <2>1, <2>3 DEF Desk!Frame
    <3> QED
      BY <2>1, <2>3, <3>1 DEF FramesPlaced
  <2>4. CASE UNCHANGED <<lane, answers, lost>>
    BY <1>l, <2>1, <2>4, FramesStayPlaced
  <2>5. CASE kind \in Kinds /\ Desk!Queue(Desk!Frame(kind, n)) /\ UNCHANGED answers
    <3>1. n \in 0 .. Len(asked)
      BY <1>l, <2>1
    <3> QED
      BY <2>1, <2>5, <3>1, QueuedIsPlaced
  <2> QED
    BY <2>1, <2>2, <2>3, <2>4, <2>5
<1>5. CASE Desk!ReportMode
  <2>1. /\ Desk!Queue(Desk!Frame("settings", 0)) /\ UNCHANGED <<asked, answers, courier>>
        /\ "settings" \in Kinds /\ 0 \in 0 .. Len(asked)
    BY <1>5, <1>l DEF Desk!ReportMode, Kinds
  <2> QED
    BY <2>1, QueuedIsPlaced
<1>6. CASE Desk!ReportStatus
  <2>1. /\ Desk!Queue(Desk!Frame("status", 0)) /\ UNCHANGED <<asked, answers, courier>>
        /\ "status" \in Kinds /\ 0 \in 0 .. Len(asked)
    BY <1>6, <1>l DEF Desk!ReportStatus, Kinds
  <2> QED
    BY <2>1, QueuedIsPlaced
<1>7. CASE Desk!Take
  <2> DEFINE S == [kind : Kinds, n : 0 .. Len(asked)]
  <2>1. lane \in Seq(S) /\ lane # <<>> /\ lane' = Tail(lane) /\ UNCHANGED <<asked, answers, lost>>
    BY <1>7 DEF FramesPlaced, Desk!Take, Desk!ghosts
  <2>2. lane' \in Seq(S) /\ Head(lane) \in S
    <3> HIDE DEF S
    <3> QED
      BY <2>1
  <2>3. courier' = [frame |-> Head(lane),
                    to |-> IF "ble" \in links THEN "ble"
                           ELSE IF "usb" \in links THEN "usb" ELSE "nobody"]
    BY <1>7 DEF Desk!Take
  <2>4. /\ courier' \in [frame : [kind : Kinds \cup {"nothing"}, n : 0 .. Len(asked)],
                         to : Desk!Hosts \cup {"none", "nobody"}]
        /\ courier'.to # "none" /\ courier'.frame.kind # "nothing"
    BY <2>2, <2>3 DEF Desk!Hosts, Kinds
  <2> QED
    BY <2>1, <2>2, <2>4 DEF FramesPlaced
<1>8. CASE Desk!Deliver
  <2>1. /\ Reaches \/ Drops \/ UNCHANGED <<answers, lost>>
        /\ UNCHANGED <<lane, asked>> /\ courier' = [frame |-> Desk!NoFrame, to |-> "none"]
    BY <1>8, FrameDelivered
  <2>2. /\ courier' \in [frame : [kind : Kinds \cup {"nothing"}, n : 0 .. Len(asked)],
                         to : Desk!Hosts \cup {"none", "nobody"}]
        /\ courier'.frame = Desk!NoFrame /\ courier'.frame.n = 0
    BY <1>l, <2>1 DEF Desk!NoFrame, Desk!Frame
  <2> DEFINE S == [kind : Kinds \cup {"rpc"}, n : 1 .. Len(asked), to : Desk!Hosts]
  <2>3. /\ answers' \in Seq(S)
        /\ lost' \subseteq [kind : Kinds \cup {"rpc"}, n : 1 .. Len(asked)]
    <3>1. answers \in Seq(S) /\ lost \subseteq [kind : Kinds \cup {"rpc"}, n : 1 .. Len(asked)]
      BY DEF FramesPlaced
    <3>2. Reaches => Heard \in S /\ answers' = Append(answers, Heard) /\ lost' = lost
      BY DEF Reaches
    <3>3. Drops => answers' = answers /\ lost' \subseteq [kind : Kinds \cup {"rpc"}, n : 1 .. Len(asked)]
      BY <3>1 DEF Drops
    <3> HIDE DEF S
    <3> QED
      BY <2>1, <3>1, <3>2, <3>3
  <2> QED
    BY <2>1, <2>2, <2>3 DEF FramesPlaced
<1> QED
  BY <1>1, <1>3, <1>4, <1>5, <1>6, <1>7, <1>8
  DEF Desk!Next, Desk!Dialogue, Desk!Reporting, Desk!Delivery

(* ... and match the requests.                                              *)
LEMMA StillMatched ==
  ASSUME Desk!Matched, UNCHANGED asked, \A h \in Desk!Hosts : host'[h].n = host[h].n, Moves,
         PhonesPlaced
  PROVE  Desk!Matched'
<1> SUFFICES ASSUME NEW n \in DOMAIN asked
             PROVE  {f \in Desk!InFlight' : f.n = n} =
                      IF Desk!Handled(n)' /\ Desk!Due(n)' # "nothing"
                      THEN {Desk!Frame(Desk!Due(n), n)'} ELSE {}
  BY DEF Desk!Matched, Desk!Frame
<1>1. n # 0
  BY RequestsNumbered
<1>2. Desk!Handled(n)' = Desk!Handled(n)
  BY DEF Desk!Handled
<1>3. Desk!Due(n)' = Desk!Due(n)
  BY DEF Desk!Due, Desk!Direct
<1>4. {f \in Desk!InFlight' : f.n = n} = {f \in Desk!InFlight : f.n = n}
  BY <1>1 DEF Moves
<1> QED
  BY <1>2, <1>3, <1>4 DEF Desk!Matched, Desk!Frame

(* No frame has the number of a request that nobody made.                   *)
LEMMA FramesAreNumbered ==
  ASSUME PhonesPlaced, FramesPlaced, NEW f \in Desk!InFlight
  PROVE  f.n \in 0 .. Len(asked)
<1>l. Len(asked) \in Nat /\ 1 .. Len(asked) \subseteq 0 .. Len(asked)
  BY RequestsNumbered
<1>1. ASSUME NEW S, NEW s \in Seq(S), NEW x \in Desk!ToSet(s) PROVE x \in S
  BY <1>1 DEF Desk!ToSet
<1>2. CASE f \in Desk!ToSet(lane)
  <2> DEFINE S == [kind : Kinds, n : 0 .. Len(asked)]
  <2>1. lane \in Seq(S)
    BY DEF FramesPlaced
  <2>2. f \in S
    <3> HIDE DEF S
    <3> QED
      BY <1>1, <1>2, <2>1
  <2> QED
    BY <2>2
<1>3. CASE f \in Carried(answers)
  <2> DEFINE S == [kind : Kinds \cup {"rpc"}, n : 1 .. Len(asked), to : Desk!Hosts]
  <2>1. answers \in Seq(S)
    BY DEF FramesPlaced
  <2>2. PICK r \in Desk!ToSet(answers) : f = [kind |-> r.kind, n |-> r.n]
    BY <1>3 DEF Carried
  <2>3. r \in S
    <3> HIDE DEF S
    <3> QED
      BY <1>1, <2>1, <2>2
  <2> QED
    BY <1>l, <2>2, <2>3
<1>4. CASE f \in lost
  BY <1>l, <1>4 DEF FramesPlaced
<1>5. CASE f = courier.frame
  BY <1>5 DEF FramesPlaced
<1> QED
  BY <1>2, <1>3, <1>4, <1>5, InFlightIs

(* A request made is not answered yet.                                      *)
LEMMA MatchedWhenAsked ==
  ASSUME PhonesPlaced, ServesNewest, FramesPlaced, Desk!Matched,
         NEW h \in Desk!Hosts, NEW request \in Asked, NEW at \in Serves,
         h = "ble" => at = "handles",
         Desk!Asks(h, request, at)
  PROVE  Desk!Matched'
<1> DEFINE new == Len(asked) + 1
<1>1. /\ Len(asked) \in Nat
      /\ \A m \in 1 .. Len(asked) : asked'[m] = asked[m]
      /\ DOMAIN asked = 1 .. Len(asked) /\ DOMAIN asked' = 1 .. new
      /\ host[h].n = 0 /\ HostMoves(h, at, new)
  BY PhoneAsks
<1>2. Moves
  BY FramesRest DEF Desk!Asks
<1> SUFFICES ASSUME NEW n \in 1 .. new
             PROVE  {f \in Desk!InFlight' : f.n = n} =
                      IF Desk!Handled(n)' /\ Desk!Due(n)' # "nothing"
                      THEN {Desk!Frame(Desk!Due(n), n)'} ELSE {}
  BY <1>1 DEF Desk!Matched, Desk!Frame
<1>3. n # 0
  BY <1>1
<1>4. {f \in Desk!InFlight' : f.n = n} = {f \in Desk!InFlight : f.n = n}
  BY <1>2, <1>3 DEF Moves
<1>5. CASE n = new
  <2>1. ~Desk!Handled(n)'
    BY <1>1, <1>5 DEF Desk!Handled, HostMoves
  <2>2. {f \in Desk!InFlight : f.n = n} = {}
    BY <1>1, <1>5, FramesAreNumbered
  <2> QED
    BY <1>4, <2>1, <2>2
<1>6. CASE n # new
  <2>1. n \in 1 .. Len(asked)
    BY <1>1, <1>6
  <2>2. \A o \in Desk!Hosts : host'[o].n = n <=> host[o].n = n
    BY <1>1, <1>3, <1>6 DEF HostMoves
  <2>3. Desk!Handled(n)' = Desk!Handled(n)
    BY <2>2 DEF Desk!Handled
  <2>4. Desk!Due(n)' = Desk!Due(n)
    BY <1>1, <2>1, <2>2 DEF Desk!Due, Desk!Direct
  <2> QED
    BY <1>1, <1>4, <2>1, <2>3, <2>4 DEF Desk!Matched, Desk!Frame
<1> QED
  BY <1>5, <1>6

(* A request handled is answered as is due.                                 *)
LEMMA MatchedWhenHandled ==
  ASSUME PhonesPlaced, ServesNewest, FramesPlaced, Desk!Matched,
         NEW h \in Desk!Hosts, Desk!Handle(h)
  PROVE  Desk!Matched'
<1> DEFINE n == host[h].n
           kind == Answer(asked[n].request)
<1>1. /\ n \in 1 .. Len(asked) /\ DOMAIN asked = 1 .. Len(asked) /\ Len(asked) \in Nat
      /\ asked[n] \in [host : Desk!Hosts, request : Asked] /\ asked[n].host = h
      /\ UNCHANGED <<asked, courier, links>> /\ HostMoves(h, "idle", 0)
      /\ \/ /\ kind = "rpc" /\ h \in links /\ UNCHANGED <<lane, lost>>
            /\ answers' = Append(answers, [kind |-> kind, n |-> n, to |-> h])
         \/ /\ kind = "rpc" /\ h \notin links /\ UNCHANGED <<lane, answers>>
            /\ lost' = lost \cup {Desk!Frame(kind, n)}
         \/ kind = "nothing" /\ UNCHANGED <<lane, answers, lost>>
         \/ kind \in Kinds /\ Desk!Queue(Desk!Frame(kind, n)) /\ UNCHANGED answers
  BY PhoneIsAnswered
<1> HIDE DEF n, kind
<1>2. IF kind = "nothing" THEN Moves ELSE Adds(Desk!Frame(kind, n))
  <2>1. CASE /\ kind = "rpc" /\ UNCHANGED <<lane, lost>>
             /\ answers' = Append(answers, [kind |-> kind, n |-> n, to |-> h])
    <3> DEFINE S == [kind : Kinds \cup {"rpc"}, n : 1 .. Len(asked), to : Desk!Hosts]
               x == [kind |-> kind, n |-> n, to |-> h]
    <3>1. answers \in Seq(S) /\ x \in S
      BY <1>1, <2>1 DEF FramesPlaced
    <3>2. [kind |-> x.kind, n |-> x.n] = Desk!Frame(kind, n)
      BY DEF Desk!Frame
    <3>3. answers' = Append(answers, x)
      BY <2>1
    <3>4. Carried(answers') = Carried(answers) \cup {Desk!Frame(kind, n)}
      <4> HIDE DEF S, x
      <4> QED
        BY <3>1, <3>2, <3>3, CarriedAppends
    <3> QED
      BY <1>1, <2>1, <3>4, InFlightIs DEF Adds
  <2>2. CASE /\ kind = "rpc" /\ UNCHANGED <<lane, answers>>
             /\ lost' = lost \cup {Desk!Frame(kind, n)}
    BY <1>1, <2>2, InFlightIs DEF Adds
  <2>3. CASE kind = "nothing" /\ UNCHANGED <<lane, answers, lost>>
    BY <1>1, <2>3, FramesRest
  <2>4. CASE kind \in Kinds /\ Desk!Queue(Desk!Frame(kind, n)) /\ UNCHANGED answers
    <3>1. kind # "nothing"
      BY <2>4 DEF Kinds
    <3>2. Desk!Frame(kind, n) \in [kind : Kinds, n : 0 .. Len(asked)]
      BY <1>1, <2>4 DEF Desk!Frame
    <3> QED
      BY <1>1, <2>4, <3>1, <3>2, FrameQueues
  <2> QED
    BY <1>1, <2>1, <2>2, <2>3, <2>4
<1>3. \A o \in Desk!Hosts : o # h => host[o].n # n
  BY <1>1 DEF ServesNewest, n
<1> SUFFICES ASSUME NEW m \in 1 .. Len(asked)
             PROVE  {f \in Desk!InFlight' : f.n = m} =
                      IF Desk!Handled(m)' /\ Desk!Due(m)' # "nothing"
                      THEN {Desk!Frame(Desk!Due(m), m)'} ELSE {}
  BY <1>1 DEF Desk!Matched, Desk!Frame
<1>4. m # 0
  BY <1>1
<1>5. CASE m = n
  <2>1. Desk!Handled(m)'
    BY <1>1, <1>3, <1>4, <1>5 DEF Desk!Handled, HostMoves
  <2>2. ~ \E o \in Desk!Hosts : host'[o].n = m
    BY <2>1 DEF Desk!Handled
  <2>3. Desk!Due(m)' = kind
    BY <1>1, <1>5, <2>2, AnswerIsOfAKind DEF Desk!Due, Desk!Direct, kind
  <2>4. {f \in Desk!InFlight : f.n = m} = {}
    <3>1. ~Desk!Handled(m)
      BY <1>5 DEF Desk!Handled, n
    <3> QED
      BY <1>1, <3>1 DEF Desk!Matched
  <2>5. Desk!Frame(kind, n).n = n
    BY DEF Desk!Frame
  <2>6. {f \in Desk!InFlight' : f.n = m} = IF kind = "nothing" THEN {} ELSE {Desk!Frame(kind, n)}
    <3>1. CASE kind = "nothing"
      BY <1>2, <1>4, <2>4, <3>1 DEF Moves
    <3>2. CASE kind # "nothing"
      BY <1>2, <1>4, <1>5, <2>4, <2>5, <3>2 DEF Adds
    <3> QED
      BY <3>1, <3>2
  <2> QED
    BY <1>5, <2>1, <2>3, <2>6 DEF Desk!Frame
<1>6. CASE m # n
  <2>1. \A o \in Desk!Hosts : host'[o].n = m <=> host[o].n = m
    BY <1>1, <1>4, <1>6 DEF HostMoves, n
  <2>2. Desk!Handled(m)' = Desk!Handled(m)
    BY <2>1 DEF Desk!Handled
  <2>3. Desk!Due(m)' = Desk!Due(m)
    BY <1>1, <2>1 DEF Desk!Due, Desk!Direct
  <2>4. Desk!Frame(kind, n).n = n
    BY DEF Desk!Frame
  <2>5. {f \in Desk!InFlight' : f.n = m} = {f \in Desk!InFlight : f.n = m}
    <3>1. CASE kind = "nothing"
      BY <1>2, <1>4, <3>1 DEF Moves
    <3>2. CASE kind # "nothing"
      BY <1>2, <1>4, <1>6, <2>4, <3>2 DEF Adds
    <3> QED
      BY <3>1, <3>2
  <2> QED
    BY <1>1, <2>2, <2>3, <2>5 DEF Desk!Matched, Desk!Frame
<1> QED
  BY <1>5, <1>6

(* A link changes, a mark is set or the status task looks: nothing is said. *)
LEMMA QuietSteps ==
  ASSUME PhonesPlaced,
         Desk!Links \/ Desk!MarkUsb \/ Desk!Wake \/ Desk!LookReports \/ Desk!LoadReports
           \/ Desk!StoreReports
  PROVE  /\ UNCHANGED <<asked, lane, answers, lost, courier>>
         /\ \A h \in Desk!Hosts : host'[h].n = host[h].n
<1>1. UNCHANGED <<asked, lane, answers, lost, courier>>
  BY DEF Desk!Links, Desk!BleSecured, Desk!BleJoined, Desk!BleLost, Desk!BleLeft,
     Desk!UsbOpens, Desk!UsbSees, Desk!UsbJoined, Desk!UsbCloses, Desk!UsbLeft,
     Desk!MarkUsb, Desk!Wake, Desk!LookReports, Desk!LoadReports, Desk!StoreReports,
     Desk!ghosts, Desk!phones
<1>h. "ble" \in Desk!Hosts /\ "usb" \in Desk!Hosts
  BY DEF Desk!Hosts
<1>2. CASE Desk!BleSecured
  <2>1. host' = [host EXCEPT !["ble"].at = "joins"]
    BY <1>2 DEF Desk!BleSecured
  <2>2. HostMoves("ble", "joins", host["ble"].n)
    BY <1>h, <2>1, HostGoesOn
  <2> QED
    BY <1>1, <2>2 DEF HostMoves
<1>3. CASE Desk!BleLost
  <2>1. host' = [host EXCEPT !["ble"].at = "leaves"]
    BY <1>3 DEF Desk!BleLost
  <2>2. HostMoves("ble", "leaves", host["ble"].n)
    BY <1>h, <2>1, HostGoesOn
  <2> QED
    BY <1>1, <2>2 DEF HostMoves
<1>4. CASE Desk!BleJoined \/ Desk!BleLeft
  <2>1. HostMoves("ble", "idle", 0)
    BY <1>4, <1>h, HostRests DEF Desk!BleJoined, Desk!BleLeft
  <2>2. host["ble"].n = 0
    BY <1>4, <1>h DEF Desk!BleJoined, Desk!BleLeft, PhonesPlaced, Serves
  <2> QED
    BY <1>1, <2>1, <2>2 DEF HostMoves
<1>5. CASE Desk!MarkUsb
  <2>1. host' = [host EXCEPT !["usb"].at = "handles"]
    BY <1>5 DEF Desk!MarkUsb
  <2>2. "handles" \in {"idle", "joins", "leaves"} \cup Serves
    BY DEF Serves
  <2>3. HostMoves("usb", "handles", host["usb"].n)
    BY <1>h, <2>1, <2>2, HostGoesOn
  <2> QED
    BY <1>1, <2>3 DEF HostMoves
<1>6. CASE UNCHANGED host
  BY <1>1, <1>6
<1> QED
  BY <1>2, <1>3, <1>4, <1>5, <1>6
  DEF Desk!Links, Desk!UsbOpens, Desk!UsbSees, Desk!UsbJoined, Desk!UsbCloses, Desk!UsbLeft,
      Desk!Wake, Desk!LookReports, Desk!LoadReports, Desk!StoreReports

LEMMA MatchedKept ==
  ASSUME PhonesPlaced, ServesNewest, FramesPlaced, Desk!Matched, Desk!Next
  PROVE  Desk!Matched'
<1>1. CASE Desk!Links \/ Desk!MarkUsb \/ Desk!Wake \/ Desk!LookReports \/ Desk!LoadReports
           \/ Desk!StoreReports
  <2>1. Moves
    BY <1>1, QuietSteps, FramesRest
  <2> QED
    BY <1>1, <2>1, QuietSteps, StillMatched
<1>2. ASSUME NEW request \in Asked, Desk!AskBle(request) PROVE Desk!Matched'
  BY <1>2, MatchedWhenAsked DEF Desk!AskBle, Serves, Desk!Hosts
<1>3. ASSUME NEW request \in Asked, Desk!AskUsb(request) PROVE Desk!Matched'
  <2> DEFINE at == IF "ble" \in links THEN "marks ble" ELSE "marks usb"
  <2>1. at \in Serves /\ Desk!Asks("usb", request, at) /\ "usb" \in Desk!Hosts
    BY <1>3 DEF Desk!AskUsb, Serves, Desk!Hosts
  <2> QED
    BY <2>1, MatchedWhenAsked
<1>4. ASSUME NEW h \in Desk!Hosts, Desk!Handle(h) PROVE Desk!Matched'
  BY <1>4, MatchedWhenHandled
<1>5. CASE Desk!ReportMode
  <2>1. Moves /\ UNCHANGED <<asked, host>>
    BY <1>5, ReportQueues DEF Desk!ReportMode, Kinds
  <2> QED
    BY <2>1, StillMatched
<1>6. CASE Desk!ReportStatus
  <2>1. Moves /\ UNCHANGED <<asked, host>>
    BY <1>6, ReportQueues DEF Desk!ReportStatus, Kinds
  <2> QED
    BY <2>1, StillMatched
<1>7. CASE Desk!Take
  <2>1. Moves /\ UNCHANGED <<asked, host>>
    BY <1>7, FrameTaken DEF Desk!Take, Desk!ghosts
  <2> QED
    BY <2>1, StillMatched
<1>8. CASE Desk!Deliver
  <2>1. Moves /\ UNCHANGED <<asked, host>>
    BY <1>8, DeliveryMoves, FrameDelivered
  <2> QED
    BY <2>1, StillMatched
<1> QED
  BY <1>1, <1>2, <1>3, <1>4, <1>5, <1>6, <1>7, <1>8
  DEF Desk!Next, Desk!Dialogue, Desk!Reporting, Desk!Delivery

-----------------------------------------------------------------------------
(* The phone that is alone gets its answers, and each phone its answers in  *)
(* order.                                                                   *)

LEMMA AnswersNumbered ==
  ASSUME FramesPlaced
  PROVE  /\ Len(answers) \in Nat /\ DOMAIN answers = 1 .. Len(answers)
         /\ \A i \in 1 .. Len(answers) : answers[i] \in
              [kind : Kinds \cup {"rpc"}, n : 1 .. Len(asked), to : Desk!Hosts]
<1> DEFINE S == [kind : Kinds \cup {"rpc"}, n : 1 .. Len(asked), to : Desk!Hosts]
<1>1. answers \in Seq(S)
  BY DEF FramesPlaced
<1> HIDE DEF S
<1>2. /\ Len(answers) \in Nat /\ DOMAIN answers = 1 .. Len(answers)
      /\ \A i \in 1 .. Len(answers) : answers[i] \in S
  BY <1>1
<1> QED
  BY <1>2 DEF S

LEMMA LaneNumbered ==
  ASSUME FramesPlaced
  PROVE  /\ Len(lane) \in Nat /\ DOMAIN lane = 1 .. Len(lane)
         /\ \A i \in 1 .. Len(lane) : lane[i] \in [kind : Kinds, n : 0 .. Len(asked)]
<1> DEFINE S == [kind : Kinds, n : 0 .. Len(asked)]
<1>1. lane \in Seq(S)
  BY DEF FramesPlaced
<1> HIDE DEF S
<1>2. /\ Len(lane) \in Nat /\ DOMAIN lane = 1 .. Len(lane)
      /\ \A i \in 1 .. Len(lane) : lane[i] \in S
  BY <1>1
<1> QED
  BY <1>2 DEF S

(* An answer is appended.                                                   *)
LEMMA AnswerAppends ==
  ASSUME FramesPlaced, NEW x,
         x \in [kind : Kinds \cup {"rpc"}, n : 1 .. Len(asked), to : Desk!Hosts],
         answers' = Append(answers, x)
  PROVE  /\ Len(answers) \in Nat
         /\ DOMAIN answers = 1 .. Len(answers) /\ DOMAIN answers' = 1 .. Len(answers) + 1
         /\ \A i \in 1 .. Len(answers) : answers'[i] = answers[i]
         /\ answers'[Len(answers) + 1] = x
<1> DEFINE S == [kind : Kinds \cup {"rpc"}, n : 1 .. Len(asked), to : Desk!Hosts]
<1>1. answers \in Seq(S) /\ x \in S
  BY DEF FramesPlaced
<1> HIDE DEF S
<1> QED
  BY <1>1

LEMMA HomeWhenAppended ==
  ASSUME FramesPlaced, Desk!Home, UNCHANGED <<asked, apart>>, NEW x,
         x \in [kind : Kinds \cup {"rpc"}, n : 1 .. Len(asked), to : Desk!Hosts],
         answers' = Append(answers, x),
         x.n \notin apart => x.to = asked[x.n].host
  PROVE  Desk!Home'
<1>1. /\ Len(answers) \in Nat
      /\ DOMAIN answers = 1 .. Len(answers) /\ DOMAIN answers' = 1 .. Len(answers) + 1
      /\ \A i \in 1 .. Len(answers) : answers'[i] = answers[i]
      /\ answers'[Len(answers) + 1] = x
  BY AnswerAppends
<1> SUFFICES ASSUME NEW i \in 1 .. Len(answers) + 1, answers'[i].n \notin apart
             PROVE  answers'[i].to = asked[answers'[i].n].host
  BY <1>1 DEF Desk!Home
<1>2. CASE i = Len(answers) + 1
  BY <1>1, <1>2
<1>3. CASE i # Len(answers) + 1
  <2>1. i \in 1 .. Len(answers)
    BY <1>1, <1>3
  <2> QED
    BY <1>1, <2>1 DEF Desk!Home
<1> QED
  BY <1>2, <1>3

(* With more requests beside which another phone was, less is said.         *)
LEMMA HomeWhenApart ==
  ASSUME FramesPlaced, Desk!Home, UNCHANGED <<answers, asked>>, apart \subseteq apart'
  PROVE  Desk!Home'
BY DEF Desk!Home

LEMMA HomeWhenAsked ==
  ASSUME PhonesPlaced, ServesNewest, FramesPlaced, LonelyGoHome, Desk!Home,
         NEW h \in Desk!Hosts, NEW request \in Asked, NEW at \in Serves,
         h = "ble" => at = "handles",
         Desk!Asks(h, request, at)
  PROVE  LonelyGoHome' /\ Desk!Home'
<1>1. /\ Len(asked') = Len(asked) + 1 /\ Len(asked) \in Nat
      /\ \A m \in 1 .. Len(asked) : asked'[m] = asked[m]
      /\ asked'[Len(asked) + 1] = [host |-> h, request |-> request]
      /\ DOMAIN asked = 1 .. Len(asked) /\ DOMAIN asked' = 1 .. Len(asked) + 1
  BY PhoneAsks
<1>2. /\ apart' = apart \cup (IF links = {h} THEN {} ELSE {Len(asked) + 1})
      /\ UNCHANGED <<links, courier, answers>>
  BY <1>1 DEF Desk!Asks
<1>3. ASSUME NEW n \in 1 .. Len(asked) + 1, n \notin apart' PROVE links' = {asked'[n].host}
  <2>1. CASE n = Len(asked) + 1
    BY <1>1, <1>2, <1>3, <2>1
  <2>2. CASE n # Len(asked) + 1
    <3>1. n \in 1 .. Len(asked) /\ n \notin apart
      BY <1>1, <1>2, <1>3, <2>2
    <3> QED
      BY <1>1, <1>2, <3>1 DEF LonelyGoHome
  <2> QED
    BY <2>1, <2>2
<1>4. courier'.to # "none" /\ courier'.frame.n # 0 /\ courier'.frame.n \notin apart' =>
        courier'.to = asked'[courier'.frame.n].host
  <2>1. courier.frame.n # 0 => courier.frame.n \in 1 .. Len(asked)
    BY <1>1 DEF FramesPlaced
  <2> QED
    BY <1>1, <1>2, <2>1 DEF LonelyGoHome
<1>5. Desk!Home'
  <2>1. \A i \in DOMAIN answers : answers[i].n \in 1 .. Len(asked)
    BY AnswersNumbered
  <2> QED
    BY <1>1, <1>2, <2>1 DEF Desk!Home
<1> QED
  BY <1>1, <1>3, <1>4, <1>5 DEF LonelyGoHome

(* A phone comes: whoever asked before is of another phone.                 *)
LEMMA HomeWhenJoined ==
  ASSUME LonelyGoHome, Desk!Home, FramesPlaced, UNCHANGED <<asked, answers, courier>>,
         NEW h \in Desk!Hosts, h \notin links, links' = links \cup {h}, Desk!Unsettles(h)
  PROVE  LonelyGoHome' /\ Desk!Home'
<1>1. apart' = apart \cup {n \in DOMAIN asked : asked[n].host # h}
  BY DEF Desk!Unsettles
<1>2. \A n \in DOMAIN asked : n \notin apart' => FALSE
  BY <1>1 DEF LonelyGoHome
<1> QED
  BY <1>1, <1>2, HomeWhenApart DEF LonelyGoHome

LEMMA HomeWhenLeft ==
  ASSUME LonelyGoHome, Desk!Home, FramesPlaced, UNCHANGED <<asked, answers, courier>>,
         apart' = apart \cup DOMAIN asked
  PROVE  LonelyGoHome' /\ Desk!Home'
BY HomeWhenApart DEF LonelyGoHome

LEMMA HomeElse ==
  ASSUME LonelyGoHome, Desk!Home, UNCHANGED <<asked, answers, courier, links, apart>>
  PROVE  LonelyGoHome' /\ Desk!Home'
BY DEF LonelyGoHome, Desk!Home

LEMMA HomeKept ==
  ASSUME PhonesPlaced, ServesNewest, FramesPlaced, LonelyGoHome, Desk!Home, Desk!Next
  PROVE  LonelyGoHome' /\ Desk!Home'
<1>h. "ble" \in Desk!Hosts /\ "usb" \in Desk!Hosts
  BY DEF Desk!Hosts
<1>1. CASE Desk!BleSecured
  BY <1>1, <1>h, HomeWhenJoined DEF Desk!BleSecured
<1>2. CASE Desk!UsbOpens
  BY <1>2, <1>h, HomeWhenJoined DEF Desk!UsbOpens
<1>3. CASE Desk!BleLost \/ Desk!UsbCloses
  BY <1>3, HomeWhenLeft DEF Desk!BleLost, Desk!UsbCloses
<1>4. CASE Desk!BleJoined \/ Desk!BleLeft \/ Desk!UsbSees \/ Desk!UsbJoined \/ Desk!UsbLeft
           \/ Desk!MarkUsb \/ Desk!Wake \/ Desk!LookReports \/ Desk!LoadReports
           \/ Desk!StoreReports \/ Desk!ReportMode \/ Desk!ReportStatus
  <2>1. UNCHANGED <<asked, answers, courier, links, apart>>
    BY <1>4 DEF Desk!BleJoined, Desk!BleLeft, Desk!UsbSees, Desk!UsbJoined, Desk!UsbLeft,
       Desk!MarkUsb, Desk!Wake, Desk!LookReports, Desk!LoadReports, Desk!StoreReports,
       Desk!ReportMode, Desk!ReportStatus, Desk!ghosts, Desk!phones
  <2> QED
    BY <2>1, HomeElse
<1>5. ASSUME NEW request \in Asked, Desk!AskBle(request) PROVE LonelyGoHome' /\ Desk!Home'
  BY <1>5, HomeWhenAsked DEF Desk!AskBle, Serves, Desk!Hosts
<1>6. ASSUME NEW request \in Asked, Desk!AskUsb(request) PROVE LonelyGoHome' /\ Desk!Home'
  <2> DEFINE at == IF "ble" \in links THEN "marks ble" ELSE "marks usb"
  <2>1. at \in Serves /\ Desk!Asks("usb", request, at)
    BY <1>6 DEF Desk!AskUsb, Serves
  <2> QED
    BY <1>h, <2>1, HomeWhenAsked
<1>7. ASSUME NEW h \in Desk!Hosts, Desk!Handle(h) PROVE LonelyGoHome' /\ Desk!Home'
  <2> DEFINE n == host[h].n
             kind == Answer(asked[n].request)
  <2>1. /\ n \in 1 .. Len(asked) /\ asked[n].host = h
        /\ UNCHANGED <<asked, courier, links>>
        /\ UNCHANGED answers \/
             /\ kind = "rpc" /\ answers' = Append(answers, [kind |-> kind, n |-> n, to |-> h])
    BY <1>7, PhoneIsAnswered
  <2>2. UNCHANGED apart
    BY <1>7 DEF Desk!Handle
  <2> HIDE DEF n, kind
  <2>3. CASE UNCHANGED answers
    BY <2>1, <2>2, <2>3, HomeElse
  <2>4. CASE kind = "rpc" /\ answers' = Append(answers, [kind |-> kind, n |-> n, to |-> h])
    <3> DEFINE x == [kind |-> kind, n |-> n, to |-> h]
    <3>1. /\ x \in [kind : Kinds \cup {"rpc"}, n : 1 .. Len(asked), to : Desk!Hosts]
          /\ x.to = asked[x.n].host /\ answers' = Append(answers, x)
      BY <2>1, <2>4
    <3> HIDE DEF x
    <3>2. Desk!Home'
      BY <2>1, <2>2, <3>1, HomeWhenAppended
    <3> QED
      BY <2>1, <2>2, <3>2 DEF LonelyGoHome
  <2> QED
    BY <2>1, <2>3, <2>4
<1>8. CASE Desk!Take
  <2>1. /\ UNCHANGED <<asked, answers, links, apart>>
        /\ courier'.to = IF "ble" \in links THEN "ble"
                         ELSE IF "usb" \in links THEN "usb" ELSE "nobody"
        /\ courier'.frame = Head(lane)
    BY <1>8 DEF Desk!Take, Desk!ghosts, Desk!phones
  <2>2. courier'.frame.n \in 0 .. Len(asked)
    BY <1>8, FramesKept, <2>1 DEF FramesPlaced, Desk!Next, Desk!Delivery
  <2>3. courier'.frame.n # 0 /\ courier'.frame.n \notin apart =>
          courier'.to = asked[courier'.frame.n].host
    <3> SUFFICES ASSUME courier'.frame.n # 0, courier'.frame.n \notin apart
                 PROVE  courier'.to = asked[courier'.frame.n].host
      OBVIOUS
    <3> DEFINE k == courier'.frame.n
    <3>1. k \in 1 .. Len(asked) /\ asked[k].host \in Desk!Hosts /\ k \in DOMAIN asked
      BY <2>2, RequestsNumbered
    <3>2. links = {asked[k].host}
      BY <3>1 DEF LonelyGoHome
    <3> HIDE DEF k
    <3> QED
      BY <2>1, <3>1, <3>2 DEF Desk!Hosts, k
  <2>4. Desk!Home'
    BY <2>1 DEF Desk!Home
  <2> QED
    BY <2>1, <2>3, <2>4 DEF LonelyGoHome
<1>9. CASE Desk!Deliver
  <2>1. /\ Reaches \/ Drops \/ UNCHANGED <<answers, lost>>
        /\ UNCHANGED <<asked, links>> /\ courier'.to = "none"
        /\ UNCHANGED apart
    BY <1>9, FrameDelivered DEF Desk!Deliver
  <2>2. Desk!Home'
    <3>1. CASE Reaches
      <4>1. /\ Heard \in [kind : Kinds \cup {"rpc"}, n : 1 .. Len(asked), to : Desk!Hosts]
            /\ answers' = Append(answers, Heard) /\ courier.frame.n # 0
        BY <3>1 DEF Reaches
      <4>2. courier.to # "none"
        BY <1>9 DEF Desk!Deliver
      <4>3. Heard.n \notin apart => Heard.to = asked[Heard.n].host
        BY <4>1, <4>2 DEF LonelyGoHome, Heard
      <4> QED
        BY <2>1, <4>1, <4>3, HomeWhenAppended
    <3>2. CASE UNCHANGED answers
      BY <2>1, <3>2 DEF Desk!Home
    <3> QED
      BY <2>1, <3>1, <3>2 DEF Drops
  <2> QED
    BY <2>1, <2>2 DEF LonelyGoHome
<1> QED
  BY <1>1, <1>2, <1>3, <1>4, <1>5, <1>6, <1>7, <1>8, <1>9
  DEF Desk!Next, Desk!Links, Desk!Dialogue, Desk!Reporting, Desk!Delivery

(* Requests made before keep their hosts.                                   *)
LEMMA OrderWhenAsked ==
  ASSUME FramesPlaced, InLine, Desk!InOrder, Len(asked) \in Nat,
         \A m \in 1 .. Len(asked) : asked'[m] = asked[m],
         UNCHANGED <<lane, answers, courier>>
  PROVE  InLine' /\ Desk!InOrder'
<1>1. ASSUME NEW m \in 0 .. Len(asked), NEW n \in 0 .. Len(asked), Before(m, n)
      PROVE  Before(m, n)'
  <2>1. CASE m = 0 \/ n = 0
    BY <2>1 DEF Before
  <2>2. CASE m # 0 /\ n # 0
    <3>1. m \in 1 .. Len(asked) /\ n \in 1 .. Len(asked)
      BY <2>2
    <3> QED
      BY <1>1, <2>2, <3>1 DEF Before
  <2> QED
    BY <2>1, <2>2
<1>2. courier.frame.n \in 0 .. Len(asked)
  BY DEF FramesPlaced
<1>3. \A i \in DOMAIN answers : answers[i].n \in 1 .. Len(asked)
  BY AnswersNumbered
<1>4. \A i \in DOMAIN answers : answers[i].n \in 0 .. Len(asked)
  BY <1>3
<1>5. \A i \in DOMAIN lane : lane[i].n \in 0 .. Len(asked)
  BY LaneNumbered
<1>6. InLine'
  <2>1. ASSUME NEW i \in DOMAIN answers', answers'[i].kind # "rpc"
        PROVE  /\ Before(answers[i].n, courier.frame.n)'
               /\ \A j \in DOMAIN lane' : Before(answers[i].n, lane[j].n)'
    <3>1. answers' = answers /\ lane' = lane /\ courier' = courier
      OBVIOUS
    <3>2. i \in DOMAIN answers /\ answers[i].kind # "rpc"
      BY <2>1
    <3>3. /\ Before(answers[i].n, courier.frame.n)
          /\ \A j \in DOMAIN lane : Before(answers[i].n, lane[j].n)
      BY <3>2 DEF InLine
    <3> QED
      BY <1>2, <1>4, <1>5, <1>1, <3>1, <3>2, <3>3 DEF Before
  <2>2. \A j \in DOMAIN lane' : Before(courier.frame.n, lane[j].n)'
    BY <1>1, <1>2, <1>5 DEF InLine, Before
  <2>3. \A i, j \in DOMAIN lane' : i < j => Before(lane[i].n, lane[j].n)'
    BY <1>1, <1>5 DEF InLine, Before
  <2> QED
    BY <2>1, <2>2, <2>3 DEF InLine, Before
<1>7. Desk!InOrder'
  BY <1>3 DEF Desk!InOrder
<1> QED
  BY <1>6, <1>7

LEMMA OrderUntouched ==
  ASSUME InLine, Desk!InOrder, UNCHANGED <<asked, lane, answers, courier>>
  PROVE  InLine' /\ Desk!InOrder'
<1>1. InLine'
  BY DEF InLine, Before
<1>2. Desk!InOrder'
  BY DEF Desk!InOrder
<1> QED
  BY <1>1, <1>2

(* A frame behind all others joins the lane, or is dropped.                 *)
LEMMA OrderWhenQueued ==
  ASSUME PhonesPlaced, FramesPlaced, InLine, Desk!InOrder,
         NEW f \in [kind : Kinds, n : 0 .. Len(asked)], Desk!Queue(f),
         UNCHANGED <<asked, answers, courier>>,
         \A g \in Desk!InFlight : Before(g.n, f.n)
  PROVE  InLine' /\ Desk!InOrder'
<1>1. CASE ~(Len(lane) < LaneSize)
  <2>1. UNCHANGED lane
    BY <1>1 DEF Desk!Queue
  <2> QED
    BY <2>1, OrderUntouched
<1>2. CASE Len(lane) < LaneSize
  <2> DEFINE S == [kind : Kinds, n : 0 .. Len(asked)]
  <2>1. lane \in Seq(S) /\ f \in S /\ lane' = Append(lane, f)
    BY <1>2 DEF FramesPlaced, Desk!Queue
  <2>2. /\ Len(lane) \in Nat
        /\ DOMAIN lane = 1 .. Len(lane) /\ DOMAIN lane' = 1 .. Len(lane) + 1
        /\ \A i \in 1 .. Len(lane) : lane'[i] = lane[i]
        /\ lane'[Len(lane) + 1] = f
    <3> HIDE DEF S
    <3> QED
      BY <2>1
  <2>3. /\ \A i \in DOMAIN answers : Before(answers[i].n, f.n)
        /\ Before(courier.frame.n, f.n)
        /\ \A j \in 1 .. Len(lane) : Before(lane[j].n, f.n)
    <3>1. \A i \in DOMAIN answers : [kind |-> answers[i].kind, n |-> answers[i].n] \in Desk!InFlight
      BY InFlightIs DEF Carried, Desk!ToSet
    <3>2. courier.frame \in Desk!InFlight
      BY InFlightIs
    <3>3. \A j \in 1 .. Len(lane) : lane[j] \in Desk!InFlight
      BY <2>2, InFlightIs DEF Desk!ToSet
    <3> QED
      BY <3>1, <3>2, <3>3
  <2>4. /\ \A m, n : Before(m, n)' <=> Before(m, n)
        /\ answers' = answers /\ courier' = courier
    BY DEF Before
  <2>5. InLine'
    <3>1. ASSUME NEW i \in DOMAIN answers', answers'[i].kind # "rpc"
          PROVE  /\ Before(answers'[i].n, courier'.frame.n)
                 /\ \A j \in DOMAIN lane' : Before(answers'[i].n, lane'[j].n)
      <4>1. i \in DOMAIN answers /\ answers[i].kind # "rpc"
        BY <2>4, <3>1
      <4>2. /\ Before(answers[i].n, courier.frame.n)
            /\ \A j \in 1 .. Len(lane) : Before(answers[i].n, lane[j].n)
        BY <2>2, <4>1 DEF InLine
      <4>3. \A j \in 1 .. Len(lane) + 1 : j \in 1 .. Len(lane) \/ j = Len(lane) + 1
        BY <2>2
      <4> QED
        BY <2>2, <2>3, <2>4, <4>1, <4>2, <4>3
    <3>2. \A j \in DOMAIN lane' : Before(courier'.frame.n, lane'[j].n)
      <4>1. \A j \in 1 .. Len(lane) : Before(courier.frame.n, lane[j].n)
        BY <2>2 DEF InLine
      <4>2. \A j \in 1 .. Len(lane) + 1 : j \in 1 .. Len(lane) \/ j = Len(lane) + 1
        BY <2>2
      <4> QED
        BY <2>2, <2>3, <2>4, <4>1, <4>2
    <3>3. ASSUME NEW i \in DOMAIN lane', NEW j \in DOMAIN lane', i < j
          PROVE  Before(lane'[i].n, lane'[j].n)
      <4>1. i \in 1 .. Len(lane)
        BY <2>2, <3>3
      <4>2. CASE j = Len(lane) + 1
        BY <2>2, <2>3, <4>1, <4>2
      <4>3. CASE j # Len(lane) + 1
        <5>1. j \in 1 .. Len(lane)
          BY <2>2, <4>3
        <5>2. Before(lane[i].n, lane[j].n)
          BY <2>2, <3>3, <4>1, <5>1 DEF InLine
        <5> QED
          BY <2>2, <4>1, <5>1, <5>2
      <4> QED
        BY <4>2, <4>3
    <3> QED
      BY <2>4, <3>1, <3>2, <3>3 DEF InLine, Before
  <2>6. Desk!InOrder'
    BY DEF Desk!InOrder
  <2> QED
    BY <2>5, <2>6
<1> QED
  BY <1>1, <1>2

(* Everything under way to a phone is older than what its task handles.     *)
LEMMA OlderIsUnderWay ==
  ASSUME PhonesPlaced, ServesNewest, FramesPlaced, Desk!Matched,
         NEW h \in Desk!Hosts, host[h].n # 0, NEW g \in Desk!InFlight
  PROVE  Before(g.n, host[h].n)
<1> DEFINE n == host[h].n
<1>1. /\ n \in DOMAIN asked /\ asked[n].host = h
      /\ \A m \in DOMAIN asked : asked[m].host = h => m <= n
  BY DEF ServesNewest
<1>2. g.n \in 0 .. Len(asked) /\ DOMAIN asked = 1 .. Len(asked) /\ Len(asked) \in Nat
  BY FramesAreNumbered, RequestsNumbered
<1>3. ~Desk!Handled(n)
  BY DEF Desk!Handled
<1>4. {f \in Desk!InFlight : f.n = n} = {}
  BY <1>1, <1>3 DEF Desk!Matched
<1>5. g.n # n
  BY <1>4
<1> HIDE DEF n
<1>6. g.n # 0 /\ asked[g.n].host = h => g.n < n
  BY <1>1, <1>2, <1>5
<1>7. Before(g.n, n)
  BY <1>1, <1>6 DEF Before
<1> QED
  BY <1>7 DEF n

LEMMA OrderKept ==
  ASSUME PhonesPlaced, ServesNewest, FramesPlaced, Desk!Matched, InLine, Desk!InOrder, Desk!Next
  PROVE  InLine' /\ Desk!InOrder'
<1>l. Len(asked) \in Nat /\ DOMAIN asked = 1 .. Len(asked)
  BY RequestsNumbered
<1>z. \A m : Before(m, 0)
  BY DEF Before
<1>1. CASE Desk!Links \/ Desk!MarkUsb \/ Desk!Wake \/ Desk!LookReports \/ Desk!LoadReports
           \/ Desk!StoreReports
  BY <1>1, QuietSteps, OrderUntouched
<1>2. ASSUME NEW h \in Desk!Hosts, NEW request \in Asked, NEW at \in Serves,
             h = "ble" => at = "handles", Desk!Asks(h, request, at)
      PROVE  InLine' /\ Desk!InOrder'
  <2>1. \A m \in 1 .. Len(asked) : asked'[m] = asked[m]
    BY <1>2, PhoneAsks
  <2>2. UNCHANGED <<lane, answers, courier>>
    BY <1>2 DEF Desk!Asks
  <2> QED
    BY <1>l, <2>1, <2>2, OrderWhenAsked
<1>3. ASSUME NEW request \in Asked, Desk!AskBle(request) \/ Desk!AskUsb(request)
      PROVE  InLine' /\ Desk!InOrder'
  BY <1>2, <1>3 DEF Desk!AskBle, Desk!AskUsb, Serves, Desk!Hosts
<1>4. ASSUME NEW h \in Desk!Hosts, Desk!Handle(h) PROVE InLine' /\ Desk!InOrder'
  <2> DEFINE n == host[h].n
             kind == Answer(asked[n].request)
  <2>1. /\ n \in 1 .. Len(asked) /\ UNCHANGED <<asked, courier>> /\ h \in Desk!Hosts
        /\ \/ /\ kind = "rpc" /\ UNCHANGED <<lane, lost>>
              /\ answers' = Append(answers, [kind |-> kind, n |-> n, to |-> h])
           \/ UNCHANGED <<lane, answers>>
           \/ kind \in Kinds /\ Desk!Queue(Desk!Frame(kind, n)) /\ UNCHANGED answers
    BY <1>4, PhoneIsAnswered
  <2>n. \A g \in Desk!InFlight : Before(g.n, n)
    <3>1. host[h].n # 0
      BY <1>l, <2>1
    <3> QED
      BY <3>1, OlderIsUnderWay
  <2> HIDE DEF n, kind
  <2>2. CASE /\ kind = "rpc" /\ UNCHANGED <<lane, lost>>
             /\ answers' = Append(answers, [kind |-> kind, n |-> n, to |-> h])
    <3> DEFINE x == [kind |-> kind, n |-> n, to |-> h]
    <3>1. /\ x \in [kind : Kinds \cup {"rpc"}, n : 1 .. Len(asked), to : Desk!Hosts]
          /\ x.kind = "rpc" /\ answers' = Append(answers, x)
      BY <2>1, <2>2
    <3> HIDE DEF x
    <3>2. /\ Len(answers) \in Nat
          /\ DOMAIN answers = 1 .. Len(answers) /\ DOMAIN answers' = 1 .. Len(answers) + 1
          /\ \A i \in 1 .. Len(answers) : answers'[i] = answers[i]
          /\ answers'[Len(answers) + 1].kind = "rpc"
      BY <3>1, AnswerAppends
    <3>3. ASSUME NEW i \in DOMAIN answers', answers'[i].kind # "rpc"
          PROVE  i \in DOMAIN answers /\ answers'[i] = answers[i]
      BY <3>2, <3>3
    <3>4. InLine'
      BY <2>1, <2>2, <3>3 DEF InLine, Before
    <3>5. Desk!InOrder'
      BY <2>1, <3>3 DEF Desk!InOrder
    <3> QED
      BY <3>4, <3>5
  <2>3. CASE UNCHANGED <<lane, answers>>
    BY <2>1, <2>3, OrderUntouched
  <2>4. CASE kind \in Kinds /\ Desk!Queue(Desk!Frame(kind, n)) /\ UNCHANGED answers
    <3>1. /\ Desk!Frame(kind, n) \in [kind : Kinds, n : 0 .. Len(asked)]
          /\ Desk!Frame(kind, n).n = n
      BY <2>1, <2>4 DEF Desk!Frame
    <3> QED
      BY <2>1, <2>4, <2>n, <3>1, OrderWhenQueued
  <2> QED
    BY <2>1, <2>2, <2>3, <2>4
<1>5. ASSUME NEW kind \in Kinds, Desk!Queue(Desk!Frame(kind, 0)), UNCHANGED <<asked, answers, courier>>
      PROVE  InLine' /\ Desk!InOrder'
  <2>1. /\ Desk!Frame(kind, 0) \in [kind : Kinds, n : 0 .. Len(asked)]
        /\ Desk!Frame(kind, 0).n = 0
    BY <1>l DEF Desk!Frame
  <2> QED
    BY <1>5, <1>z, <2>1, OrderWhenQueued
<1>6. CASE Desk!ReportMode \/ Desk!ReportStatus
  BY <1>5, <1>6 DEF Desk!ReportMode, Desk!ReportStatus, Kinds
<1>7. CASE Desk!Take
  <2> DEFINE S == [kind : Kinds, n : 0 .. Len(asked)]
  <2>1. /\ lane \in Seq(S) /\ lane # <<>> /\ lane' = Tail(lane) /\ UNCHANGED <<asked, answers>>
        /\ courier'.frame = Head(lane)
    BY <1>7 DEF FramesPlaced, Desk!Take, Desk!ghosts
  <2>2. /\ Len(lane) \in Nat \ {0} /\ DOMAIN lane = 1 .. Len(lane)
        /\ DOMAIN lane' = 1 .. Len(lane) - 1
        /\ \A i \in 1 .. Len(lane) - 1 : lane'[i] = lane[i + 1]
        /\ courier'.frame = lane[1]
    <3> HIDE DEF S
    <3> QED
      BY <2>1
  <2>3. \A i \in 1 .. Len(lane) - 1 : i + 1 \in 1 .. Len(lane) /\ 1 < i + 1
    BY <2>2
  <2>4. 1 \in 1 .. Len(lane)
    BY <2>2
  <2>5. \A i, j \in 1 .. Len(lane) - 1 : i < j => i + 1 < j + 1
    BY <2>2
  <2>6. InLine'
    <3>1. \A i \in DOMAIN answers : answers[i].kind # "rpc" =>
            /\ Before(answers[i].n, lane[1].n)
            /\ \A j \in 1 .. Len(lane) - 1 : Before(answers[i].n, lane[j + 1].n)
      BY <2>2, <2>3, <2>4 DEF InLine
    <3>2. \A j \in 1 .. Len(lane) - 1 : Before(lane[1].n, lane[j + 1].n)
      BY <2>2, <2>3, <2>4 DEF InLine
    <3>3. \A i, j \in 1 .. Len(lane) - 1 : i < j => Before(lane[i + 1].n, lane[j + 1].n)
      BY <2>2, <2>3, <2>5 DEF InLine
    <3>4. ASSUME NEW i \in DOMAIN answers', answers'[i].kind # "rpc"
          PROVE  /\ Before(answers'[i].n, courier'.frame.n)
                 /\ \A j \in DOMAIN lane' : Before(answers'[i].n, lane'[j].n)
      BY <2>1, <2>2, <3>1, <3>4
    <3>5. \A j \in DOMAIN lane' : Before(courier'.frame.n, lane'[j].n)
      BY <2>2, <3>2
    <3>6. ASSUME NEW i \in DOMAIN lane', NEW j \in DOMAIN lane', i < j
          PROVE  Before(lane'[i].n, lane'[j].n)
      <4>1. i \in 1 .. Len(lane) - 1 /\ j \in 1 .. Len(lane) - 1
        BY <2>2
      <4>2. Before(lane[i + 1].n, lane[j + 1].n)
        BY <3>3, <3>6, <4>1
      <4> QED
        BY <2>2, <4>1, <4>2
    <3> QED
      BY <2>1, <3>4, <3>5, <3>6 DEF InLine, Before
  <2>7. Desk!InOrder'
    BY <2>1 DEF Desk!InOrder
  <2> QED
    BY <2>6, <2>7
<1>8. CASE Desk!Deliver
  <2>1. /\ Reaches \/ Drops \/ UNCHANGED <<answers, lost>>
        /\ UNCHANGED <<asked, lane>> /\ courier'.frame.n = 0
    BY <1>8, FrameDelivered DEF Desk!NoFrame, Desk!Frame
  <2>2. CASE UNCHANGED answers
    <3>1. InLine'
      BY <2>1, <2>2, <1>z DEF InLine, Before
    <3>2. Desk!InOrder'
      BY <2>1, <2>2 DEF Desk!InOrder
    <3> QED
      BY <3>1, <3>2
  <2>3. CASE Reaches
    <3>1. /\ Heard \in [kind : Kinds \cup {"rpc"}, n : 1 .. Len(asked), to : Desk!Hosts]
          /\ answers' = Append(answers, Heard) /\ courier.frame.n # 0
          /\ Heard.n = courier.frame.n
      BY <2>3 DEF Reaches, Heard
    <3>2. /\ Len(answers) \in Nat
          /\ DOMAIN answers = 1 .. Len(answers) /\ DOMAIN answers' = 1 .. Len(answers) + 1
          /\ \A i \in 1 .. Len(answers) : answers'[i] = answers[i]
          /\ answers'[Len(answers) + 1] = Heard
      BY <3>1, AnswerAppends
    <3>3. \A i \in 1 .. Len(answers) + 1 : i \in 1 .. Len(answers) \/ i = Len(answers) + 1
      BY <3>2
    <3>4. \A i \in 1 .. Len(answers) : answers[i].n # 0
      <4>1. \A i \in 1 .. Len(answers) : answers[i].n \in 1 .. Len(asked)
        BY AnswersNumbered
      <4> QED
        BY <1>l, <4>1
    <3>5. InLine'
      <4>1. \A i \in DOMAIN answers' : answers'[i].kind # "rpc" =>
              \A j \in DOMAIN lane : Before(answers'[i].n, lane[j].n)
        BY <3>1, <3>2, <3>3 DEF InLine
      <4>2. \A m, n : Before(m, n)' <=> Before(m, n)
        BY <2>1 DEF Before
      <4>3. \A j \in DOMAIN lane : Before(0, lane[j].n)
        BY DEF Before
      <4> QED
        BY <1>z, <2>1, <4>1, <4>2, <4>3 DEF InLine, Before
    <3>6. Desk!InOrder'
      <4> SUFFICES ASSUME NEW i \in 1 .. Len(answers) + 1, NEW j \in 1 .. Len(answers) + 1, i < j,
                          answers'[i].kind # "rpc", answers'[j].kind # "rpc",
                          asked[answers'[i].n].host = asked[answers'[j].n].host
                   PROVE  answers'[i].n < answers'[j].n
        BY <2>1, <3>2 DEF Desk!InOrder
      <4>1. i \in 1 .. Len(answers)
        BY <3>2
      <4>2. CASE j = Len(answers) + 1
        <5>1. Before(answers[i].n, courier.frame.n)
          BY <3>2, <4>1 DEF InLine
        <5> QED
          BY <3>1, <3>2, <3>4, <4>1, <4>2, <5>1 DEF Before
      <4>3. CASE j \in 1 .. Len(answers)
        BY <3>2, <4>1, <4>3 DEF Desk!InOrder
      <4> QED
        BY <3>3, <4>2, <4>3
    <3> QED
      BY <3>5, <3>6
  <2> QED
    BY <2>1, <2>2, <2>3 DEF Drops
<1> QED
  BY <1>1, <1>3, <1>4, <1>6, <1>7, <1>8
  DEF Desk!Next, Desk!Dialogue, Desk!Reporting, Desk!Delivery

-----------------------------------------------------------------------------
(* The mode is reported first, and the phone marked as active is there.     *)

(* A task other than the ones named takes a step.                           *)
LEMMA ModeUntouched ==
  ASSUME ModeIsDue, UNCHANGED <<links, reports, monitor, profiled, early, joins>>,
         \/ host'["ble"].at = host["ble"].at
         \/ /\ host'["ble"].at \notin {"joins", "leaves"} /\ host["ble"].at # "joins"
  PROVE  ModeIsDue'
BY DEF ModeIsDue

LEMMA ModeKept ==
  ASSUME PhonesPlaced, ServesNewest, ModeIsDue, Desk!Next
  PROVE  ModeIsDue'
<1>h. "ble" \in Desk!Hosts /\ "usb" \in Desk!Hosts /\ "ble" # "usb"
  BY DEF Desk!Hosts
<1>m. /\ joins \in Nat /\ reports \in 0 .. 255
      /\ monitor \in [at : {"waits", "looks", "loads", "stores", "profile", "status"},
                      old : Nat, session : 0 .. joins]
      /\ monitor.old \in 0 .. 255
  BY DEF ModeIsDue
<1>1. CASE Desk!BleSecured
  <2>1. /\ HostMoves("ble", "joins", host["ble"].n)
        /\ links' = links \cup {"ble"} /\ joins' = joins + 1
        /\ UNCHANGED <<reports, monitor, profiled, early>>
    BY <1>1, <1>h, HostGoesOn DEF Desk!BleSecured
  <2>2. /\ joins' \in Nat /\ joins' > 0 /\ monitor.session # joins'
        /\ monitor' \in [at : {"waits", "looks", "loads", "stores", "profile", "status"},
                         old : Nat, session : 0 .. joins']
    BY <1>m, <2>1
  <2>3. host'["ble"].at = "joins"
    BY <2>1 DEF HostMoves
  <2> QED
    BY <2>1, <2>2, <2>3 DEF ModeIsDue
<1>2. CASE Desk!BleJoined
  <2>1. /\ HostMoves("ble", "idle", 0) /\ host["ble"].at = "joins"
        /\ reports' = 3 /\ profiled' = FALSE
        /\ UNCHANGED <<links, monitor, early, joins>>
    BY <1>2, <1>h, HostRests DEF Desk!BleJoined, Desk!bounds
  <2>2. host'["ble"].at = "idle"
    BY <2>1 DEF HostMoves
  <2>3. reports' \in 0 .. 255 /\ reports' > 0
    BY <2>1
  <2>4. profiled' \in BOOLEAN
    BY <2>1
  <2> QED
    BY <2>1, <2>2, <2>3, <2>4 DEF ModeIsDue
<1>3. CASE Desk!BleLost
  <2>1. /\ HostMoves("ble", "leaves", host["ble"].n)
        /\ links' = links \ {"ble"}
        /\ UNCHANGED <<reports, monitor, profiled, early, joins>>
    BY <1>3, <1>h, HostGoesOn DEF Desk!BleLost, Desk!bounds
  <2>2. host'["ble"].at = "leaves"
    BY <2>1 DEF HostMoves
  <2> QED
    BY <2>1, <2>2 DEF ModeIsDue
<1>4. CASE Desk!BleLeft
  <2>1. /\ HostMoves("ble", "idle", 0) /\ host["ble"].at = "leaves"
        /\ reports' = 0
        /\ UNCHANGED <<links, monitor, early, joins, profiled>>
    BY <1>4, <1>h, HostRests DEF Desk!BleLeft, Desk!bounds, Desk!ghosts
  <2>2. host'["ble"].at = "idle" /\ reports' \in 0 .. 255
    BY <2>1 DEF HostMoves
  <2> QED
    BY <2>1, <2>2 DEF ModeIsDue
<1>5. CASE Desk!UsbOpens
  <2>1. /\ links' = links \cup {"usb"} /\ joins' = joins + 1
        /\ UNCHANGED <<host, reports, monitor, profiled, early>>
    BY <1>5 DEF Desk!UsbOpens
  <2>2. /\ joins' \in Nat /\ joins' > 0 /\ monitor.session # joins'
        /\ monitor' \in [at : {"waits", "looks", "loads", "stores", "profile", "status"},
                         old : Nat, session : 0 .. joins']
    BY <1>m, <2>1
  <2> QED
    BY <2>1, <2>2, <1>h DEF ModeIsDue
<1>6. CASE Desk!UsbCloses
  <2>1. /\ links' = links \ {"usb"}
        /\ UNCHANGED <<host, reports, monitor, profiled, early, joins>>
    BY <1>6 DEF Desk!UsbCloses, Desk!bounds
  <2> QED
    BY <2>1, <1>h DEF ModeIsDue
<1>7. CASE Desk!UsbSees \/ Desk!UsbJoined \/ Desk!UsbLeft \/ Desk!Take \/ Desk!Deliver
  BY <1>7, ModeUntouched DEF Desk!UsbSees, Desk!UsbJoined, Desk!UsbLeft, Desk!Take, Desk!Deliver,
     Desk!phones, Desk!ghosts, Desk!bounds
<1>8. ASSUME NEW h \in Desk!Hosts, NEW request \in Asked, NEW at \in Serves,
             h = "ble" => at = "handles", Desk!Asks(h, request, at)
      PROVE  ModeIsDue'
  <2>1. /\ HostMoves(h, at, Len(asked) + 1) /\ host[h].at = "idle"
        /\ UNCHANGED <<links, reports, monitor, profiled, early, joins>>
    <3>1. HostMoves(h, at, Len(asked) + 1)
      BY <1>8, PhoneAsks
    <3>2. /\ host[h].at = "idle"
          /\ UNCHANGED <<links, reports, monitor, profiled, early, joins>>
      BY <1>8 DEF Desk!Asks, Desk!bounds, Desk!Rest
    <3> QED
      BY <3>1, <3>2
  <2>2. at \notin {"joins", "leaves"}
    BY DEF Serves
  <2> QED
    BY <1>h, <2>1, <2>2, ModeUntouched DEF HostMoves
<1>9. ASSUME NEW request \in Asked, Desk!AskBle(request) \/ Desk!AskUsb(request)
      PROVE  ModeIsDue'
  BY <1>8, <1>9 DEF Desk!AskBle, Desk!AskUsb, Serves, Desk!Hosts
<1>10. CASE Desk!MarkUsb
  <2>1. /\ host' = [host EXCEPT !["usb"].at = "handles"]
        /\ "handles" \in {"idle", "joins", "leaves"} \cup Serves
        /\ UNCHANGED <<links, reports, monitor, profiled, early, joins>>
    BY <1>10 DEF Desk!MarkUsb, Desk!bounds, Desk!ghosts, Serves
  <2>2. HostMoves("usb", "handles", host["usb"].n)
    BY <1>h, <2>1, HostGoesOn
  <2> QED
    BY <1>h, <2>1, <2>2, ModeUntouched DEF HostMoves
<1>11. ASSUME NEW h \in Desk!Hosts, Desk!Handle(h) PROVE ModeIsDue'
  <2>1. /\ HostMoves(h, "idle", 0) /\ host[h].at = "handles"
        /\ UNCHANGED <<links, reports, monitor, profiled, early, joins>>
    BY <1>11, HostRests DEF Desk!Handle, Desk!phones, Desk!bounds
  <2> QED
    BY <1>h, <2>1, ModeUntouched DEF HostMoves
<1>12. CASE Desk!Wake
  <2>1. /\ links # {} /\ monitor.at = "waits"
        /\ monitor' = [at |-> "looks", old |-> 0,
                       session |-> IF host["ble"].at = "joins" THEN 0 ELSE joins]
        /\ UNCHANGED <<links, reports, profiled, early, joins, host>>
    BY <1>12 DEF Desk!Wake, Desk!phones, Desk!ghosts
  <2>2. joins > 0
    BY <2>1 DEF ModeIsDue
  <2>3. /\ monitor' \in [at : {"waits", "looks", "loads", "stores", "profile", "status"},
                         old : Nat, session : 0 .. joins]
        /\ monitor'.old \in 0 .. 255 /\ monitor'.at = "looks"
        /\ monitor'.session = joins => host["ble"].at # "joins"
    BY <1>m, <2>1, <2>2
  <2> QED
    BY <2>1, <2>3 DEF ModeIsDue
<1>13. CASE Desk!LookReports
  <2>1. /\ monitor.at = "looks"
        /\ monitor' = [monitor EXCEPT !.at = IF reports > 0 THEN "loads" ELSE "status"]
        /\ UNCHANGED <<links, reports, profiled, early, joins, host>>
    BY <1>13 DEF Desk!LookReports, Desk!phones, Desk!ghosts, Desk!bounds
  <2>2. /\ monitor' \in [at : {"waits", "looks", "loads", "stores", "profile", "status"},
                         old : Nat, session : 0 .. joins]
        /\ monitor'.at = IF reports > 0 THEN "loads" ELSE "status"
        /\ monitor'.session = monitor.session /\ monitor'.old = monitor.old
    BY <1>m, <2>1
  <2>3. monitor'.at = "status" => ~(reports > 0)
    BY <2>2
  <2>4. monitor'.at \notin {"waits", "profile"}
    BY <2>2
  <2>5. monitor'.at = "status" /\ monitor.session = joins /\ "ble" \in links => profiled = TRUE
    BY <2>1, <2>3 DEF ModeIsDue
  <2> QED
    BY <2>1, <2>2, <2>4, <2>5 DEF ModeIsDue
<1>14. CASE Desk!LoadReports
  <2>1. /\ monitor.at = "loads"
        /\ monitor' = [monitor EXCEPT !.at = "stores", !.old = reports]
        /\ UNCHANGED <<links, reports, profiled, early, joins, host>>
    BY <1>14 DEF Desk!LoadReports, Desk!phones, Desk!ghosts, Desk!bounds
  <2>2. /\ monitor' \in [at : {"waits", "looks", "loads", "stores", "profile", "status"},
                         old : Nat, session : 0 .. joins]
        /\ monitor'.at = "stores" /\ monitor'.session = monitor.session
        /\ monitor'.old \in 0 .. 255
    <3>1. monitor' = [at |-> "stores", old |-> reports, session |-> monitor.session]
      BY <1>m, <2>1
    <3> QED
      BY <1>m, <3>1
  <2> QED
    BY <2>1, <2>2 DEF ModeIsDue
<1>15. CASE Desk!StoreReports
  <2>1. /\ monitor.at = "stores"
        /\ monitor' = [monitor EXCEPT !.at = "profile", !.old = 0]
        /\ reports' = (monitor.old + 255) % 256
        /\ UNCHANGED <<links, profiled, early, joins, host>>
    BY <1>15 DEF Desk!StoreReports, Desk!ghosts, Desk!bounds
  <2>2. /\ monitor' \in [at : {"waits", "looks", "loads", "stores", "profile", "status"},
                         old : Nat, session : 0 .. joins]
        /\ monitor'.at = "profile" /\ monitor'.session = monitor.session
        /\ monitor'.old \in 0 .. 255
    <3>1. monitor' = [at |-> "profile", old |-> 0, session |-> monitor.session]
      BY <1>m, <2>1
    <3> QED
      BY <1>m, <3>1
  <2>3. reports' \in 0 .. 255
    BY <1>m, <2>1
  <2> QED
    BY <2>1, <2>2, <2>3 DEF ModeIsDue
<1>16. CASE Desk!ReportMode
  <2>1. /\ monitor.at = "profile" /\ monitor' = [monitor EXCEPT !.at = "status"]
        /\ profiled' = TRUE
        /\ UNCHANGED <<links, reports, early, joins, host>>
    BY <1>16 DEF Desk!ReportMode, Desk!phones, Desk!bounds
  <2>2. /\ monitor' \in [at : {"waits", "looks", "loads", "stores", "profile", "status"},
                         old : Nat, session : 0 .. joins]
        /\ monitor'.at = "status" /\ monitor'.session = monitor.session
        /\ monitor'.old = monitor.old
    BY <1>m, <2>1
  <2> QED
    BY <2>1, <2>2 DEF ModeIsDue
<1>17. CASE Desk!ReportStatus
  <2>1. /\ monitor.at = "status" /\ monitor' = [monitor EXCEPT !.at = "waits"]
        /\ early' = (early \/ (Desk!Current /\ ~profiled))
        /\ UNCHANGED <<links, reports, profiled, joins, host>>
    BY <1>17 DEF Desk!ReportStatus, Desk!phones, Desk!bounds
  <2>2. /\ monitor' \in [at : {"waits", "looks", "loads", "stores", "profile", "status"},
                         old : Nat, session : 0 .. joins]
        /\ monitor'.at = "waits" /\ monitor'.session = monitor.session
        /\ monitor'.old = monitor.old
    BY <1>m, <2>1
  <2>3. Desk!Current => profiled = TRUE
    BY <2>1 DEF Desk!Current, ModeIsDue
  <2>4. early = FALSE
    BY DEF ModeIsDue
  <2>5. early' = FALSE
    BY <2>1, <2>3, <2>4
  <2> QED
    BY <2>1, <2>2, <2>5 DEF ModeIsDue
<1> QED
  BY <1>1, <1>2, <1>3, <1>4, <1>5, <1>6, <1>7, <1>9, <1>10, <1>11, <1>12, <1>13, <1>14, <1>15,
     <1>16, <1>17
  DEF Desk!Next, Desk!Links, Desk!Dialogue, Desk!Reporting, Desk!Delivery

LEMMA MarkUntouched ==
  ASSUME MarksWhatIsThere, UNCHANGED <<links, active, cable, crossed>>,
         \/ host' = host
         \/ /\ host'["ble"].at = host["ble"].at
            /\ host'["usb"].at \notin {"marks ble", "marks usb"}
         \/ /\ host'["usb"] = host["usb"] /\ host["ble"].at # "leaves"
  PROVE  MarksWhatIsThere'
BY DEF MarksWhatIsThere

LEMMA MarksKept ==
  ASSUME PhonesPlaced, ServesNewest, ModeIsDue, MarksWhatIsThere, Desk!Next
  PROVE  MarksWhatIsThere'
<1>h. "ble" \in Desk!Hosts /\ "usb" \in Desk!Hosts /\ "ble" # "usb"
  BY DEF Desk!Hosts
<1>c. crossed \in BOOLEAN
  BY DEF MarksWhatIsThere
<1>1. CASE Desk!BleSecured
  <2>1. /\ HostMoves("ble", "joins", host["ble"].n)
        /\ links' = links \cup {"ble"} /\ crossed' = (crossed \/ Desk!Marking)
        /\ UNCHANGED <<active, cable>> /\ host["ble"].at = "idle"
    <3>1. /\ host' = [host EXCEPT !["ble"].at = "joins"] /\ host["ble"].at = "idle"
          /\ links' = links \cup {"ble"} /\ crossed' = (crossed \/ Desk!Marking)
          /\ UNCHANGED <<active, cable>>
      BY <1>1 DEF Desk!BleSecured, Desk!Rest
    <3>2. HostMoves("ble", "joins", host["ble"].n)
      BY <1>h, <3>1, HostGoesOn
    <3> QED
      BY <3>1, <3>2
  <2>2. host'["usb"] = host["usb"]
    BY <1>h, <2>1 DEF HostMoves
  <2>3. crossed' \in BOOLEAN /\ (crossed = TRUE => crossed' = TRUE)
    BY <1>c, <2>1
  <2>4. crossed' = FALSE => crossed = FALSE
    BY <1>c, <2>3
  <2> QED
    BY <1>h, <2>1, <2>2, <2>3, <2>4 DEF MarksWhatIsThere
<1>2. CASE Desk!BleJoined
  <2>1. /\ HostMoves("ble", "idle", 0) /\ host["ble"].at = "joins"
        /\ active' = "ble"
        /\ UNCHANGED <<links, cable, crossed>>
    BY <1>2, <1>h, HostRests DEF Desk!BleJoined
  <2>2. host'["usb"] = host["usb"] /\ "ble" \in links
    BY <1>h, <2>1 DEF HostMoves, ModeIsDue
  <2> QED
    BY <2>1, <2>2 DEF MarksWhatIsThere
<1>3. CASE Desk!BleLost
  <2>1. /\ links' = links \ {"ble"} /\ crossed' = (crossed \/ Desk!Marking)
        /\ UNCHANGED <<active, cable>> /\ host["ble"].at = "idle"
        /\ host' = [host EXCEPT !["ble"].at = "leaves"]
    BY <1>3 DEF Desk!BleLost, Desk!Rest
  <2>2. HostMoves("ble", "leaves", host["ble"].n)
    BY <1>h, <2>1, HostGoesOn
  <2>3. host'["usb"] = host["usb"] /\ host'["ble"].at = "leaves"
    BY <1>h, <2>2 DEF HostMoves
  <2>4. crossed' \in BOOLEAN /\ (crossed = TRUE => crossed' = TRUE)
    BY <1>c, <2>1
  <2>5. crossed' = FALSE => host["usb"].at \notin {"marks ble", "marks usb"}
    BY <1>c, <2>1 DEF Desk!Marking
  <2>6. \/ crossed' = TRUE
        \/ active' \in links' \cup {"none"}
        \/ active' = "ble" /\ host'["ble"].at = "leaves"
        \/ active' = "usb" /\ cable' = "leaves"
    BY <2>1, <2>3, <2>4 DEF MarksWhatIsThere
  <2>7. /\ cable' \in {"idle", "joins", "marks", "leaves"}
        /\ cable' \in {"joins", "marks"} => "usb" \in links'
        /\ cable' = "leaves" => "usb" \notin links'
    BY <1>h, <2>1 DEF MarksWhatIsThere
  <2> QED
    BY <2>3, <2>4, <2>5, <2>6, <2>7 DEF MarksWhatIsThere
<1>4. CASE Desk!BleLeft
  <2>1. /\ HostMoves("ble", "idle", 0) /\ host["ble"].at = "leaves"
        /\ active' = IF active = "ble" THEN "none" ELSE active
        /\ UNCHANGED <<links, cable, crossed>>
    BY <1>4, <1>h, HostRests DEF Desk!BleLeft, Desk!ghosts
  <2>2. host'["usb"] = host["usb"]
    BY <1>h, <2>1 DEF HostMoves
  <2> QED
    BY <2>1, <2>2 DEF MarksWhatIsThere
<1>5. CASE Desk!UsbOpens
  <2>1. /\ links' = links \cup {"usb"} /\ cable = "idle" /\ cable' = "joins"
        /\ UNCHANGED <<active, host, crossed>>
    BY <1>5 DEF Desk!UsbOpens
  <2> QED
    BY <2>1 DEF MarksWhatIsThere
<1>6. CASE Desk!UsbSees
  <2>1. /\ cable = "joins" /\ cable' \in {"idle", "marks"}
        /\ UNCHANGED <<links, active, host, crossed>>
    BY <1>6 DEF Desk!UsbSees, Desk!phones, Desk!ghosts
  <2> QED
    BY <2>1 DEF MarksWhatIsThere
<1>7. CASE Desk!UsbJoined
  <2>1. /\ cable = "marks" /\ cable' = "idle" /\ active' = "usb"
        /\ UNCHANGED <<links, host, crossed>>
    BY <1>7 DEF Desk!UsbJoined, Desk!ghosts
  <2> QED
    BY <2>1 DEF MarksWhatIsThere
<1>8. CASE Desk!UsbCloses
  <2>1. /\ cable = "idle" /\ cable' = "leaves" /\ links' = links \ {"usb"}
        /\ crossed' = (crossed \/ Desk!Marking)
        /\ UNCHANGED <<active, host>>
    BY <1>8 DEF Desk!UsbCloses
  <2>2. crossed' \in BOOLEAN /\ (crossed = TRUE => crossed' = TRUE)
    BY <1>c, <2>1
  <2>3. crossed' = FALSE => host["usb"].at \notin {"marks ble", "marks usb"}
    BY <1>c, <2>1 DEF Desk!Marking
  <2>4. \/ crossed' = TRUE
        \/ active' \in links' \cup {"none"}
        \/ active' = "ble" /\ host'["ble"].at = "leaves"
        \/ active' = "usb" /\ cable' = "leaves"
    BY <2>1, <2>2 DEF MarksWhatIsThere
  <2> QED
    BY <2>1, <2>2, <2>3, <2>4 DEF MarksWhatIsThere
<1>9. CASE Desk!UsbLeft
  <2>1. /\ cable = "leaves" /\ cable' = "idle"
        /\ active' = IF active = "usb" THEN "none" ELSE active
        /\ UNCHANGED <<links, host, crossed>>
    BY <1>9 DEF Desk!UsbLeft, Desk!ghosts
  <2> QED
    BY <2>1 DEF MarksWhatIsThere
<1>10. CASE Desk!Reporting \/ Desk!Delivery
  <2>1. UNCHANGED <<links, active, cable, crossed, host>>
    BY <1>10 DEF Desk!Reporting, Desk!Delivery, Desk!Wake, Desk!LookReports, Desk!LoadReports,
         Desk!StoreReports, Desk!ReportMode, Desk!ReportStatus, Desk!Take, Desk!Deliver,
         Desk!ghosts, Desk!phones
  <2> QED
    BY <2>1, MarkUntouched
<1>11. ASSUME NEW request \in Asked, Desk!AskBle(request) PROVE MarksWhatIsThere'
  <2>1. Desk!Asks("ble", request, "handles") /\ active' = "ble" /\ "handles" \in Serves
    BY <1>11 DEF Desk!AskBle, Serves
  <2>2. HostMoves("ble", "handles", Len(asked) + 1)
    BY <1>h, <2>1, PhoneAsks
  <2>3. /\ "ble" \in links
        /\ UNCHANGED <<links, cable, crossed>>
    BY <2>1 DEF Desk!Asks
  <2>4. host'["usb"] = host["usb"]
    BY <1>h, <2>2 DEF HostMoves
  <2> QED
    BY <2>1, <2>3, <2>4 DEF MarksWhatIsThere
<1>12. ASSUME NEW request \in Asked, Desk!AskUsb(request) PROVE MarksWhatIsThere'
  <2> DEFINE at == IF "ble" \in links THEN "marks ble" ELSE "marks usb"
  <2>1. Desk!Asks("usb", request, at) /\ UNCHANGED active /\ at \in Serves
    BY <1>12 DEF Desk!AskUsb, Serves
  <2>2. HostMoves("usb", at, Len(asked) + 1)
    <3> HIDE DEF at
    <3> QED
      BY <1>h, <2>1, PhoneAsks
  <2>3. /\ "usb" \in links
        /\ UNCHANGED <<links, cable, crossed>>
    BY <2>1 DEF Desk!Asks
  <2>4. host'["ble"] = host["ble"] /\ host'["usb"].at = at
    BY <1>h, <2>2 DEF HostMoves
  <2>5. /\ host'["usb"].at = "marks ble" => "ble" \in links
        /\ host'["usb"].at = "marks usb" => "usb" \in links
    BY <2>3, <2>4
  <2> QED
    BY <2>1, <2>3, <2>4, <2>5 DEF MarksWhatIsThere
<1>13. CASE Desk!MarkUsb
  <2>1. /\ host' = [host EXCEPT !["usb"].at = "handles"]
        /\ "handles" \in {"idle", "joins", "leaves"} \cup Serves
        /\ active' = IF host["usb"].at = "marks ble" THEN "ble" ELSE "usb"
        /\ host["usb"].at \in {"marks ble", "marks usb"}
        /\ UNCHANGED <<links, cable, crossed>>
    BY <1>13 DEF Desk!MarkUsb, Desk!Marking, Desk!ghosts, Serves
  <2>2. HostMoves("usb", "handles", host["usb"].n)
    BY <1>h, <2>1, HostGoesOn
  <2>3. host'["ble"] = host["ble"] /\ host'["usb"].at = "handles"
    BY <1>h, <2>2 DEF HostMoves
  <2>4. crossed = TRUE \/ active' \in links
    BY <1>c, <2>1 DEF MarksWhatIsThere
  <2> QED
    BY <2>1, <2>3, <2>4 DEF MarksWhatIsThere
<1>14. ASSUME NEW h \in Desk!Hosts, Desk!Handle(h) PROVE MarksWhatIsThere'
  <2>1. /\ HostMoves(h, "idle", 0) /\ host[h].at = "handles"
        /\ UNCHANGED <<links, active, cable, crossed>>
    BY <1>14, HostRests DEF Desk!Handle, Desk!phones
  <2>2. CASE h = "ble"
    <3>1. host'["usb"] = host["usb"] /\ host["ble"].at # "leaves"
      BY <1>h, <2>1, <2>2 DEF HostMoves
    <3> QED
      BY <2>1, <3>1, MarkUntouched
  <2>3. CASE h = "usb"
    <3>1. host'["ble"].at = host["ble"].at /\ host'["usb"].at = "idle"
      BY <1>h, <2>1, <2>3 DEF HostMoves
    <3> QED
      BY <2>1, <3>1, MarkUntouched
  <2> QED
    BY <2>2, <2>3 DEF Desk!Hosts
<1> QED
  BY <1>1, <1>2, <1>3, <1>4, <1>5, <1>6, <1>7, <1>8, <1>9, <1>10, <1>11, <1>12, <1>13, <1>14
  DEF Desk!Next, Desk!Links, Desk!Dialogue

LEMMA DeskKept ==
  ASSUME DeskInv, [Desk!Next]_(Desk!vars)
  PROVE  DeskInv'
<1>1. CASE Desk!Next
  <2>i. /\ PhonesPlaced /\ ServesNewest /\ FramesPlaced
        /\ Desk!Matched
        /\ LonelyGoHome /\ Desk!Home
        /\ InLine /\ Desk!InOrder
        /\ ModeIsDue /\ MarksWhatIsThere
    BY DEF DeskInv
  <2>1. PhonesPlaced' /\ ServesNewest'
    BY <1>1, <2>i, PhonesKept
  <2>2. FramesPlaced'
    BY <1>1, <2>i, FramesKept
  <2>3. Desk!Matched'
    BY <1>1, <2>i, MatchedKept
  <2>4. LonelyGoHome' /\ Desk!Home'
    BY <1>1, <2>i, HomeKept
  <2>5. InLine' /\ Desk!InOrder'
    BY <1>1, <2>i, OrderKept
  <2>6. ModeIsDue'
    BY <1>1, <2>i, ModeKept
  <2>7. MarksWhatIsThere'
    BY <1>1, <2>i, MarksKept
  <2> QED
    BY <2>1, <2>2, <2>3, <2>4, <2>5, <2>6, <2>7 DEF DeskInv
<1>2. CASE UNCHANGED Desk!vars
  <2>1. UNCHANGED <<links, active, reports, host, cable, monitor, courier, lane, answers, lost,
                    asked, apart, profiled, early, crossed, joins, wakes>>
    BY <1>2 DEF Desk!vars, Desk!phones, Desk!tasks, Desk!ghosts, Desk!bounds
  <2>2. /\ PhonesPlaced /\ ServesNewest /\ FramesPlaced
        /\ Desk!Matched
        /\ LonelyGoHome /\ Desk!Home
        /\ InLine /\ Desk!InOrder
        /\ ModeIsDue /\ MarksWhatIsThere
    BY DEF DeskInv
  <2>3. PhonesPlaced' /\ ServesNewest' /\ FramesPlaced'
    BY <2>1, <2>2 DEF PhonesPlaced, ServesNewest, FramesPlaced
  <2>4. Desk!Matched'
    <3>1. Moves
      BY <2>1, FramesRest
    <3> QED
      BY <2>1, <2>2, <3>1, StillMatched
  <2>5. LonelyGoHome' /\ Desk!Home'
    BY <2>1, <2>2, HomeElse
  <2>6. InLine' /\ Desk!InOrder'
    BY <2>1, <2>2, OrderUntouched
  <2>7. ModeIsDue'
    BY <2>1, <2>2, ModeUntouched
  <2>8. MarksWhatIsThere'
    BY <2>1, <2>2, MarkUntouched
  <2> QED
    BY <2>3, <2>4, <2>5, <2>6, <2>7, <2>8 DEF DeskInv
<1> QED
  BY <1>1, <1>2

LEMMA DeskIsKept == DeskInv => Desk!DialogueKept
<1> SUFFICES ASSUME DeskInv PROVE Desk!DialogueKept
  OBVIOUS
<1>1. Desk!Matched /\ Desk!Home /\ Desk!InOrder
  BY DEF DeskInv
<1>2. Desk!ModeFirst
  BY DEF DeskInv, ModeIsDue, Desk!ModeFirst
<1>3. Desk!ActiveIsThere
  BY DEF DeskInv, MarksWhatIsThere, Desk!ActiveIsThere
<1> QED
  BY <1>1, <1>2, <1>3 DEF Desk!DialogueKept

(* Every request is answered once, by the answer of its kind; a phone that  *)
(* is alone gets its own answers, each phone gets them in order, the mode   *)
(* is reported before the status, and the phone marked as active is there   *)
(* (halow_sync_bridge_handle_to_radio, mobile_rx_task, status_report_task). *)
THEOREM DialogueStays == Desk!Spec => []Desk!DialogueKept
<1>1. Desk!Init => DeskInv
  BY DeskStarts
<1>2. DeskInv /\ [Desk!Next]_(Desk!vars) => DeskInv'
  BY DeskKept
<1> QED
  BY <1>1, <1>2, DeskIsKept, PTL DEF Desk!Spec

(* What two devices say to each other reaches whom it is for, and what a    *)
(* phone asks its device comes back to it.                                  *)
THEOREM TalkStays == Chat!Spec /\ Desk!Spec => []TalkKept
<1>1. Chat!ConversationKept /\ Desk!DialogueKept => TalkKept
  BY DEF TalkKept
<1> QED
  BY <1>1, ConversationStays, DialogueStays, PTL

-----------------------------------------------------------------------------
(* Reliable delivery (ReliableDelivery).  Proofs hold for every set of       *)
(* packets and every value of the table sizes, the attempts and the timers.  *)

USE ConstantsAssumption DEF Slots, DedupeSlots

(* The messages are told apart by their key.                               *)
LEMMA KeyIdentifies ==
  ASSUME NEW m \in Messages, NEW n \in Messages, SameKey(m, n)
  PROVE  m = n
BY MessagesAssumption DEF SameKey

(* Every slot holds the free entry or a complete one, and a valid slot     *)
(* holds a complete one.                                                   *)
LEMMA ValidEntry ==
  ASSUME TypeOK, NEW s \in Slots, Valid(s)
  PROVE  pending[s] \in Entry
BY DEF TypeOK, Entry, Empty, Valid

LEMMA InitTypeOK == Init => TypeOK
BY DEF Init, TypeOK, Entry, Empty, Idle

(* Every operation of the reliable layer keeps the tables well formed and  *)
(* attempts within EDGEZ_RELIABLE_MAX_ATTEMPTS.                            *)
LEMMA NextTypeOK == TypeOK /\ [Next]_vars => TypeOK'
<1> SUFFICES ASSUME TypeOK, [Next]_vars PROVE TypeOK'
  OBVIOUS
<1>1. CASE UNCHANGED vars
  BY <1>1 DEF TypeOK, vars
<1>2. ASSUME NEW m \in Messages, MobileSend(m) PROVE TypeOK'
  <2>1. Frame("data", m) \in Frames
    BY DEF Frame, Frames
  <2>2. At("sent", m) \in [at : {"sent"}, msg : Messages]
    BY DEF At
  <2>3. /\ air' \subseteq Frames
        /\ tx' \in [Messages -> Nat]
        /\ mobile' \in [at : {"sent"}, msg : Messages] \cup {Idle}
    <3>1. CASE UNCHANGED <<air, tx, mobile>>
      BY <3>1 DEF TypeOK
    <3>2. CASE /\ air' = air \cup {Frame("data", m)}
               /\ tx' = [tx EXCEPT ![m] = @ + 1]
               /\ mobile' = At("sent", m)
      <4>1. tx' \in [Messages -> Nat]
        BY <3>2 DEF TypeOK
      <4> QED
        BY <2>1, <2>2, <3>2, <4>1 DEF TypeOK
    <3> QED
      BY <1>2, <3>1, <3>2 DEF MobileSend
  <2>4. sends' \in [Messages -> Nat]
    BY <1>2 DEF MobileSend, TypeOK
  <2> QED
    BY <1>2, <2>3, <2>4 DEF MobileSend, TypeOK, receiverVars
<1>3. CASE MobileStore
  <2>1. mobile.msg \in Messages
    BY <1>3 DEF MobileStore, TypeOK, Idle
  <2>2. pending' \in [Slots -> Entry \cup {Empty}]
    BY <1>3, <2>1 DEF MobileStore, TypeOK, Entry, Sent
  <2> QED
    BY <1>3, <2>2 DEF MobileStore, TypeOK, receiverVars
<1>4. CASE WorkerScan
  <2>1. PICK s \in Slots :
          /\ IsDue(s)
          /\ \/ /\ pending' = [pending EXCEPT ![s] = Empty]
                /\ UNCHANGED worker
             \/ /\ ~IsExhausted(s)
                /\ pending' = [pending EXCEPT ![s] = Sent(pending[s].msg,
                     pending[s].attempts + 1, pending[s].timeout)]
                /\ worker' = At("copied", pending[s].msg)
    BY <1>4 DEF WorkerScan
  <2>2. pending[s] \in Entry
    BY <2>1, ValidEntry DEF IsDue
  <2>3. pending' \in [Slots -> Entry \cup {Empty}]
    <3>1. ~IsExhausted(s) => Sent(pending[s].msg, pending[s].attempts + 1,
                                 pending[s].timeout) \in Entry
      BY <2>2 DEF Entry, IsExhausted, Sent
    <3> QED
      BY <2>1, <3>1 DEF TypeOK
  <2>4. worker' \in [at : {"copied", "checked"}, msg : Messages] \cup {Idle}
    BY <2>1, <2>2 DEF At, Entry, TypeOK
  <2> QED
    BY <1>4, <2>3, <2>4 DEF WorkerScan, TypeOK, receiverVars
<1>5. CASE WorkerCheck
  BY <1>5 DEF WorkerCheck, TypeOK, Idle, At, receiverVars
<1>6. CASE WorkerSend
  <2>1. worker.msg \in Messages
    BY <1>6 DEF WorkerSend, TypeOK, Idle
  <2>2. Frame("data", worker.msg) \in Frames
    BY <2>1 DEF Frame, Frames
  <2> QED
    BY <1>6, <2>1, <2>2 DEF WorkerSend, TypeOK, receiverVars
<1>7. ASSUME NEW f \in air, SenderReceive(f) PROVE TypeOK'
  <2>1. f.msg \in Messages
    BY DEF TypeOK, Frames
  <2> QED
    BY <1>7, <2>1 DEF SenderReceive, TypeOK, receiverVars
<1>8. ASSUME NEW f \in air, ReceiverReceive(f) PROVE TypeOK'
  <2>1. f.msg \in Messages
    BY DEF TypeOK, Frames
  <2>2. AckFrames(f.msg) \subseteq Frames
    BY <2>1 DEF AckFrames, Frame, Frames
  <2>3. air' \subseteq Frames
    BY <1>8, <2>2 DEF ReceiverReceive, TypeOK
  <2> QED
    BY <1>8, <2>1, <2>3 DEF ReceiverReceive, TypeOK, senderVars, At
<1>9. ASSUME NEW f \in air, Lose(f) PROVE TypeOK'
  BY <1>9 DEF Lose, TypeOK, senderVars, receiverVars
<1>10. CASE ReceiverNotify
  <2>1. rx.msg \in Messages
    BY <1>10 DEF ReceiverNotify, TypeOK, Idle
  <2>2. delivered' \in [Messages -> Nat]
    <3>1. \/ delivered' = delivered
          \/ delivered' = [delivered EXCEPT ![rx.msg] = @ + 1]
      BY <1>10 DEF ReceiverNotify
    <3> QED
      BY <2>1, <3>1 DEF TypeOK
  <2>3. dedupe' \in [DedupeSlots ->
                       [slot : {"valid"}, text : Texts, age : Nat] \cup {Empty}]
    <3>1. ASSUME NEW i \in DedupeSlots, IsDuplicate(i, rx.msg),
                 dedupe' = [dedupe EXCEPT ![i].age = 0]
          PROVE  dedupe' \in [DedupeSlots ->
                       [slot : {"valid"}, text : Texts, age : Nat] \cup {Empty}]
      <4>1. dedupe[i] \in [slot : {"valid"}, text : Texts, age : Nat]
        BY <3>1 DEF IsDuplicate, IsFresh, Known, TypeOK, Empty
      <4>2. [dedupe[i] EXCEPT !.age = 0] \in [slot : {"valid"}, text : Texts, age : Nat]
        BY <4>1
      <4> QED
        BY <3>1, <4>2 DEF TypeOK
    <3>2. ASSUME NEW i \in DedupeSlots,
                 dedupe' = [dedupe EXCEPT ![i] =
                              [slot |-> "valid", text |-> rx.msg.text, age |-> 0]]
          PROVE  dedupe' \in [DedupeSlots ->
                       [slot : {"valid"}, text : Texts, age : Nat] \cup {Empty}]
      <4>1. rx.msg.text \in Texts
        BY <2>1 DEF Texts
      <4> QED
        BY <3>2, <4>1 DEF TypeOK
    <3> QED
      BY <1>10, <3>1, <3>2 DEF ReceiverNotify
  <2> QED
    BY <1>10, <2>2, <2>3 DEF ReceiverNotify, TypeOK, senderVars
<1>11. CASE SetDeviceMode
  BY <1>11 DEF SetDeviceMode, TypeOK, senderVars, receiverVars
<1>12. CASE Tick
  <2>1. air' \subseteq Frames
    <3>1. ASSUME NEW f \in air PROVE [f EXCEPT !.age = @ + 1] \in Frames
      <4>1. f \in [kind : {"data", "ack"}, msg : Messages, age : Nat]
        BY DEF TypeOK, Frames
      <4> QED
        BY <4>1 DEF Frames
    <3> SUFFICES ASSUME NEW g \in air' PROVE g \in Frames
      OBVIOUS
    <3>2. PICK f \in air : g = [f EXCEPT !.age = @ + 1]
      BY <1>12 DEF Tick
    <3> QED
      BY <3>1, <3>2
  <2>2. pending' \in [Slots -> Entry \cup {Empty}]
    <3>1. \A s \in Slots : Valid(s) =>
            [pending[s] EXCEPT !.age = @ + 1] \in Entry
      BY ValidEntry DEF Entry
    <3> QED
      BY <1>12, <3>1 DEF Tick, TypeOK
  <2>3. dedupe' \in [DedupeSlots ->
                       [slot : {"valid"}, text : Texts, age : Nat] \cup {Empty}]
    <3>1. ASSUME NEW i \in DedupeSlots, IsFresh(i)
          PROVE  [dedupe[i] EXCEPT !.age = @ + 1]
                   \in [slot : {"valid"}, text : Texts, age : Nat]
      <4>1. dedupe[i] \in [slot : {"valid"}, text : Texts, age : Nat]
        BY <3>1 DEF IsFresh, Known, TypeOK, Empty
      <4> QED
        BY <4>1
    <3> QED
      BY <1>12, <3>1 DEF Tick, TypeOK
  <2> QED
    BY <1>12, <2>1, <2>2, <2>3 DEF Tick, TypeOK
<1> QED
  BY <1>1, <1>2, <1>3, <1>4, <1>5, <1>6, <1>7, <1>8, <1>9, <1>10, <1>11, <1>12
     DEF Next, WorkerNext, AirNext

(* The reliable layer is type correct whatever the interleaving.           *)
THEOREM TypeCorrect == Spec => []TypeOK
BY InitTypeOK, NextTypeOK, PTL DEF Spec

-----------------------------------------------------------------------------
(* Keys *)

(* A step that only drops entries, or changes what is not the key, keeps   *)
(* the keys unique.                                                        *)
LEMMA KeysKept ==
  ASSUME UniqueKeys,
         \A s \in Slots : Valid(s)' => Valid(s) /\ pending'[s].msg = pending[s].msg
  PROVE  UniqueKeys'
BY DEF UniqueKeys, SameKey

LEMMA InitUniqueKeys == Init => UniqueKeys
BY DEF Init, UniqueKeys, Valid, Empty

(* Storing is the one step that brings a key into the table.               *)
LEMMA StoreUniqueKeys ==
  ASSUME TypeOK, UniqueKeys, MobileStore
  PROVE  UniqueKeys'
<1> DEFINE m == mobile.msg
<1>1. PICK s \in Slots, a \in AckTimeouts :
        /\ StoresIn(s, m)
        /\ pending' = [pending EXCEPT ![s] = Sent(m, 1, a)]
  BY DEF MobileStore
<1>2. ASSUME NEW t \in Slots, t # s
      PROVE  ~Holds(t, m)
  <2>1. CASE Tracked(m)
    <3>1. Holds(s, m)
      BY <1>1, <2>1 DEF StoresIn
    <3> QED
      BY <1>2, <3>1 DEF Holds, UniqueKeys, SameKey
  <2>2. CASE ~Tracked(m)
    BY <2>2 DEF Tracked
  <2> QED
    BY <2>1, <2>2
<1>3. /\ pending'[s].msg = m
      /\ \A t \in Slots : t # s => pending'[t] = pending[t]
  BY <1>1 DEF TypeOK, Sent
<1> SUFFICES ASSUME NEW t \in Slots, NEW u \in Slots, Valid(t)', Valid(u)',
                    SameKey(pending'[t].msg, pending'[u].msg)
             PROVE  t = u
  BY DEF UniqueKeys, Valid
<1>4. CASE t # s /\ u # s
  BY <1>3, <1>4 DEF UniqueKeys, Valid
<1>5. CASE t = s /\ u # s
  <2>1. Holds(u, m)
    BY <1>3, <1>5 DEF Holds, Valid, SameKey
  <2> QED
    BY <1>2, <1>5, <2>1
<1>6. CASE u = s /\ t # s
  <2>1. Holds(t, m)
    BY <1>3, <1>6 DEF Holds, Valid, SameKey
  <2> QED
    BY <1>2, <1>6, <2>1
<1> QED
  BY <1>4, <1>5, <1>6

LEMMA NextUniqueKeys == TypeOK /\ UniqueKeys /\ [Next]_vars => UniqueKeys'
<1> SUFFICES ASSUME TypeOK, UniqueKeys, [Next]_vars PROVE UniqueKeys'
  OBVIOUS
<1>1. CASE MobileStore
  BY <1>1, StoreUniqueKeys
<1>2. CASE WorkerScan
  <2>1. PICK s \in Slots :
          /\ IsDue(s)
          /\ \/ pending' = [pending EXCEPT ![s] = Empty]
             \/ pending' = [pending EXCEPT ![s] = Sent(pending[s].msg,
                  pending[s].attempts + 1, pending[s].timeout)]
    BY <1>2 DEF WorkerScan
  <2>2. ASSUME NEW t \in Slots, Valid(t)'
        PROVE  Valid(t) /\ pending'[t].msg = pending[t].msg
    <3>1. CASE t # s
      BY <2>1, <2>2, <3>1 DEF Valid, TypeOK
    <3>2. CASE t = s
      <4>1. pending'[s] = Empty \/ pending'[s] = Sent(pending[s].msg,
              pending[s].attempts + 1, pending[s].timeout)
        BY <2>1 DEF TypeOK
      <4>2. pending'[s] # Empty
        BY <2>2, <3>2 DEF Valid, Empty
      <4> QED
        BY <2>1, <3>2, <4>1, <4>2 DEF Sent, IsDue
    <3> QED
      BY <3>1, <3>2
  <2> QED
    BY <2>2, KeysKept
<1>3. ASSUME NEW f \in air, SenderReceive(f) PROVE UniqueKeys'
  <2>1. ASSUME NEW t \in Slots, Valid(t)'
        PROVE  Valid(t) /\ pending'[t].msg = pending[t].msg
    <3>1. \A s \in Slots : pending'[s] = Empty \/ pending'[s] = pending[s]
      BY <1>3 DEF SenderReceive, TypeOK
    <3>2. pending'[t] # Empty
      BY <2>1 DEF Valid, Empty
    <3>3. pending'[t] = pending[t]
      BY <3>1, <3>2
    <3> QED
      BY <2>1, <3>3 DEF Valid
  <2> QED
    BY <2>1, KeysKept
<1>4. CASE Tick
  <2>1. ASSUME NEW t \in Slots, Valid(t)'
        PROVE  Valid(t) /\ pending'[t].msg = pending[t].msg
    <3>1. CASE Valid(t)
      <4>1. pending[t] \in Entry
        BY <3>1, ValidEntry
      <4>2. pending'[t] = [pending[t] EXCEPT !.age = @ + 1]
        BY <1>4, <3>1 DEF Tick
      <4> QED
        BY <3>1, <4>1, <4>2 DEF Entry
    <3>2. CASE ~Valid(t)
      BY <1>4, <2>1, <3>2 DEF Tick, Valid
    <3> QED
      BY <3>1, <3>2
  <2> QED
    BY <2>1, KeysKept
<1>5. CASE UNCHANGED pending
  BY <1>5 DEF UniqueKeys, Valid
<1> QED
  BY <1>1, <1>2, <1>3, <1>4, <1>5
     DEF Next, WorkerNext, AirNext, vars, senderVars, MobileSend, WorkerCheck,
         WorkerSend, ReceiverReceive, ReceiverNotify, SetDeviceMode, Lose

(* One packet never occupies two slots of s_reliable_pending.              *)
THEOREM KeysUnique == Spec => []UniqueKeys
BY InitTypeOK, NextTypeOK, InitUniqueKeys, NextUniqueKeys, PTL DEF Spec

-----------------------------------------------------------------------------
(* The retry budget *)

IInv == TypeOK /\ UniqueKeys /\ RetryBudget

LEMMA OneMoreSend ==
  ASSUME NEW a \in Nat, NEW b \in Nat
  PROVE  a * (b + 1) = a * b + a
OBVIOUS

LEMMA BudgetType ==
  ASSUME TypeOK, NEW m \in Messages
  PROVE  /\ tx[m] \in Nat
         /\ sends[m] \in Nat
         /\ MaxAttempts * sends[m] \in Nat
         /\ InFlight(m) \in {0, 1}
         /\ ToStore(m) \in {0, MaxAttempts - 1}
BY DEF TypeOK, InFlight, ToStore

(* A step that leaves the counts alone and neither adds an entry nor       *)
(* lowers the attempts of one keeps the budget.                            *)
LEMMA BudgetKept ==
  ASSUME TypeOK, TypeOK', RetryBudget,
         UNCHANGED <<tx, sends>>,
         \A m \in Messages : InFlight(m)' <= InFlight(m) /\ ToStore(m)' <= ToStore(m),
         \A s \in Slots : Valid(s)' =>
           /\ Valid(s)
           /\ pending'[s].msg = pending[s].msg
           /\ pending'[s].attempts = pending[s].attempts
  PROVE  RetryBudget'
<1> SUFFICES ASSUME NEW m \in Messages
             PROVE  LET used == tx[m] + InFlight(m)' + ToStore(m)' IN
                    /\ used <= MaxAttempts * sends[m]
                    /\ \A s \in Slots : Holds(s, m)' =>
                         used + (MaxAttempts - pending'[s].attempts)
                           <= MaxAttempts * sends[m]
  BY DEF RetryBudget
<1>1. InFlight(m)' <= InFlight(m) /\ ToStore(m)' <= ToStore(m)
  OBVIOUS
<1>2. /\ tx[m] \in Nat /\ MaxAttempts * sends[m] \in Nat
      /\ InFlight(m) \in Nat /\ ToStore(m) \in Nat
      /\ InFlight(m)' \in Nat /\ ToStore(m)' \in Nat
  BY BudgetType DEF TypeOK, InFlight, ToStore
<1>3. tx[m] + InFlight(m)' + ToStore(m)' <= MaxAttempts * sends[m]
  BY <1>1, <1>2 DEF RetryBudget
<1>4. ASSUME NEW s \in Slots, Holds(s, m)'
      PROVE  tx[m] + InFlight(m)' + ToStore(m)' + (MaxAttempts - pending'[s].attempts)
               <= MaxAttempts * sends[m]
  <2>1. Holds(s, m) /\ pending'[s].attempts = pending[s].attempts
    BY <1>4 DEF Holds, SameKey
  <2>2. pending[s].attempts \in Nat
    BY <2>1, ValidEntry DEF Holds, Entry
  <2> QED
    BY <1>1, <1>2, <2>1, <2>2 DEF RetryBudget
<1> QED
  BY <1>3, <1>4

(* The goal of a step that changes the counts, for one packet.             *)
BudgetOf(m) ==
  LET used == tx[m] + InFlight(m) + ToStore(m) IN
  /\ used <= MaxAttempts * sends[m]
  /\ \A s \in Slots : Holds(s, m) =>
       used + (MaxAttempts - pending[s].attempts) <= MaxAttempts * sends[m]

LEMMA BudgetByPacket == RetryBudget <=> \A m \in Messages : BudgetOf(m)
BY DEF RetryBudget, BudgetOf

LEMMA InitRetryBudget == Init => RetryBudget
<1> SUFFICES ASSUME Init, NEW m \in Messages PROVE BudgetOf(m)
  BY BudgetByPacket
<1>1. tx[m] = 0 /\ sends[m] = 0 /\ InFlight(m) = 0 /\ ToStore(m) = 0
  BY DEF Init, InFlight, ToStore, Idle
<1>2. \A s \in Slots : ~Holds(s, m)
  BY DEF Init, Holds, Valid, Empty
<1> QED
  BY <1>1, <1>2 DEF BudgetOf

LEMMA SendBudget ==
  ASSUME TypeOK, RetryBudget, NEW n \in Messages, MobileSend(n)
  PROVE  RetryBudget'
<1> SUFFICES ASSUME NEW m \in Messages PROVE BudgetOf(m)'
  BY DEF RetryBudget, BudgetOf
<1>1. BudgetOf(m) /\ \A s \in Slots : Holds(s, m)' <=> Holds(s, m)
  BY BudgetByPacket DEF MobileSend, Holds, Valid
<1>2. pending' = pending /\ InFlight(m)' = InFlight(m) /\ ToStore(m) = 0
  BY DEF MobileSend, InFlight, ToStore, Idle
<1>3. CASE m # n
  <2>1. tx'[m] = tx[m] /\ sends'[m] = sends[m] /\ ToStore(m)' = 0
    BY <1>3 DEF MobileSend, TypeOK, ToStore, Idle, At
  <2> QED
    BY <1>1, <1>2, <2>1 DEF BudgetOf
<1>4. CASE m = n
  <2>1. sends'[m] = sends[m] + 1
    BY <1>4 DEF MobileSend, TypeOK
  <2>2. MaxAttempts * sends'[m] = MaxAttempts * sends[m] + MaxAttempts
    BY <2>1, OneMoreSend, BudgetType
  <2>3. \/ tx'[m] = tx[m] + 1 /\ ToStore(m)' = MaxAttempts - 1
        \/ tx'[m] = tx[m] /\ ToStore(m)' = 0
    BY <1>4 DEF MobileSend, TypeOK, ToStore, At, Idle
  <2>4. \A s \in Slots : Holds(s, m) => pending[s].attempts \in Nat
    BY ValidEntry DEF Holds, Entry
  <2> QED
    BY <1>1, <1>2, <2>2, <2>3, <2>4, BudgetType DEF BudgetOf
<1> QED
  BY <1>3, <1>4

LEMMA StoreBudget ==
  ASSUME TypeOK, UniqueKeys, UniqueKeys', RetryBudget, MobileStore
  PROVE  RetryBudget'
<1> SUFFICES ASSUME NEW m \in Messages PROVE BudgetOf(m)'
  BY DEF RetryBudget, BudgetOf
<1>1. PICK s \in Slots, a \in AckTimeouts :
        pending' = [pending EXCEPT ![s] = Sent(mobile.msg, 1, a)]
  BY DEF MobileStore
<1>2. /\ mobile.msg \in Messages
      /\ pending'[s] = Sent(mobile.msg, 1, a)
      /\ \A t \in Slots : t # s => pending'[t] = pending[t]
  <2>1. mobile.msg \in Messages
    BY DEF MobileStore, TypeOK, Idle
  <2> QED
    BY <1>1, <2>1 DEF TypeOK
<1>3. tx' = tx /\ sends' = sends /\ InFlight(m)' = InFlight(m) /\ ToStore(m)' = 0
  BY DEF MobileStore, InFlight, ToStore, Idle
<1>4. BudgetOf(m)
  BY BudgetByPacket
<1>5. tx[m] + InFlight(m) <= MaxAttempts * sends[m]
  BY <1>4, BudgetType DEF BudgetOf
<1>6. ASSUME NEW t \in Slots, Holds(t, m)'
      PROVE  tx[m] + InFlight(m) + (MaxAttempts - pending'[t].attempts)
               <= MaxAttempts * sends[m]
  <2>1. CASE t = s
    <3>1. mobile.msg = m /\ pending'[t].attempts = 1
      BY <1>2, <1>6, <2>1, KeyIdentifies DEF Holds, Sent
    <3>2. ToStore(m) = MaxAttempts - 1
      BY <3>1 DEF ToStore, MobileStore
    <3> QED
      BY <1>4, <3>1, <3>2, BudgetType DEF BudgetOf
  <2>2. CASE t # s
    <3>1. Holds(t, m) /\ pending'[t] = pending[t]
      BY <1>2, <1>6, <2>2 DEF Holds, Valid
    <3>2. pending[t].attempts \in Nat
      BY <3>1, ValidEntry DEF Holds, Entry
    <3> QED
      BY <1>4, <3>1, <3>2, BudgetType DEF BudgetOf
  <2> QED
    BY <2>1, <2>2
<1>7. InFlight(m) \in Nat /\ tx[m] \in Nat /\ MaxAttempts * sends[m] \in Nat
  BY BudgetType
<1> QED
  BY <1>3, <1>5, <1>6, <1>7 DEF BudgetOf

LEMMA RetryIsPaid ==
  ASSUME TypeOK, UniqueKeys, RetryBudget, NEW s \in Slots,
         IsDue(s), ~IsExhausted(s), worker = Idle,
         pending' = [pending EXCEPT ![s] = Sent(pending[s].msg,
                       pending[s].attempts + 1, pending[s].timeout)],
         worker' = At("copied", pending[s].msg),
         UNCHANGED <<mobile, tx, sends>>
  PROVE  RetryBudget'
<1> SUFFICES ASSUME NEW m \in Messages PROVE BudgetOf(m)'
  BY DEF RetryBudget, BudgetOf
<1>1. pending[s] \in Entry
  BY ValidEntry DEF IsDue
<1>2. /\ pending'[s] = Sent(pending[s].msg, pending[s].attempts + 1, pending[s].timeout)
      /\ \A t \in Slots : t # s => pending'[t] = pending[t]
  BY DEF TypeOK
<1>3. BudgetOf(m) /\ InFlight(m) = 0 /\ ToStore(m)' = ToStore(m)
  BY BudgetByPacket DEF InFlight, ToStore, Idle
<1>4. CASE pending[s].msg = m
  <2>1. Holds(s, m)
    BY <1>4 DEF Holds, SameKey, IsDue
  <2>2. pending[s].attempts \in Nat /\ pending[s].attempts < MaxAttempts
    BY <1>1 DEF Entry, IsExhausted
  <2>3. tx[m] + ToStore(m) + (MaxAttempts - pending[s].attempts)
          <= MaxAttempts * sends[m]
    BY <1>3, <2>1, <2>2, BudgetType DEF BudgetOf
  <2>4. InFlight(m)' = 1
    BY <1>4 DEF InFlight, At
  <2>5. ASSUME NEW t \in Slots, Holds(t, m)'
        PROVE  pending'[t].attempts = pending[s].attempts + 1
    <3>1. t = s
      BY <1>2, <2>1, <2>5 DEF Holds, Valid, UniqueKeys, SameKey
    <3> QED
      BY <1>2, <3>1 DEF Sent
  <2> QED
    BY <1>3, <2>2, <2>3, <2>4, <2>5, BudgetType DEF BudgetOf
<1>5. CASE pending[s].msg # m
  <2>1. InFlight(m)' = 0
    BY <1>5 DEF InFlight, At
  <2>2. ASSUME NEW t \in Slots, Holds(t, m)'
        PROVE  Holds(t, m) /\ pending'[t] = pending[t]
    <3>1. t # s
      BY <1>1, <1>2, <1>5, <2>2, KeyIdentifies DEF Holds, Sent, Entry
    <3> QED
      BY <1>2, <2>2, <3>1 DEF Holds, Valid
  <2> QED
    BY <1>3, <2>1, <2>2 DEF BudgetOf
<1> QED
  BY <1>4, <1>5

LEMMA WorkerSendBudget ==
  ASSUME TypeOK, RetryBudget, WorkerSend
  PROVE  RetryBudget'
<1> SUFFICES ASSUME NEW m \in Messages PROVE BudgetOf(m)'
  BY DEF RetryBudget, BudgetOf
<1>1. BudgetOf(m) /\ \A s \in Slots : Holds(s, m)' <=> Holds(s, m)
  BY BudgetByPacket DEF WorkerSend, Holds, Valid
<1>2. /\ pending' = pending /\ sends' = sends
      /\ InFlight(m)' = 0 /\ ToStore(m)' = ToStore(m)
  BY DEF WorkerSend, InFlight, ToStore, Idle
<1>3. tx'[m] \in Nat /\ tx'[m] <= tx[m] + InFlight(m)
  BY DEF WorkerSend, TypeOK, InFlight
<1>4. \A s \in Slots : Holds(s, m) => pending[s].attempts \in Nat
  BY ValidEntry DEF Holds, Entry
<1> QED
  BY <1>1, <1>2, <1>3, <1>4, BudgetType DEF BudgetOf

LEMMA NextRetryBudget == IInv /\ [Next]_vars => RetryBudget'
<1> SUFFICES ASSUME IInv, [Next]_vars PROVE RetryBudget'
  OBVIOUS
<1> USE DEF IInv
<1>1. TypeOK' /\ UniqueKeys'
  BY NextTypeOK, NextUniqueKeys
<1>2. ASSUME NEW m \in Messages, MobileSend(m) PROVE RetryBudget'
  BY <1>2, SendBudget
<1>3. CASE MobileStore
  BY <1>1, <1>3, StoreBudget
<1>4. CASE WorkerScan
  <2>1. worker = Idle /\ UNCHANGED <<mobile, tx, sends>>
    BY <1>4 DEF WorkerScan
  <2>2. PICK s \in Slots :
          /\ IsDue(s)
          /\ \/ /\ pending' = [pending EXCEPT ![s] = Empty]
                /\ UNCHANGED worker
             \/ /\ ~IsExhausted(s)
                /\ pending' = [pending EXCEPT ![s] = Sent(pending[s].msg,
                     pending[s].attempts + 1, pending[s].timeout)]
                /\ worker' = At("copied", pending[s].msg)
    BY <1>4 DEF WorkerScan
  <2>3. CASE pending' = [pending EXCEPT ![s] = Empty] /\ UNCHANGED worker
    <3>1. \A t \in Slots : Valid(t)' => t # s /\ pending'[t] = pending[t]
      BY <2>3 DEF TypeOK, Valid, Empty
    <3>2. \A t \in Slots : Valid(t)' =>
            /\ Valid(t)
            /\ pending'[t].msg = pending[t].msg
            /\ pending'[t].attempts = pending[t].attempts
      BY <3>1 DEF Valid
    <3>3. \A m \in Messages : InFlight(m)' = InFlight(m) /\ ToStore(m)' = ToStore(m)
      BY <2>1, <2>3 DEF InFlight, ToStore
    <3> QED
      BY <1>1, <2>1, <3>2, <3>3, BudgetType, BudgetKept
  <2> QED
    BY <2>1, <2>2, <2>3, RetryIsPaid
<1>5. CASE WorkerCheck
  <2>1. \A m \in Messages : InFlight(m)' <= InFlight(m) /\ ToStore(m)' <= ToStore(m)
    BY <1>5, BudgetType DEF WorkerCheck, InFlight, ToStore, At, Idle
  <2>2. UNCHANGED <<tx, sends>> /\ pending' = pending
    BY <1>5 DEF WorkerCheck
  <2> QED
    BY <1>1, <2>1, <2>2, BudgetKept DEF Valid
<1>6. CASE WorkerSend
  BY <1>6, WorkerSendBudget
<1>7. ASSUME NEW f \in air, SenderReceive(f) PROVE RetryBudget'
  <2>1. UNCHANGED <<tx, sends, worker, mobile>>
    BY <1>7 DEF SenderReceive
  <2>2. \A m \in Messages : InFlight(m)' <= InFlight(m) /\ ToStore(m)' <= ToStore(m)
    BY <2>1, BudgetType DEF InFlight, ToStore
  <2>3. \A t \in Slots : Valid(t)' => pending'[t] = pending[t]
    BY <1>7 DEF SenderReceive, Valid, Empty, TypeOK
  <2> QED
    BY <1>1, <2>1, <2>2, <2>3, BudgetKept DEF Valid
<1>8. CASE Tick
  <2>1. UNCHANGED <<tx, sends, worker, mobile>>
    BY <1>8 DEF Tick
  <2>2. \A m \in Messages : InFlight(m)' <= InFlight(m) /\ ToStore(m)' <= ToStore(m)
    BY <2>1, BudgetType DEF InFlight, ToStore
  <2>3. ASSUME NEW t \in Slots, Valid(t)'
        PROVE  /\ Valid(t)
               /\ pending'[t].msg = pending[t].msg
               /\ pending'[t].attempts = pending[t].attempts
    <3>1. CASE Valid(t)
      <4>1. pending[t] \in Entry
        BY <3>1, ValidEntry
      <4>2. pending'[t] = [pending[t] EXCEPT !.age = @ + 1]
        BY <1>8, <3>1 DEF Tick
      <4> QED
        BY <3>1, <4>1, <4>2 DEF Entry
    <3>2. CASE ~Valid(t)
      BY <1>8, <2>3, <3>2 DEF Tick, Valid
    <3> QED
      BY <3>1, <3>2
  <2> QED
    BY <1>1, <2>1, <2>2, <2>3, BudgetKept
<1>9. CASE UNCHANGED <<pending, mobile, worker, tx, sends>>
  BY <1>9 DEF RetryBudget, InFlight, ToStore, Holds, Valid
<1> QED
  BY <1>2, <1>3, <1>4, <1>5, <1>6, <1>7, <1>8, <1>9
     DEF Next, WorkerNext, AirNext, vars, senderVars, ReceiverReceive,
         ReceiverNotify, SetDeviceMode, Lose

(* The budget holds in every reachable state.                              *)
THEOREM BudgetHolds == Spec => []RetryBudget
<1>1. Init => IInv
  BY InitTypeOK, InitUniqueKeys, InitRetryBudget DEF IInv
<1>2. IInv /\ [Next]_vars => IInv'
  BY NextTypeOK, NextUniqueKeys, NextRetryBudget DEF IInv
<1>3. IInv => RetryBudget
  BY DEF IInv
<1> QED
  BY <1>1, <1>2, <1>3, PTL DEF Spec

(* The firmware never puts more than EDGEZ_RELIABLE_MAX_ATTEMPTS frames of *)
(* a submitted packet on the air, for every interleaving of the handler,   *)
(* the retry task and the ACKs, every table size and every timer.          *)
THEOREM EffortIsBounded == Spec => []EffortBounded
<1>1. Init => IInv
  BY InitTypeOK, InitUniqueKeys, InitRetryBudget DEF IInv
<1>2. IInv /\ [Next]_vars => IInv'
  BY NextTypeOK, NextUniqueKeys, NextRetryBudget DEF IInv
<1>3. IInv => EffortBounded
  <2> SUFFICES ASSUME IInv, NEW m \in Messages PROVE tx[m] <= MaxAttempts * sends[m]
    BY DEF EffortBounded
  <2>1. tx[m] + InFlight(m) + ToStore(m) <= MaxAttempts * sends[m]
    BY DEF IInv, RetryBudget
  <2>2. InFlight(m) \in Nat /\ ToStore(m) \in Nat /\ tx[m] \in Nat
    BY BudgetType DEF IInv
  <2>3. MaxAttempts * sends[m] \in Nat
    BY BudgetType DEF IInv
  <2> QED
    BY <2>1, <2>2, <2>3
<1> QED
  BY <1>1, <1>2, <1>3, PTL DEF Spec

-----------------------------------------------------------------------------
(* What an ACK tells                                                       *)

(* The packet is about to pass the duplicate filter, or its text passed it. *)
Earned(m) ==
  \/ rx.at = "acked" /\ rx.msg = m
  \/ \E n \in Messages : n.text = m.text /\ delivered[n] > 0

AckInv ==
  /\ TypeOK
  /\ \A m \in acked : Earned(m)
  /\ \A f \in air : f.kind = "ack" => Earned(f.msg)
  /\ \A i \in DedupeSlots : Known(i) =>
       \E n \in Messages : n.text = dedupe[i].text /\ delivered[n] > 0

(* Steps that neither receive data nor hand over leave all this alone.     *)
LEMMA EarnedKept ==
  ASSUME AckInv, TypeOK', UNCHANGED receiverVars,
         \A m \in acked' : m \in acked \/ Earned(m),
         \A f \in air' : f.kind = "ack" => Earned(f.msg)
  PROVE  AckInv'
BY DEF AckInv, Earned, Known, receiverVars

LEMMA ReceiveEarns ==
  ASSUME AckInv, TypeOK', NEW f \in air, ReceiverReceive(f)
  PROVE  AckInv'
<1>1. ASSUME NEW m, Earned(m)
      PROVE  Earned(m)'
  BY <1>1 DEF Earned, ReceiverReceive, Idle
<1>2. Earned(f.msg)'
  BY DEF ReceiverReceive, Earned, At
<1>3. \A g \in air' : g \in air \/ g.msg = f.msg
  BY DEF ReceiverReceive, AckFrames, Frame
<1>4. \A g \in air' : g.kind = "ack" => Earned(g.msg)'
  BY <1>1, <1>2, <1>3 DEF AckInv
<1>5. \A m \in acked' : Earned(m)'
  BY <1>1 DEF ReceiverReceive, senderVars, AckInv
<1> QED
  BY <1>4, <1>5 DEF AckInv, ReceiverReceive, Known

LEMMA NotifyEarns ==
  ASSUME AckInv, TypeOK', ReceiverNotify
  PROVE  AckInv'
<1>1. /\ rx.msg \in Messages /\ delivered \in [Messages -> Nat]
      /\ acked' = acked /\ air' = air
  BY DEF ReceiverNotify, AckInv, TypeOK, Idle, senderVars
<1>2. /\ \A n \in Messages : delivered[n] > 0 => delivered'[n] > 0
      /\ \E n \in Messages : n.text = rx.msg.text /\ delivered'[n] > 0
      /\ \A i \in DedupeSlots : Known(i)' =>
           \/ Known(i) /\ dedupe'[i].text = dedupe[i].text
           \/ dedupe'[i].text = rx.msg.text
  <2>1. CASE \E i \in DedupeSlots :
               /\ IsDuplicate(i, rx.msg)
               /\ dedupe' = [dedupe EXCEPT ![i].age = 0]
               /\ UNCHANGED delivered
    <3>1. PICK i \in DedupeSlots :
            /\ IsDuplicate(i, rx.msg)
            /\ dedupe' = [dedupe EXCEPT ![i] = [dedupe[i] EXCEPT !.age = 0]]
            /\ UNCHANGED delivered
      BY <2>1
    <3>2. Known(i) /\ dedupe[i].text = rx.msg.text
      BY <3>1 DEF IsDuplicate, IsFresh
    <3>3. dedupe[i] \in [slot : {"valid"}, text : Texts, age : Nat]
      BY <3>2 DEF Known, AckInv, TypeOK, Empty
    <3>4. [dedupe[i] EXCEPT !.age = 0].text = dedupe[i].text
      BY <3>3
    <3>5. /\ dedupe'[i].text = rx.msg.text
          /\ \A j \in DedupeSlots \ {i} : dedupe'[j] = dedupe[j]
      BY <3>1, <3>2, <3>4 DEF AckInv, TypeOK
    <3> QED
      BY <3>1, <3>2, <3>5 DEF AckInv, Known
  <2>2. CASE /\ delivered' = [delivered EXCEPT ![rx.msg] = @ + 1]
             /\ \E i \in DedupeSlots :
                  dedupe' = [dedupe EXCEPT ![i] =
                    [slot |-> "valid", text |-> rx.msg.text, age |-> 0]]
    <3>1. PICK i \in DedupeSlots :
            dedupe' = [dedupe EXCEPT ![i] =
              [slot |-> "valid", text |-> rx.msg.text, age |-> 0]]
      BY <2>2
    <3>2. /\ dedupe'[i].text = rx.msg.text
          /\ \A j \in DedupeSlots \ {i} : dedupe'[j] = dedupe[j]
      BY <3>1 DEF AckInv, TypeOK
    <3>3. delivered'[rx.msg] > 0 /\ \A n \in Messages : delivered'[n] >= delivered[n]
      BY <1>1, <2>2
    <3>4. \A n \in Messages : delivered[n] > 0 => delivered'[n] > 0
      BY <1>1, <2>2
    <3> QED
      BY <1>1, <3>2, <3>3, <3>4 DEF Known
  <2> QED
    BY <2>1, <2>2 DEF ReceiverNotify
<1>3. ASSUME NEW m, Earned(m)
      PROVE  Earned(m)'
  BY <1>2, <1>3 DEF Earned
<1>4. /\ \A m \in acked' : Earned(m)'
      /\ \A f \in air' : f.kind = "ack" => Earned(f.msg)'
  BY <1>1, <1>3 DEF AckInv
<1>5. \A i \in DedupeSlots : Known(i)' =>
        \E n \in Messages : n.text = dedupe'[i].text /\ delivered'[n] > 0
  BY <1>2 DEF AckInv
<1> QED
  BY <1>4, <1>5 DEF AckInv

LEMMA TickEarns ==
  ASSUME AckInv, TypeOK', Tick
  PROVE  AckInv'
<1>1. /\ UNCHANGED <<rx, delivered, acked>>
      /\ air' = {[f EXCEPT !.age = @ + 1] : f \in air}
      /\ dedupe' = [i \in DedupeSlots |->
           IF IsFresh(i) THEN [dedupe[i] EXCEPT !.age = @ + 1] ELSE dedupe[i]]
  BY DEF Tick
<1>2. ASSUME NEW g \in air', g.kind = "ack"
      PROVE  Earned(g.msg)
  <2>1. PICK f \in air : g = [f EXCEPT !.age = @ + 1]
    BY <1>1
  <2>2. f \in Frames
    BY DEF AckInv, TypeOK
  <2>3. g.kind = f.kind /\ g.msg = f.msg
    BY <2>1, <2>2 DEF Frames
  <2> QED
    BY <1>2, <2>3 DEF AckInv
<1>3. ASSUME NEW i \in DedupeSlots, Known(i)'
      PROVE  Known(i) /\ dedupe'[i].text = dedupe[i].text
  <2>1. CASE IsFresh(i)
    <3>1. dedupe[i] \in [slot : {"valid"}, text : Texts, age : Nat]
      BY <2>1 DEF IsFresh, Known, AckInv, TypeOK, Empty
    <3>2. dedupe'[i] = [dedupe[i] EXCEPT !.age = @ + 1]
      BY <1>1, <2>1
    <3> QED
      BY <2>1, <3>1, <3>2 DEF IsFresh
  <2>2. CASE ~IsFresh(i)
    <3>1. dedupe'[i] = dedupe[i]
      BY <1>1, <2>2
    <3> QED
      BY <1>3, <3>1 DEF Known
  <2> QED
    BY <2>1, <2>2
<1> QED
  BY <1>1, <1>2, <1>3 DEF AckInv, Earned

LEMMA NextEarns == AckInv /\ [Next]_vars => AckInv'
<1> SUFFICES ASSUME AckInv, [Next]_vars
             PROVE  AckInv'
  OBVIOUS
<1>1. TypeOK'
  BY NextTypeOK DEF AckInv
<1>2. ASSUME NEW m \in Messages, MobileSend(m)
      PROVE  AckInv'
  <2>1. /\ UNCHANGED receiverVars /\ acked' = acked
        /\ \A f \in air' : f \in air \/ f.kind = "data"
    BY <1>2 DEF MobileSend, Frame
  <2> QED
    BY <1>1, <2>1, EarnedKept DEF AckInv
<1>3. CASE WorkerSend
  <2>1. /\ UNCHANGED receiverVars /\ acked' = acked
        /\ \A f \in air' : f \in air \/ f.kind = "data"
    BY <1>3 DEF WorkerSend, Frame
  <2> QED
    BY <1>1, <2>1, EarnedKept DEF AckInv
<1>4. ASSUME NEW f \in air, SenderReceive(f)
      PROVE  AckInv'
  <2>1. /\ UNCHANGED receiverVars /\ air' \subseteq air /\ f.kind = "ack"
        /\ \A m \in acked' : m \in acked \/ m = f.msg
    BY <1>4 DEF SenderReceive
  <2> QED
    BY <1>1, <2>1, EarnedKept DEF AckInv
<1>5. ASSUME NEW f \in air, Lose(f)
      PROVE  AckInv'
  BY <1>1, <1>5, EarnedKept DEF Lose, senderVars, AckInv
<1>6. CASE MobileStore \/ WorkerScan \/ WorkerCheck \/ SetDeviceMode \/ UNCHANGED vars
  <2>1. UNCHANGED <<receiverVars, acked, air>>
    BY <1>6 DEF MobileStore, WorkerScan, WorkerCheck, SetDeviceMode, vars, senderVars,
                receiverVars
  <2> QED
    BY <1>1, <2>1, EarnedKept DEF AckInv
<1> QED
  BY <1>1, <1>2, <1>3, <1>4, <1>5, <1>6, ReceiveEarns, NotifyEarns, TickEarns
     DEF Next, WorkerNext, AirNext

(* An ACK reaches the sender before the packet reaches the phone; when it  *)
(* does, the receiver is about to run the duplicate filter on the packet   *)
(* or handed over its text (handle_rx_frame).                              *)
THEOREM AcksAreEarned == Spec => []AckedTextDelivered
<1>1. Init => AckInv
  BY InitTypeOK DEF Init, AckInv, Known, Empty
<1>2. AckInv => AckedTextDelivered
  BY DEF AckInv, Earned, AckedTextDelivered
<1> QED
  BY <1>1, <1>2, NextEarns, PTL DEF Spec

-----------------------------------------------------------------------------
(* Why an entry leaves the table                                           *)

LeavesFor(m) ==
  \/ \E f \in air : f.kind = "ack" /\ SameKey(f.msg, m)
  \/ \E s \in Slots : Holds(s, m) /\ pending[s].attempts = MaxAttempts
  \/ Full /\ \E n \in Messages : ~Tracked(n) /\ Tracked(n)'

LEMMA StoreLoses ==
  ASSUME TypeOK, MobileStore, NEW m \in Messages, Tracked(m), ~Tracked(m)'
  PROVE  LeavesFor(m)
<1>1. PICK s \in Slots, t \in AckTimeouts :
        /\ StoresIn(s, mobile.msg)
        /\ pending' = [pending EXCEPT ![s] = Sent(mobile.msg, 1, t)]
  BY DEF MobileStore
<1>2. PICK n \in Messages : n = mobile.msg
  BY DEF MobileStore, TypeOK, Idle
<1>3. /\ pending'[s] = Sent(n, 1, t)
      /\ \A u \in Slots \ {s} : pending'[u] = pending[u]
  BY <1>1, <1>2 DEF TypeOK
<1>4. pending'[s].slot = "valid" /\ pending'[s].msg = n
  BY <1>3 DEF Sent
<1>5. Holds(s, m)
  BY <1>3 DEF Tracked, Holds, Valid
<1>6. ~SameKey(n, m)
  BY <1>4 DEF Tracked, Holds, Valid
<1>7. ~Tracked(n)
  <2>1. ~Holds(s, n)
    BY <1>5, <1>6 DEF Holds, SameKey
  <2> QED
    BY <1>1, <1>2, <2>1 DEF StoresIn
<1>8. Full
  BY <1>1, <1>2, <1>5, <1>7 DEF StoresIn, IsFirstFree, Holds
<1>9. Tracked(n)'
  BY <1>4 DEF Tracked, Holds, Valid, SameKey
<1> QED
  BY <1>7, <1>8, <1>9 DEF LeavesFor

LEMMA ScanLoses ==
  ASSUME TypeOK, WorkerScan, NEW m \in Messages, Tracked(m), ~Tracked(m)'
  PROVE  LeavesFor(m)
<1>1. PICK s \in Slots :
        /\ IsDue(s)
        /\ \/ /\ IsExhausted(s)
              /\ pending' = [pending EXCEPT ![s] = Empty]
           \/ pending' = [pending EXCEPT ![s] = Sent(pending[s].msg,
                 pending[s].attempts + 1, pending[s].timeout)]
  BY DEF WorkerScan
<1>2. \A u \in Slots \ {s} : pending'[u] = pending[u]
  BY <1>1 DEF TypeOK
<1>3. Holds(s, m)
  BY <1>2 DEF Tracked, Holds, Valid
<1>4. CASE pending' = [pending EXCEPT ![s] = Sent(pending[s].msg,
                 pending[s].attempts + 1, pending[s].timeout)]
  <2>1. pending'[s].slot = "valid" /\ pending'[s].msg = pending[s].msg
    BY <1>4 DEF TypeOK, Sent
  <2> QED
    BY <1>3, <2>1 DEF Tracked, Holds, Valid
<1>5. CASE IsExhausted(s)
  <2>1. pending[s] \in Entry
    BY <1>3, ValidEntry DEF Holds
  <2>2. pending[s].attempts = MaxAttempts
    BY <1>5, <2>1 DEF IsExhausted, Entry
  <2> QED
    BY <1>3, <2>2 DEF LeavesFor
<1> QED
  BY <1>1, <1>4, <1>5

LEMMA AckLoses ==
  ASSUME TypeOK, NEW f \in air, SenderReceive(f), NEW m \in Messages, Tracked(m), ~Tracked(m)'
  PROVE  LeavesFor(m)
<1>1. PICK s \in Slots : Holds(s, m)
  BY DEF Tracked
<1>2. pending'[s] # pending[s]
  BY <1>1 DEF Tracked, Holds, Valid
<1>3. f.kind = "ack" /\ Holds(s, f.msg)
  BY <1>2 DEF SenderReceive, AckClears, TypeOK
<1>4. SameKey(f.msg, m)
  BY <1>1, <1>3 DEF Holds, SameKey
<1> QED
  BY <1>3, <1>4 DEF LeavesFor

LEMMA TickKeepsAll ==
  ASSUME TypeOK, Tick, NEW m \in Messages, Tracked(m)
  PROVE  Tracked(m)'
<1>1. PICK s \in Slots : Holds(s, m)
  BY DEF Tracked
<1>2. pending[s] \in Entry
  BY <1>1, ValidEntry DEF Holds
<1>3. pending'[s] = [pending[s] EXCEPT !.age = @ + 1]
  BY <1>1 DEF Tick, Holds
<1>4. pending'[s].slot = pending[s].slot /\ pending'[s].msg = pending[s].msg
  BY <1>2, <1>3 DEF Entry
<1> QED
  BY <1>1, <1>4 DEF Tracked, Holds, Valid

(* A tracked packet leaves the table only because an ACK for it is there,  *)
(* its attempts are used up, or another takes its place in a full table    *)
(* (reliable_pending_ack, reliable_tx_task, reliable_pending_store).       *)
THEOREM LossesAreJustified == Spec => LossIsJustified
<1>1. TypeOK /\ [Next]_vars =>
        [\A m \in Messages : Tracked(m) /\ ~Tracked(m)' => LeavesFor(m)]_vars
  <2> SUFFICES ASSUME TypeOK, Next, NEW m \in Messages, Tracked(m), ~Tracked(m)'
               PROVE  LeavesFor(m)
    OBVIOUS
  <2>1. pending' # pending
    BY DEF Tracked, Holds, Valid
  <2>2. MobileStore \/ WorkerScan \/ (\E f \in air : SenderReceive(f)) \/ Tick
    BY <2>1 DEF Next, WorkerNext, AirNext, MobileSend, WorkerCheck, WorkerSend, Lose,
                ReceiverReceive, ReceiverNotify, SetDeviceMode, senderVars
  <2> QED
    BY <2>2, StoreLoses, ScanLoses, AckLoses, TickKeepsAll
<1> QED
  BY <1>1, InitTypeOK, NextTypeOK, PTL DEF Spec, LossIsJustified, LeavesFor
-----------------------------------------------------------------------------
(* A submission reaches the phone once.  What a packet may still cause has  *)
(* a life: a frame that of the air, an entry also that of its retries.  As  *)
(* long as a packet was handed over as often as it was submitted, the       *)
(* filter remembers its text for longer than anything of it lives.          *)

Covers(m, life, age) ==
  \E i \in DedupeSlots :
    Known(i) /\ dedupe[i].text = m.text /\ dedupe[i].age + life <= DedupeWindow + age

Retries(n, timeout) == n * (timeout + Slack) + MaxDelay

RxCovered(m) == rx.at = "acked" /\ rx.msg = m => Covers(m, 0, 0)
AirCovered(m) ==
  \A f \in air : f.kind = "data" /\ f.msg = m => Covers(m, MaxDelay, f.age)
WorkerCovered(m) == worker.at # "idle" /\ worker.msg = m => Covers(m, MaxDelay, 0)
MobileCovered(m) ==
  mobile.at = "sent" /\ mobile.msg = m =>
    \A t \in AckTimeouts : Covers(m, Retries(MaxAttempts - 1, t), 0)
TableCovered(m) ==
  \A s \in Slots :
    Valid(s) /\ pending[s].msg = m /\ pending[s].attempts < MaxAttempts =>
      Covers(m, Retries(MaxAttempts - pending[s].attempts, pending[s].timeout), pending[s].age)

Covered(m) ==
  RxCovered(m) /\ AirCovered(m) /\ WorkerCovered(m) /\ MobileCovered(m) /\ TableCovered(m)

AgesBounded ==
  /\ \A f \in air : f.age <= MaxDelay
  /\ \A s \in Slots : Valid(s) => pending[s].age <= pending[s].timeout + Slack

OnceInv ==
  /\ TypeOK /\ AgesBounded
  /\ \A m \in Messages :
       /\ delivered[m] <= sends[m]
       /\ delivered[m] = sends[m] => Covered(m)

(* A text that is new to the filter finds a place that no other text needs. *)
HasRoom ==
  rx.at = "acked" =>
    \/ \E i \in DedupeSlots : IsDuplicate(i, rx.msg)
    \/ \E i \in DedupeSlots : ~IsFresh(i)

LEMMA LifeBounds ==
  ASSUME NEW t \in AckTimeouts, NEW n \in 1 .. MaxAttempts - 1
  PROVE  /\ Retries(n, t) \in Nat /\ Retries(n - 1, t) \in Nat
         /\ Retries(n, t) = Retries(n - 1, t) + (t + Slack)
         /\ MaxDelay <= Retries(n - 1, t)
         /\ Retries(n, t) <= DedupeWindow
<1>1. t \in Nat /\ n \in Nat /\ n - 1 \in Nat /\ t + Slack \in Nat /\ MaxDelay \in Nat
      /\ MaxAttempts - 1 - n \in Nat /\ MaxAttempts - 1 \in Nat
  OBVIOUS
<1> DEFINE p == t + Slack
<1>2. (MaxAttempts - 1) * p + MaxDelay <= DedupeWindow
  BY WindowAssumption
<1> HIDE DEF p
<1>3. p \in Nat
  BY <1>1 DEF p
<1>4. n * p = (n - 1) * p + p
  BY <1>1, <1>3
<1>5. (n - 1) * p \in Nat /\ n * p \in Nat /\ (MaxAttempts - 1 - n) * p \in Nat
  BY <1>1, <1>3
<1>6. (MaxAttempts - 1) * p = n * p + (MaxAttempts - 1 - n) * p
  BY <1>1, <1>3
<1>7. n * p + MaxDelay <= DedupeWindow
  BY <1>1, <1>2, <1>5, <1>6
<1>8. Retries(n, t) = n * p + MaxDelay /\ Retries(n - 1, t) = (n - 1) * p + MaxDelay
  BY DEF Retries, p
<1> QED
  BY <1>1, <1>4, <1>5, <1>7, <1>8 DEF p

LEMMA DelayFits == MaxDelay <= DedupeWindow
<1>1. PICK t \in AckTimeouts : TRUE
  OBVIOUS
<1>2. (MaxAttempts - 1) * (t + Slack) + MaxDelay <= DedupeWindow
  BY WindowAssumption
<1>3. MaxAttempts - 1 \in Nat /\ t + Slack \in Nat
  OBVIOUS
<1>4. (MaxAttempts - 1) * (t + Slack) \in Nat
  BY <1>3
<1> QED
  BY <1>2, <1>4

(* What an entry that may still be sent can cause.                          *)
LEMMA EntryLife ==
  ASSUME TypeOK, AgesBounded, NEW s \in Slots, Valid(s), pending[s].attempts < MaxAttempts,
         NEW n, n = MaxAttempts - pending[s].attempts, NEW t, t = pending[s].timeout
  PROVE  /\ n \in 1 .. MaxAttempts - 1 /\ t \in AckTimeouts
         /\ pending[s].age \in Nat /\ pending[s].age <= t + Slack
         /\ Retries(n, t) \in Nat /\ pending[s].age <= Retries(n, t)
         /\ Retries(n, t) <= DedupeWindow
<1>1. pending[s] \in Entry
  BY ValidEntry
<1>2. /\ n \in 1 .. MaxAttempts - 1 /\ t \in AckTimeouts /\ t \in Nat
      /\ pending[s].age \in Nat
  <2>1. pending[s].attempts \in 1 .. MaxAttempts
    BY <1>1 DEF Entry
  <2>2. t \in AckTimeouts /\ pending[s].age \in Nat
    BY <1>1 DEF Entry
  <2>3. n \in 1 .. MaxAttempts - 1
    BY <2>1
  <2> QED
    BY <2>2, <2>3
<1>3. pending[s].age <= t + Slack
  BY DEF AgesBounded
<1>4. /\ Retries(n, t) \in Nat /\ Retries(n - 1, t) \in Nat
      /\ Retries(n, t) = Retries(n - 1, t) + (t + Slack)
      /\ Retries(n, t) <= DedupeWindow
  BY <1>2, LifeBounds
<1> HIDE DEF Slots
<1> QED
  BY <1>2, <1>3, <1>4

LEMMA KnownAge ==
  ASSUME TypeOK, NEW i \in DedupeSlots, Known(i)
  PROVE  dedupe[i].age \in Nat /\ dedupe[i].slot = "valid" /\ dedupe[i].text \in Texts
BY DEF TypeOK, Known, Empty

(* A remembered text covers what lives no longer.                           *)
LEMMA CoversLess ==
  ASSUME TypeOK, NEW m, NEW l \in Nat, NEW a \in Nat, NEW k \in Nat, NEW b \in Nat,
         Covers(m, l, a), k + a <= l + b
  PROVE  Covers(m, k, b)
<1>1. PICK i \in DedupeSlots :
        Known(i) /\ dedupe[i].text = m.text /\ dedupe[i].age + l <= DedupeWindow + a
  BY DEF Covers
<1>2. dedupe[i].age \in Nat
  BY <1>1, KnownAge
<1>3. dedupe[i].age + k <= DedupeWindow + b
  BY <1>1, <1>2
<1> QED
  BY <1>1, <1>3 DEF Covers

LEMMA CoversFresh ==
  ASSUME TypeOK, NEW m, Covers(m, 0, 0)
  PROVE  \E i \in DedupeSlots : IsDuplicate(i, m)
<1>1. PICK i \in DedupeSlots :
        Known(i) /\ dedupe[i].text = m.text /\ dedupe[i].age + 0 <= DedupeWindow + 0
  BY DEF Covers
<1>2. dedupe[i].age \in Nat
  BY <1>1, KnownAge
<1> QED
  BY <1>1, <1>2 DEF IsDuplicate, IsFresh

LEMMA CoversSame ==
  ASSUME UNCHANGED dedupe, NEW m, NEW l, NEW a
  PROVE  Covers(m, l, a)' <=> Covers(m, l, a)
BY DEF Covers, Known

(* The parts of the invariant, when nothing they speak of changes.          *)
LEMMA RxSame ==
  ASSUME UNCHANGED <<dedupe, rx>>, NEW m, RxCovered(m) PROVE RxCovered(m)'
BY DEF RxCovered, Covers, Known

LEMMA AirSame ==
  ASSUME UNCHANGED dedupe, NEW m, AirCovered(m),
         \A f \in air' : f.kind = "data" /\ f.msg = m => f \in air
  PROVE  AirCovered(m)'
BY DEF AirCovered, Covers, Known

LEMMA WorkerSame ==
  ASSUME UNCHANGED <<dedupe, worker>>, NEW m, WorkerCovered(m) PROVE WorkerCovered(m)'
BY DEF WorkerCovered, Covers, Known

LEMMA MobileSame ==
  ASSUME UNCHANGED <<dedupe, mobile>>, NEW m, MobileCovered(m) PROVE MobileCovered(m)'
BY DEF MobileCovered, Covers, Known

LEMMA TableSame ==
  ASSUME UNCHANGED dedupe, NEW m, TableCovered(m),
         \A s \in Slots : Valid(s)' => pending'[s] = pending[s]
  PROVE  TableCovered(m)'
BY DEF TableCovered, Covers, Known, Valid

(* Ages: nothing gets older but by the clock.                               *)
LEMMA AgesStay ==
  ASSUME AgesBounded,
         \A f \in air' : f \in air \/ f.age = 0,
         \A s \in Slots : Valid(s)' =>
           \/ pending'[s] = pending[s]
           \/ pending'[s].age = 0 /\ pending'[s].timeout \in Nat
  PROVE  AgesBounded'
<1>1. \A f \in air' : f.age <= MaxDelay
  BY DEF AgesBounded
<1>2. ASSUME NEW s \in Slots, Valid(s)' PROVE pending'[s].age <= pending'[s].timeout + Slack
  <2>1. CASE pending'[s] = pending[s]
    BY <1>2, <2>1 DEF AgesBounded, Valid
  <2>2. CASE pending'[s].age = 0 /\ pending'[s].timeout \in Nat
    BY <2>2
  <2> QED
    BY <1>2, <2>1, <2>2
<1> QED
  BY <1>1, <1>2 DEF AgesBounded

LEMMA SameCounts ==
  ASSUME OnceInv, TypeOK', AgesBounded', UNCHANGED <<sends, delivered>>,
         \A m \in Messages : Covered(m) => Covered(m)'
  PROVE  OnceInv'
BY DEF OnceInv

LEMMA AirAges ==
  ASSUME TypeOK, AgesBounded, NEW f \in air
  PROVE  f.age \in Nat /\ f.age <= MaxDelay /\ f.msg \in Messages
BY DEF TypeOK, Frames, AgesBounded

LEMMA OnceMobileSend ==
  ASSUME OnceInv, TypeOK', NEW m \in Messages, MobileSend(m)
  PROVE  OnceInv'
<1>1. /\ UNCHANGED <<pending, worker, rx, dedupe, delivered>>
      /\ sends' = [sends EXCEPT ![m] = @ + 1]
      /\ \/ air' = air \cup {Frame("data", m)} /\ mobile' = At("sent", m)
         \/ UNCHANGED <<air, mobile>>
  BY DEF MobileSend, receiverVars
<1>2. AgesBounded'
  <2>1. \A f \in air' : f \in air \/ f.age = 0
    BY <1>1 DEF Frame
  <2> QED
    BY <1>1, <2>1, AgesStay DEF OnceInv
<1>3. ASSUME NEW n \in Messages
      PROVE  delivered'[n] <= sends'[n] /\ (delivered'[n] = sends'[n] => Covered(n)')
  <2>0. delivered[n] \in Nat /\ sends[n] \in Nat /\ delivered[n] <= sends[n]
    BY DEF OnceInv, TypeOK
  <2>1. CASE n = m
    <3>1. sends'[m] = sends[m] + 1
      BY <1>1 DEF OnceInv, TypeOK
    <3> QED
      BY <1>1, <2>0, <2>1, <3>1
  <2>2. CASE n # m
    <3>1. sends'[n] = sends[n]
      BY <1>1, <2>2 DEF OnceInv, TypeOK
    <3>2. ASSUME Covered(n) PROVE Covered(n)'
      <4>1. RxCovered(n)'
        BY <1>1, <3>2, RxSame DEF Covered
      <4>2. AirCovered(n)'
        <5>1. \A f \in air' : f.kind = "data" /\ f.msg = n => f \in air
          BY <1>1, <2>2 DEF Frame
        <5> QED
          BY <1>1, <3>2, <5>1, AirSame DEF Covered
      <4>3. WorkerCovered(n)'
        BY <1>1, <3>2, WorkerSame DEF Covered
      <4>4. MobileCovered(n)'
        <5>1. CASE UNCHANGED mobile
          BY <1>1, <3>2, <5>1, MobileSame DEF Covered
        <5>2. CASE mobile' = At("sent", m)
          BY <2>2, <5>2 DEF MobileCovered, At
        <5> QED
          BY <1>1, <5>1, <5>2
      <4>5. TableCovered(n)'
        BY <1>1, <3>2, TableSame DEF Covered
      <4> QED
        BY <4>1, <4>2, <4>3, <4>4, <4>5 DEF Covered
    <3> QED
      BY <1>1, <2>0, <3>1, <3>2 DEF OnceInv
  <2> QED
    BY <2>1, <2>2
<1> QED
  BY <1>2, <1>3 DEF OnceInv

LEMMA OnceMobileStore ==
  ASSUME OnceInv, TypeOK', MobileStore
  PROVE  OnceInv'
<1>1. PICK s \in Slots, t \in AckTimeouts :
        pending' = [pending EXCEPT ![s] = Sent(mobile.msg, 1, t)]
  BY DEF MobileStore
<1>2. /\ UNCHANGED <<air, worker, rx, dedupe, delivered, sends>>
      /\ mobile' = Idle /\ mobile.at = "sent"
  BY DEF MobileStore, receiverVars
<1>3. /\ pending'[s] = Sent(mobile.msg, 1, t)
      /\ \A u \in Slots : u # s => pending'[u] = pending[u]
  BY <1>1 DEF OnceInv, TypeOK
<1>4. AgesBounded'
  <2>1. pending'[s].age = 0 /\ pending'[s].timeout = t
    BY <1>3 DEF Sent
  <2>2. t \in Nat
    OBVIOUS
  <2> QED
    BY <1>2, <1>3, <2>1, <2>2, AgesStay DEF OnceInv
<1>5. ASSUME NEW n \in Messages, Covered(n) PROVE Covered(n)'
  <2>1. RxCovered(n)' /\ WorkerCovered(n)'
    BY <1>2, <1>5, RxSame, WorkerSame DEF Covered
  <2>2. AirCovered(n)'
    BY <1>2, <1>5, AirSame DEF Covered
  <2>3. MobileCovered(n)'
    BY <1>2 DEF MobileCovered, Idle
  <2>4. TableCovered(n)'
    <3> SUFFICES ASSUME NEW u \in Slots, Valid(u)', pending'[u].msg = n,
                        pending'[u].attempts < MaxAttempts
                 PROVE  Covers(n, Retries(MaxAttempts - pending[u].attempts,
                                          pending[u].timeout), pending[u].age)'
      BY DEF TableCovered, Retries
    <3>1. CASE u # s
      BY <1>2, <1>3, <1>5, <3>1 DEF Covered, TableCovered, Covers, Known, Valid
    <3>2. CASE u = s
      <4>1. pending'[u] = [slot |-> "valid", msg |-> mobile.msg, attempts |-> 1,
                           age |-> 0, timeout |-> t]
        BY <1>3, <3>2 DEF Sent
      <4>2. mobile.msg = n
        BY <4>1
      <4>3. Covers(n, Retries(MaxAttempts - 1, t), 0)
        BY <1>2, <1>5, <4>2 DEF Covered, MobileCovered
      <4>4. Covers(n, Retries(MaxAttempts - 1, t), 0)'
        BY <1>2, <4>3 DEF Covers, Known
      <4> QED
        BY <4>1, <4>4
    <3> QED
      BY <3>1, <3>2
  <2> QED
    BY <2>1, <2>2, <2>3, <2>4 DEF Covered
<1> QED
  BY <1>2, <1>4, <1>5, SameCounts

LEMMA OnceWorkerScan ==
  ASSUME OnceInv, TypeOK', WorkerScan
  PROVE  OnceInv'
<1>1. PICK s \in Slots :
        /\ IsDue(s)
        /\ \/ pending' = [pending EXCEPT ![s] = Empty] /\ UNCHANGED worker
           \/ /\ ~IsExhausted(s)
              /\ pending' = [pending EXCEPT ![s] =
                   Sent(pending[s].msg, pending[s].attempts + 1, pending[s].timeout)]
              /\ worker' = At("copied", pending[s].msg)
  BY DEF WorkerScan
<1>2. UNCHANGED <<air, mobile, rx, dedupe, delivered, sends>>
  BY DEF WorkerScan, receiverVars
<1>3. Valid(s) /\ pending[s] \in Entry
  BY <1>1, ValidEntry DEF IsDue, OnceInv
<1>4. \A u \in Slots : u # s => pending'[u] = pending[u]
  BY <1>1 DEF OnceInv, TypeOK
<1>5. CASE pending' = [pending EXCEPT ![s] = Empty] /\ UNCHANGED worker
  <2>1. ~Valid(s)'
    BY <1>5 DEF Valid, Empty, OnceInv, TypeOK
  <2>2. \A u \in Slots : Valid(u)' => pending'[u] = pending[u]
    BY <1>4, <2>1
  <2>3. AgesBounded'
    BY <1>2, <2>2, AgesStay DEF OnceInv
  <2>4. \A n \in Messages : Covered(n) => Covered(n)'
    BY <1>2, <1>5, <2>2, RxSame, AirSame, WorkerSame, MobileSame, TableSame DEF Covered
  <2> QED
    BY <1>2, <2>3, <2>4, SameCounts
<1>6. CASE /\ ~IsExhausted(s)
           /\ pending' = [pending EXCEPT ![s] =
                Sent(pending[s].msg, pending[s].attempts + 1, pending[s].timeout)]
           /\ worker' = At("copied", pending[s].msg)
  <2> DEFINE e == pending[s]
             k == MaxAttempts - e.attempts
  <2>1. pending'[s] = Sent(e.msg, e.attempts + 1, e.timeout)
    BY <1>6 DEF OnceInv, TypeOK
  <2>2. e.attempts \in 1 .. MaxAttempts /\ e.timeout \in AckTimeouts
    BY <1>3 DEF Entry
  <2>3. e.attempts < MaxAttempts
    BY <1>6, <2>2 DEF IsExhausted
  <2>4. /\ k \in 1 .. MaxAttempts - 1 /\ e.age \in Nat
        /\ e.age <= e.timeout + Slack /\ Retries(k, e.timeout) \in Nat
    BY <1>3, <2>3, EntryLife DEF OnceInv
  <2>5. /\ Retries(k - 1, e.timeout) \in Nat
        /\ Retries(k, e.timeout) = Retries(k - 1, e.timeout) + (e.timeout + Slack)
        /\ MaxDelay <= Retries(k - 1, e.timeout)
    BY <2>2, <2>4, LifeBounds
  <2>6. AgesBounded'
    <3>1. pending'[s].age = 0 /\ pending'[s].timeout = e.timeout
      BY <2>1 DEF Sent
    <3>2. e.timeout \in Nat
      BY <2>2
    <3> QED
      BY <1>2, <1>4, <3>1, <3>2, AgesStay DEF OnceInv
  <2>7. ASSUME NEW n \in Messages, Covered(n) PROVE Covered(n)'
    <3>1. RxCovered(n)' /\ MobileCovered(n)' /\ AirCovered(n)'
      BY <1>2, <2>7, RxSame, MobileSame, AirSame DEF Covered
    <3>2. ASSUME e.msg = n
          PROVE  Covers(n, Retries(k - 1, e.timeout), 0) /\ Covers(n, MaxDelay, 0)
      <4>1. Covers(n, Retries(k, e.timeout), e.age)
        BY <1>3, <2>3, <2>7, <3>2 DEF Covered, TableCovered
      <4> HIDE DEF e, k
      <4>2. /\ Retries(k - 1, e.timeout) + e.age <= Retries(k, e.timeout) + 0
            /\ MaxDelay + e.age <= Retries(k, e.timeout) + 0
        <5>1. e.timeout \in Nat
          BY <2>2
        <5> QED
          BY <2>4, <2>5, <5>1
      <4>3. TypeOK /\ MaxDelay \in Nat
        BY DEF OnceInv
      <4>4. Covers(n, Retries(k - 1, e.timeout), 0)
        BY <2>4, <2>5, <4>1, <4>2, <4>3, CoversLess
      <4>5. Covers(n, MaxDelay, 0)
        BY <2>4, <2>5, <4>1, <4>2, <4>3, CoversLess
      <4> QED
        BY <4>4, <4>5
    <3>3. WorkerCovered(n)'
      BY <1>2, <1>6, <3>2 DEF WorkerCovered, At, Covers, Known
    <3>4. TableCovered(n)'
      <4> SUFFICES ASSUME NEW u \in Slots, Valid(u)', pending'[u].msg = n,
                          pending'[u].attempts < MaxAttempts
                   PROVE  Covers(n, Retries(MaxAttempts - pending[u].attempts,
                                            pending[u].timeout), pending[u].age)'
        BY DEF TableCovered, Retries
      <4>1. CASE u # s
        BY <1>2, <1>4, <2>7, <4>1 DEF Covered, TableCovered, Covers, Known, Valid
      <4>2. CASE u = s
        <5>1. pending'[u] = [slot |-> "valid", msg |-> e.msg, attempts |-> e.attempts + 1,
                             age |-> 0, timeout |-> e.timeout]
          BY <2>1, <4>2 DEF Sent
        <5>2. MaxAttempts - pending'[u].attempts = k - 1
          BY <2>2, <5>1
        <5>3. Covers(n, Retries(k - 1, e.timeout), 0)
          BY <3>2, <5>1
        <5>4. \E i \in DedupeSlots :
                /\ Known(i)' /\ dedupe'[i].text = n.text
                /\ dedupe'[i].age + Retries(k - 1, e.timeout) <= DedupeWindow + 0
          BY <1>2, <5>3 DEF Covers, Known
        <5>5. pending'[u].age = 0 /\ pending'[u].timeout = e.timeout
          BY <5>1
        <5> QED
          BY <5>2, <5>4, <5>5 DEF Covers
      <4> QED
        BY <4>1, <4>2
    <3> QED
      BY <3>1, <3>3, <3>4 DEF Covered
  <2> QED
    BY <1>2, <2>6, <2>7, SameCounts
<1> QED
  BY <1>1, <1>5, <1>6

LEMMA OnceWorkerCheck ==
  ASSUME OnceInv, TypeOK', WorkerCheck
  PROVE  OnceInv'
<1>1. /\ UNCHANGED <<pending, mobile, air, rx, dedupe, delivered, sends>>
      /\ worker.at = "copied"
      /\ worker' = At("checked", worker.msg) \/ worker' = Idle
  BY DEF WorkerCheck, receiverVars
<1>2. AgesBounded'
  BY <1>1, AgesStay DEF OnceInv
<1>3. ASSUME NEW n \in Messages, Covered(n) PROVE Covered(n)'
  <2>1. RxCovered(n)' /\ MobileCovered(n)' /\ AirCovered(n)' /\ TableCovered(n)'
    BY <1>1, <1>3, RxSame, MobileSame, AirSame, TableSame DEF Covered
  <2>2. WorkerCovered(n)'
    BY <1>1, <1>3 DEF Covered, WorkerCovered, At, Idle, Covers, Known
  <2> QED
    BY <2>1, <2>2 DEF Covered
<1> QED
  BY <1>1, <1>2, <1>3, SameCounts

LEMMA OnceWorkerSend ==
  ASSUME OnceInv, TypeOK', WorkerSend
  PROVE  OnceInv'
<1>1. /\ UNCHANGED <<pending, mobile, rx, dedupe, delivered, sends>>
      /\ worker.at = "checked" /\ worker' = Idle
      /\ air' = air \cup {Frame("data", worker.msg)} \/ air' = air
  BY DEF WorkerSend, receiverVars
<1>2. AgesBounded'
  <2>1. \A f \in air' : f \in air \/ f.age = 0
    BY <1>1 DEF Frame
  <2> QED
    BY <1>1, <2>1, AgesStay DEF OnceInv
<1>3. ASSUME NEW n \in Messages, Covered(n) PROVE Covered(n)'
  <2>1. RxCovered(n)' /\ MobileCovered(n)' /\ TableCovered(n)'
    BY <1>1, <1>3, RxSame, MobileSame, TableSame DEF Covered
  <2>2. WorkerCovered(n)'
    BY <1>1 DEF WorkerCovered, Idle
  <2>3. AirCovered(n)'
    <3> SUFFICES ASSUME NEW f \in air', f.kind = "data", f.msg = n
                 PROVE  \E i \in DedupeSlots :
                          /\ Known(i)' /\ dedupe'[i].text = n.text
                          /\ dedupe'[i].age + MaxDelay <= DedupeWindow + f.age
      BY DEF AirCovered, Covers
    <3>1. CASE f \in air
      BY <1>1, <1>3, <3>1 DEF Covered, AirCovered, Covers, Known
    <3>2. CASE f = Frame("data", worker.msg)
      <4>1. f.age = 0 /\ worker.msg = n
        BY <3>2 DEF Frame
      <4>2. Covers(n, MaxDelay, 0)
        BY <1>1, <1>3, <4>1 DEF Covered, WorkerCovered
      <4> QED
        BY <1>1, <4>1, <4>2 DEF Covers, Known
    <3> QED
      BY <1>1, <3>1, <3>2
  <2> QED
    BY <2>1, <2>2, <2>3 DEF Covered
<1> QED
  BY <1>1, <1>2, <1>3, SameCounts

LEMMA OnceSenderReceive ==
  ASSUME OnceInv, TypeOK', NEW f \in air, SenderReceive(f)
  PROVE  OnceInv'
<1>1. /\ UNCHANGED <<mobile, worker, rx, dedupe, delivered, sends>>
      /\ air' \subseteq air
  BY DEF SenderReceive, receiverVars
<1>2. \A s \in Slots : pending'[s] = Empty \/ pending'[s] = pending[s]
  BY DEF SenderReceive, OnceInv, TypeOK
<1>3. \A s \in Slots : Valid(s)' => pending'[s] = pending[s]
  BY <1>2 DEF Valid, Empty
<1>4. AgesBounded'
  BY <1>1, <1>3, AgesStay DEF OnceInv
<1>5. ASSUME NEW n \in Messages, Covered(n) PROVE Covered(n)'
  BY <1>1, <1>3, <1>5, RxSame, WorkerSame, MobileSame, AirSame, TableSame DEF Covered
<1> QED
  BY <1>1, <1>4, <1>5, SameCounts

LEMMA OnceReceiverReceive ==
  ASSUME OnceInv, TypeOK', NEW f \in air, ReceiverReceive(f)
  PROVE  OnceInv'
<1>1. /\ UNCHANGED <<pending, mobile, worker, dedupe, delivered, sends>>
      /\ rx' = At("acked", f.msg)
      /\ f.kind = "data"
      /\ \A g \in air' : g \in air \/ (g.kind = "ack" /\ g.age = 0)
  BY DEF ReceiverReceive, senderVars, AckFrames, Frame
<1>2. AgesBounded'
  BY <1>1, AgesStay DEF OnceInv
<1>3. ASSUME NEW n \in Messages, Covered(n) PROVE Covered(n)'
  <2>1. WorkerCovered(n)' /\ MobileCovered(n)' /\ TableCovered(n)'
    BY <1>1, <1>3, WorkerSame, MobileSame, TableSame DEF Covered
  <2>2. AirCovered(n)'
    BY <1>1, <1>3, AirSame DEF Covered
  <2>3. RxCovered(n)'
    <3> SUFFICES ASSUME f.msg = n PROVE Covers(n, 0, 0)
      BY <1>1 DEF RxCovered, At, Covers, Known
    <3>1. Covers(n, MaxDelay, f.age)
      BY <1>1, <1>3 DEF Covered, AirCovered
    <3>2. f.age \in Nat /\ f.age <= MaxDelay
      BY AirAges DEF OnceInv
    <3>3. TypeOK /\ MaxDelay \in Nat /\ 0 \in Nat /\ 0 + f.age <= MaxDelay + 0
      BY <3>2 DEF OnceInv
    <3> QED
      BY <3>1, <3>2, <3>3, CoversLess
  <2> QED
    BY <2>1, <2>2, <2>3 DEF Covered
<1> QED
  BY <1>1, <1>2, <1>3, SameCounts

(* The clock moves what is remembered and what is covered alike.            *)
LEMMA CoversTick ==
  ASSUME TypeOK, Tick, NEW m, NEW l \in Nat, NEW a \in Nat, a <= l, Covers(m, l, a)
  PROVE  Covers(m, l, a + 1)'
<1>1. PICK i \in DedupeSlots :
        Known(i) /\ dedupe[i].text = m.text /\ dedupe[i].age + l <= DedupeWindow + a
  BY DEF Covers
<1>2. dedupe[i] \in [slot : {"valid"}, text : Texts, age : Nat]
  BY <1>1 DEF TypeOK, Known, Empty
<1>3. dedupe[i].age \in Nat
  BY <1>2
<1>4. dedupe[i].age <= DedupeWindow
  BY <1>1, <1>3
<1>5. dedupe'[i] = [dedupe[i] EXCEPT !.age = @ + 1]
  BY <1>1, <1>4 DEF Tick, IsFresh
<1>6. dedupe'[i].slot = "valid" /\ dedupe'[i].text = m.text /\ dedupe'[i].age = dedupe[i].age + 1
  BY <1>1, <1>2, <1>5
<1>7. dedupe'[i].age + l <= DedupeWindow + (a + 1)
  BY <1>1, <1>3, <1>6
<1> QED
  BY <1>6, <1>7 DEF Covers, Known

LEMMA OnceTick ==
  ASSUME OnceInv, TypeOK', Tick
  PROVE  OnceInv'
<1>1. /\ UNCHANGED <<mobile, worker, rx, delivered, sends>>
      /\ mobile = Idle /\ worker = Idle /\ rx = Idle
      /\ air' = {[f EXCEPT !.age = @ + 1] : f \in air}
      /\ \A f \in air : f.age < MaxDelay
  BY DEF Tick
<1>2. ASSUME NEW g \in air'
      PROVE  \E f \in air : /\ g.kind = f.kind /\ g.msg = f.msg /\ g.age = f.age + 1
                            /\ f.age \in Nat /\ f.age < MaxDelay
  <2>1. PICK f \in air : g = [f EXCEPT !.age = @ + 1]
    BY <1>1, <1>2
  <2>2. f \in [kind : {"data", "ack"}, msg : Messages, age : Nat]
    BY DEF OnceInv, TypeOK, Frames
  <2> QED
    BY <1>1, <2>1, <2>2
<1>3. ASSUME NEW s \in Slots, Valid(s)'
      PROVE  /\ Valid(s) /\ pending[s].age \in Nat
             /\ pending'[s].msg = pending[s].msg
             /\ pending'[s].attempts = pending[s].attempts
             /\ pending'[s].timeout = pending[s].timeout
             /\ pending'[s].age = pending[s].age + 1
             /\ pending[s].age < pending[s].timeout + Slack
             /\ pending[s].timeout \in Nat
  <2>1. Valid(s)
    BY <1>3 DEF Tick, Valid
  <2>2. pending[s] \in [slot : {"valid"}, msg : Messages, attempts : 1 .. MaxAttempts,
                        age : Nat, timeout : AckTimeouts]
    BY <2>1, ValidEntry DEF OnceInv, Entry
  <2>3. pending'[s] = [pending[s] EXCEPT !.age = @ + 1]
    BY <2>1 DEF Tick
  <2>4. pending[s].age < pending[s].timeout + Slack
    BY <2>1 DEF Tick
  <2>5. pending[s].timeout \in AckTimeouts
    BY <2>2
  <2>6. pending[s].timeout \in Nat
    BY <2>5
  <2> QED
    BY <2>1, <2>2, <2>3, <2>4, <2>6
<1>4. AgesBounded'
  <2>1. \A f \in air' : f.age <= MaxDelay
    BY <1>2
  <2>2. ASSUME NEW s \in Slots, Valid(s)'
        PROVE  pending'[s].age <= pending'[s].timeout + Slack
    BY <1>3, <2>2
  <2> QED
    BY <2>1, <2>2 DEF AgesBounded
<1>5. ASSUME NEW n \in Messages, Covered(n) PROVE Covered(n)'
  <2>1. RxCovered(n)' /\ WorkerCovered(n)' /\ MobileCovered(n)'
    BY <1>1 DEF RxCovered, WorkerCovered, MobileCovered, Idle
  <2>2. AirCovered(n)'
    <3> SUFFICES ASSUME NEW g \in air', g.kind = "data", g.msg = n
                 PROVE  \E i \in DedupeSlots :
                          /\ Known(i)' /\ dedupe'[i].text = n.text
                          /\ dedupe'[i].age + MaxDelay <= DedupeWindow + g.age
      BY DEF AirCovered, Covers
    <3>1. PICK f \in air : /\ g.kind = f.kind /\ g.msg = f.msg /\ g.age = f.age + 1
                           /\ f.age \in Nat /\ f.age < MaxDelay
      BY <1>2
    <3>2. Covers(n, MaxDelay, f.age)
      BY <1>5, <3>1 DEF Covered, AirCovered
    <3> DEFINE a == f.age
    <3>3. \A b \in Nat : b <= MaxDelay /\ Covers(n, MaxDelay, b) =>
            \E i \in DedupeSlots : /\ Known(i)' /\ dedupe'[i].text = n.text
                                   /\ dedupe'[i].age + MaxDelay <= DedupeWindow + (b + 1)
      BY CoversTick DEF OnceInv, Covers
    <3> QED
      BY <3>1, <3>2, <3>3
  <2>3. TableCovered(n)'
    <3> SUFFICES ASSUME NEW s \in Slots, Valid(s)', pending'[s].msg = n,
                        pending'[s].attempts < MaxAttempts
                 PROVE  \E i \in DedupeSlots :
                          /\ Known(i)' /\ dedupe'[i].text = n.text
                          /\ dedupe'[i].age
                               + Retries(MaxAttempts - pending'[s].attempts, pending'[s].timeout)
                             <= DedupeWindow + pending'[s].age
      BY DEF TableCovered, Covers
    <3> DEFINE l == Retries(MaxAttempts - pending[s].attempts, pending[s].timeout)
    <3>1. Valid(s) /\ pending[s].msg = n /\ pending[s].attempts < MaxAttempts
      BY <1>3
    <3>2. l \in Nat /\ pending[s].age \in Nat /\ pending[s].age <= l
      BY <3>1, EntryLife DEF OnceInv
    <3>3. Covers(n, l, pending[s].age)
      BY <1>5, <3>1 DEF Covered, TableCovered
    <3>4. l = Retries(MaxAttempts - pending'[s].attempts, pending'[s].timeout)
      BY <1>3
    <3>5. pending'[s].age = pending[s].age + 1
      BY <1>3
    <3> HIDE DEF l
    <3>6. \A k, b \in Nat : b <= k /\ Covers(n, k, b) =>
            \E i \in DedupeSlots : /\ Known(i)' /\ dedupe'[i].text = n.text
                                   /\ dedupe'[i].age + k <= DedupeWindow + (b + 1)
      BY CoversTick DEF OnceInv, Covers
    <3> QED
      BY <3>2, <3>3, <3>4, <3>5, <3>6
  <2> QED
    BY <2>1, <2>2, <2>3 DEF Covered
<1> QED
  BY <1>1, <1>4, <1>5, SameCounts

(* What the filter still needs it keeps: the place of a new text is not one *)
(* that is fresh, and a fresh text keeps its place.                         *)
LEMMA CoversNotify ==
  ASSUME OnceInv, HasRoom, ReceiverNotify, NEW m \in Messages,
         NEW l \in Nat, NEW a \in Nat, a <= l, l <= DedupeWindow,
         delivered' = delivered => Covers(m, l, a),
         m.text # rx.msg.text => Covers(m, l, a)
  PROVE  Covers(m, l, a)'
<1>0. TypeOK /\ dedupe \in [DedupeSlots ->
                 [slot : {"valid"}, text : Texts, age : Nat] \cup {Empty}]
  BY DEF OnceInv, TypeOK
<1>1. CASE \E i \in DedupeSlots :
             /\ IsDuplicate(i, rx.msg)
             /\ dedupe' = [dedupe EXCEPT ![i].age = 0]
             /\ UNCHANGED delivered
  <2>1. PICK i \in DedupeSlots :
          IsDuplicate(i, rx.msg) /\ dedupe' = [dedupe EXCEPT ![i].age = 0]
    BY <1>1
  <2>2. PICK j \in DedupeSlots :
          Known(j) /\ dedupe[j].text = m.text /\ dedupe[j].age + l <= DedupeWindow + a
    BY <1>1 DEF Covers
  <2>3. dedupe[j] \in [slot : {"valid"}, text : Texts, age : Nat]
    BY <1>0, <2>2 DEF Known, Empty
  <2>4. CASE j # i
    <3>1. dedupe'[j] = dedupe[j]
      BY <1>0, <2>1, <2>4
    <3> QED
      BY <2>2, <3>1 DEF Covers, Known
  <2>5. CASE j = i
    <3>1. dedupe'[j] = [dedupe[j] EXCEPT !.age = 0]
      BY <1>0, <2>1, <2>5
    <3>2. dedupe'[j].slot = "valid" /\ dedupe'[j].text = m.text /\ dedupe'[j].age = 0
      BY <2>2, <2>3, <3>1
    <3>3. dedupe'[j].age + l <= DedupeWindow + a
      BY <3>2
    <3> QED
      BY <3>2, <3>3 DEF Covers, Known
  <2> QED
    BY <2>4, <2>5
<1>2. CASE /\ \A i \in DedupeSlots : ~IsDuplicate(i, rx.msg)
           /\ \E i \in DedupeSlots :
                /\ RemembersIn(i)
                /\ dedupe' = [dedupe EXCEPT ![i] =
                     [slot |-> "valid", text |-> rx.msg.text, age |-> 0]]
  <2>1. PICK i \in DedupeSlots :
          /\ RemembersIn(i)
          /\ dedupe' = [dedupe EXCEPT ![i] =
               [slot |-> "valid", text |-> rx.msg.text, age |-> 0]]
    BY <1>2
  <2>2. dedupe'[i] = [slot |-> "valid", text |-> rx.msg.text, age |-> 0]
    BY <1>0, <2>1
  <2>3. CASE m.text = rx.msg.text
    <3>1. dedupe'[i].slot = "valid" /\ dedupe'[i].text = m.text /\ dedupe'[i].age = 0
      BY <2>2, <2>3
    <3>2. dedupe'[i].age + l <= DedupeWindow + a
      BY <3>1
    <3> QED
      BY <3>1, <3>2 DEF Covers, Known
  <2>4. CASE m.text # rx.msg.text
    <3>1. PICK j \in DedupeSlots :
            Known(j) /\ dedupe[j].text = m.text /\ dedupe[j].age + l <= DedupeWindow + a
      BY <2>4 DEF Covers
    <3>2. dedupe[j].age \in Nat
      BY <1>0, <3>1, KnownAge
    <3>3. dedupe[j].age <= DedupeWindow
      BY <3>1, <3>2
    <3>4. IsFresh(j)
      BY <3>1, <3>3 DEF IsFresh
    <3>5. \E k \in DedupeSlots : ~IsFresh(k)
      BY <1>2 DEF HasRoom, ReceiverNotify
    <3>6. ~IsFresh(i)
      <4> DEFINE expired == {k \in DedupeSlots : Known(k) /\ ~IsFresh(k)}
                 free    == {k \in DedupeSlots : ~Known(k)}
      <4>1. CASE expired # {}
        BY <2>1, <4>1 DEF RemembersIn
      <4>2. CASE expired = {}
        <5>1. free # {}
          BY <3>5, <4>2
        <5>2. i \in free
          BY <2>1, <4>2, <5>1 DEF RemembersIn
        <5> QED
          BY <5>2 DEF IsFresh
      <4> QED
        BY <4>1, <4>2
    <3>7. dedupe'[j] = dedupe[j]
      BY <1>0, <2>1, <3>4, <3>6
    <3> QED
      BY <3>1, <3>7 DEF Covers, Known
  <2> QED
    BY <2>3, <2>4
<1> QED
  BY <1>1, <1>2 DEF ReceiverNotify

(* Everything that may still come of a packet comes within the window.      *)
LEMMA LivesFit ==
  ASSUME OnceInv, NEW m \in Messages
  PROVE  /\ \A f \in air : f.age \in Nat /\ f.age <= MaxDelay
         /\ \A t \in AckTimeouts :
              Retries(MaxAttempts - 1, t) \in Nat /\ Retries(MaxAttempts - 1, t) <= DedupeWindow
<1>1. \A f \in air : f.age \in Nat /\ f.age <= MaxDelay
  BY AirAges DEF OnceInv
<1>2. ASSUME NEW t \in AckTimeouts
      PROVE  Retries(MaxAttempts - 1, t) \in Nat /\ Retries(MaxAttempts - 1, t) <= DedupeWindow
  <2>1. (MaxAttempts - 1) * (t + Slack) + MaxDelay <= DedupeWindow
    BY WindowAssumption
  <2>2. MaxAttempts - 1 \in Nat /\ t + Slack \in Nat
    OBVIOUS
  <2>3. (MaxAttempts - 1) * (t + Slack) \in Nat
    BY <2>2
  <2> QED
    BY <2>1, <2>3 DEF Retries
<1> QED
  BY <1>1, <1>2

LEMMA OnceReceiverNotify ==
  ASSUME OnceInv, HasRoom, TypeOK', ReceiverNotify
  PROVE  OnceInv'
<1>1. /\ UNCHANGED <<pending, mobile, worker, air, sends>>
      /\ rx.at = "acked" /\ rx' = Idle
  BY DEF ReceiverNotify, senderVars
<1>2. rx.msg \in Messages
  BY <1>1 DEF OnceInv, TypeOK, Idle
<1>3. AgesBounded'
  BY <1>1, AgesStay DEF OnceInv
<1>4. \/ delivered' = delivered
      \/ /\ delivered' = [delivered EXCEPT ![rx.msg] = @ + 1]
         /\ \A i \in DedupeSlots : ~IsDuplicate(i, rx.msg)
  BY DEF ReceiverNotify
<1>5. ASSUME NEW m \in Messages
      PROVE  delivered'[m] <= sends'[m] /\ (delivered'[m] = sends'[m] => Covered(m)')
  <2>0. delivered[m] \in Nat /\ sends[m] \in Nat /\ delivered[m] <= sends[m]
        /\ delivered \in [Messages -> Nat]
    BY DEF OnceInv, TypeOK
  <2> DEFINE Same == delivered' = delivered \/ m.text # rx.msg.text
  <2>1. Same => delivered'[m] = delivered[m]
    BY <1>2, <1>4, <2>0
  <2>2. ~Same /\ m # rx.msg => delivered'[m] = delivered[m]
    BY <1>2, <1>4, <2>0
  <2>3. ~Same /\ m = rx.msg => delivered[m] # sends[m]
    <3> SUFFICES ASSUME ~Same, m = rx.msg, delivered[m] = sends[m] PROVE FALSE
      OBVIOUS
    <3>1. Covers(m, 0, 0)
      BY <1>1 DEF OnceInv, Covered, RxCovered
    <3>2. \E i \in DedupeSlots : IsDuplicate(i, m)
      BY <3>1, CoversFresh DEF OnceInv
    <3> QED
      BY <1>4, <3>2
  <2>4. delivered'[m] <= sends[m]
    <3>1. ~Same /\ m = rx.msg => delivered'[m] = delivered[m] + 1
      BY <1>2, <1>4, <2>0
    <3> QED
      BY <2>0, <2>1, <2>2, <2>3, <3>1
  <2>5. ASSUME delivered'[m] = sends'[m] PROVE Covered(m)'
    <3>1. Same => Covered(m)
      BY <1>1, <2>1, <2>5 DEF OnceInv
    <3> HIDE DEF Same
    <3>2. ASSUME NEW l \in Nat, NEW a \in Nat, a <= l, l <= DedupeWindow,
                 Same => Covers(m, l, a)
          PROVE  \E i \in DedupeSlots : /\ Known(i)' /\ dedupe'[i].text = m.text
                                        /\ dedupe'[i].age + l <= DedupeWindow + a
      BY <3>2, CoversNotify DEF Same, Covers
    <3>3. MaxDelay \in Nat /\ MaxDelay <= DedupeWindow /\ 0 \in Nat /\ 0 <= MaxDelay
      BY DelayFits
    <3>4. RxCovered(m)'
      BY <1>1 DEF RxCovered, Idle
    <3>5. WorkerCovered(m)'
      <4> SUFFICES ASSUME worker.at # "idle", worker.msg = m
                   PROVE  Covers(m, MaxDelay, 0)'
        BY <1>1 DEF WorkerCovered, Covers, Known
      <4>1. Same => Covers(m, MaxDelay, 0)
        BY <3>1 DEF Covered, WorkerCovered
      <4> QED
        BY <3>2, <3>3, <4>1 DEF Covers
    <3>6. AirCovered(m)'
      <4> SUFFICES ASSUME NEW f \in air, f.kind = "data", f.msg = m
                   PROVE  \E i \in DedupeSlots :
                            /\ Known(i)' /\ dedupe'[i].text = m.text
                            /\ dedupe'[i].age + MaxDelay <= DedupeWindow + f.age
        BY <1>1 DEF AirCovered, Covers
      <4>1. Same => Covers(m, MaxDelay, f.age)
        BY <3>1 DEF Covered, AirCovered
      <4>2. f.age \in Nat /\ f.age <= MaxDelay
        BY LivesFit
      <4> QED
        BY <3>2, <3>3, <4>1, <4>2
    <3>7. MobileCovered(m)'
      <4> SUFFICES ASSUME mobile.at = "sent", mobile.msg = m, NEW t \in AckTimeouts
                   PROVE  Covers(m, Retries(MaxAttempts - 1, t), 0)'
        BY <1>1 DEF MobileCovered, Covers, Known
      <4> DEFINE l == Retries(MaxAttempts - 1, t)
      <4>1. Same => Covers(m, l, 0)
        BY <3>1 DEF Covered, MobileCovered
      <4>2. l \in Nat /\ l <= DedupeWindow
        BY LivesFit
      <4> HIDE DEF l
      <4>3. 0 \in Nat /\ 0 <= l
        BY <4>2
      <4>4. Covers(m, l, 0)'
        BY <3>2, <4>1, <4>2, <4>3 DEF Covers
      <4> QED
        BY <4>4 DEF l
    <3>8. TableCovered(m)'
      <4> SUFFICES ASSUME NEW s \in Slots, Valid(s), pending[s].msg = m,
                          pending[s].attempts < MaxAttempts
                   PROVE  \E i \in DedupeSlots :
                            /\ Known(i)' /\ dedupe'[i].text = m.text
                            /\ dedupe'[i].age
                                 + Retries(MaxAttempts - pending[s].attempts, pending[s].timeout)
                               <= DedupeWindow + pending[s].age
        BY <1>1 DEF TableCovered, Covers, Valid
      <4> DEFINE l == Retries(MaxAttempts - pending[s].attempts, pending[s].timeout)
      <4>1. Same => Covers(m, l, pending[s].age)
        BY <3>1 DEF Covered, TableCovered
      <4>2. l \in Nat /\ pending[s].age \in Nat /\ pending[s].age <= l /\ l <= DedupeWindow
        BY EntryLife DEF OnceInv
      <4> HIDE DEF l
      <4>3. \E i \in DedupeSlots : /\ Known(i)' /\ dedupe'[i].text = m.text
                                   /\ dedupe'[i].age + l <= DedupeWindow + pending[s].age
        BY <3>2, <4>1, <4>2
      <4> QED
        BY <4>3 DEF l
    <3> QED
      BY <3>4, <3>5, <3>6, <3>7, <3>8 DEF Covered
  <2> QED
    BY <1>1, <2>4, <2>5
<1> QED
  BY <1>3, <1>5 DEF OnceInv

LEMMA InitOnce == Init => OnceInv
<1> SUFFICES ASSUME Init PROVE OnceInv
  OBVIOUS
<1>1. TypeOK
  BY InitTypeOK
<1>2. AgesBounded
  BY DEF Init, AgesBounded, Valid, Empty
<1>3. ASSUME NEW m \in Messages
      PROVE  delivered[m] <= sends[m] /\ Covered(m)
  BY DEF Init, Covered, RxCovered, AirCovered, WorkerCovered, MobileCovered, TableCovered,
         Valid, Idle, Empty
<1> QED
  BY <1>1, <1>2, <1>3 DEF OnceInv

LEMMA NextOnce == OnceInv /\ HasRoom /\ [Next]_vars => OnceInv'
<1> SUFFICES ASSUME OnceInv, HasRoom, [Next]_vars PROVE OnceInv'
  OBVIOUS
<1>0. TypeOK'
  BY NextTypeOK DEF OnceInv
<1>1. ASSUME NEW m \in Messages, MobileSend(m) PROVE OnceInv'
  BY <1>0, <1>1, OnceMobileSend
<1>2. CASE MobileStore
  BY <1>0, <1>2, OnceMobileStore
<1>3. CASE WorkerNext
  BY <1>0, <1>3, OnceWorkerScan, OnceWorkerCheck, OnceWorkerSend DEF WorkerNext
<1>4. ASSUME NEW f \in air, SenderReceive(f) \/ ReceiverReceive(f) PROVE OnceInv'
  BY <1>0, <1>4, OnceSenderReceive, OnceReceiverReceive
<1>5. CASE ReceiverNotify
  BY <1>0, <1>5, OnceReceiverNotify
<1>6. CASE Tick
  BY <1>0, <1>6, OnceTick
<1>7. CASE /\ UNCHANGED <<pending, mobile, worker, rx, dedupe, delivered, sends>>
           /\ air' \subseteq air
  <2>1. AgesBounded'
    BY <1>7, AgesStay DEF OnceInv
  <2>2. \A m \in Messages : Covered(m) => Covered(m)'
    BY <1>7, RxSame, AirSame, WorkerSame, MobileSame, TableSame DEF Covered
  <2> QED
    BY <1>0, <1>7, <2>1, <2>2, SameCounts
<1>8. ASSUME NEW f \in air, Lose(f) PROVE OnceInv'
  BY <1>7, <1>8 DEF Lose, senderVars, receiverVars
<1>9. CASE SetDeviceMode \/ UNCHANGED vars
  BY <1>7, <1>9 DEF SetDeviceMode, vars, senderVars, receiverVars
<1> QED
  BY <1>1, <1>2, <1>3, <1>4, <1>5, <1>6, <1>8, <1>9 DEF Next, AirNext

(* As long as every new text finds a place that no fresh text needs, the    *)
(* retries and copies of one submission reach the phone once.               *)
THEOREM DeliveredOnce == Spec /\ []HasRoom => []AtMostOncePerSend
<1>1. OnceInv => AtMostOncePerSend
  BY DEF OnceInv, AtMostOncePerSend
<1> QED
  BY <1>1, InitOnce, NextOnce, PTL DEF Spec

(* Fresh entries have texts of their own, for a duplicate only gets younger.*)
TextsApart ==
  \A i, j \in DedupeSlots :
    IsFresh(i) /\ IsFresh(j) /\ dedupe[i].text = dedupe[j].text => i = j

LEMMA NextTextsApart == TypeOK /\ TextsApart /\ [Next]_vars => TextsApart'
<1> SUFFICES ASSUME TypeOK, TextsApart, [Next]_vars PROVE TextsApart'
  OBVIOUS
<1>0. dedupe \in [DedupeSlots ->
                 [slot : {"valid"}, text : Texts, age : Nat] \cup {Empty}]
  BY DEF TypeOK
<1>1. ASSUME \A i \in DedupeSlots : IsFresh(i)' => IsFresh(i) /\ dedupe'[i].text = dedupe[i].text
      PROVE  TextsApart'
  BY <1>1 DEF TextsApart
<1>2. CASE ReceiverNotify
  <2>1. ASSUME NEW i \in DedupeSlots, IsDuplicate(i, rx.msg),
               dedupe' = [dedupe EXCEPT ![i].age = 0]
        PROVE  TextsApart'
    <3>1. dedupe[i] \in [slot : {"valid"}, text : Texts, age : Nat]
      BY <1>0, <2>1 DEF IsDuplicate, IsFresh, Known, Empty
    <3>2. dedupe'[i] = [dedupe[i] EXCEPT !.age = 0]
      BY <1>0, <2>1
    <3>3. dedupe'[i].text = dedupe[i].text
      BY <3>1, <3>2
    <3>4. \A j \in DedupeSlots : j # i => dedupe'[j] = dedupe[j]
      BY <1>0, <2>1
    <3>5. ASSUME NEW j \in DedupeSlots, IsFresh(j)'
          PROVE  IsFresh(j) /\ dedupe'[j].text = dedupe[j].text
      BY <2>1, <3>3, <3>4, <3>5 DEF IsDuplicate, IsFresh, Known
    <3> QED
      BY <1>1, <3>5
  <2>2. ASSUME \A i \in DedupeSlots : ~IsDuplicate(i, rx.msg),
               NEW i \in DedupeSlots,
               dedupe' = [dedupe EXCEPT ![i] =
                    [slot |-> "valid", text |-> rx.msg.text, age |-> 0]]
        PROVE  TextsApart'
    <3>1. dedupe'[i].text = rx.msg.text
      BY <1>0, <2>2
    <3>2. \A j \in DedupeSlots : j # i => dedupe'[j] = dedupe[j]
      BY <1>0, <2>2
    <3>3. ASSUME NEW j \in DedupeSlots, j # i, IsFresh(j)'
          PROVE  IsFresh(j) /\ dedupe'[j].text = dedupe[j].text /\ dedupe[j].text # rx.msg.text
      BY <2>2, <3>2, <3>3 DEF IsDuplicate, IsFresh, Known
    <3> SUFFICES ASSUME NEW j \in DedupeSlots, NEW k \in DedupeSlots, IsFresh(j)', IsFresh(k)',
                        dedupe'[j].text = dedupe'[k].text
                 PROVE  j = k
      BY DEF TextsApart
    <3>4. CASE j # i /\ k # i
      BY <3>3, <3>4 DEF TextsApart
    <3>5. CASE j = i \/ k = i
      BY <3>1, <3>3, <3>5
    <3> QED
      BY <3>4, <3>5
  <2> QED
    BY <1>2, <2>1, <2>2 DEF ReceiverNotify
<1>3. CASE Tick
  <2>1. ASSUME NEW i \in DedupeSlots, IsFresh(i)'
        PROVE  IsFresh(i) /\ dedupe'[i].text = dedupe[i].text
    <3>1. CASE IsFresh(i)
      <4>1. dedupe[i] \in [slot : {"valid"}, text : Texts, age : Nat]
        BY <1>0, <3>1 DEF IsFresh, Known, Empty
      <4>2. dedupe'[i] = [dedupe[i] EXCEPT !.age = @ + 1]
        BY <1>3, <3>1 DEF Tick
      <4> QED
        BY <3>1, <4>1, <4>2
    <3>2. CASE ~IsFresh(i)
      <4>1. dedupe'[i] = dedupe[i]
        BY <1>3, <3>2 DEF Tick
      <4> QED
        BY <2>1, <3>2, <4>1 DEF IsFresh, Known
    <3> QED
      BY <3>1, <3>2
  <2> QED
    BY <1>1, <2>1
<1>4. CASE UNCHANGED dedupe
  BY <1>1, <1>4 DEF IsFresh, Known
<1> QED
  BY <1>2, <1>3, <1>4
     DEF Next, WorkerNext, AirNext, vars, senderVars, receiverVars, MobileSend, MobileStore,
         WorkerScan, WorkerCheck, WorkerSend, SenderReceive, ReceiverReceive, SetDeviceMode, Lose

(* No more texts than EDGEZ_DELIVERY_DEDUPE_TABLE_SIZE: there is room.      *)
LEMMA RoomIsLeft ==
  ASSUME TypeOK, TextsApart, IsFiniteSet(Texts), Cardinality(Texts) <= DedupeSize
  PROVE  HasRoom
<1> SUFFICES ASSUME rx.at = "acked",
                    \A i \in DedupeSlots : IsFresh(i) /\ ~IsDuplicate(i, rx.msg)
             PROVE  FALSE
  BY DEF HasRoom
<1> DEFINE others == Texts \ {rx.msg.text}
           textIn == [i \in DedupeSlots |-> dedupe[i].text]
<1>1. rx.msg \in Messages
  BY DEF TypeOK, Idle
<1>2. rx.msg.text \in Texts
  BY <1>1 DEF Texts
<1>3. IsFiniteSet(others) /\ Cardinality(others) = Cardinality(Texts) - 1
  BY <1>2, FS_RemoveElement
<1>4. IsFiniteSet(DedupeSlots) /\ Cardinality(DedupeSlots) = DedupeSize
  <2>1. 0 \in Int /\ DedupeSize - 1 \in Int /\ 0 <= DedupeSize - 1
    OBVIOUS
  <2>2. /\ IsFiniteSet(0 .. DedupeSize - 1)
        /\ Cardinality(0 .. DedupeSize - 1)
             = IF 0 > DedupeSize - 1 THEN 0 ELSE (DedupeSize - 1) - 0 + 1
    BY <2>1, FS_Interval
  <2> QED
    BY <2>1, <2>2
<1>5. \A i \in DedupeSlots : dedupe[i].text \in others
  <2> SUFFICES ASSUME NEW i \in DedupeSlots PROVE dedupe[i].text \in others
    OBVIOUS
  <2>1. Known(i) /\ dedupe[i].text # rx.msg.text
    BY DEF IsDuplicate, IsFresh
  <2>2. dedupe[i].text \in Texts
    BY <2>1, KnownAge
  <2> QED
    BY <2>1, <2>2
<1>6. textIn \in [DedupeSlots -> others]
  BY <1>5
<1>7. Cardinality(Texts) \in Nat
  BY FS_CardinalityType
<1>8. Cardinality(others) < Cardinality(DedupeSlots)
  <2> HIDE DEF others, DedupeSlots
  <2> QED
    BY <1>3, <1>4, <1>7
<1>9. PICK i \in DedupeSlots, j \in DedupeSlots : i # j /\ textIn[i] = textIn[j]
  <2> HIDE DEF others, DedupeSlots, textIn
  <2> QED
    BY <1>3, <1>4, <1>6, <1>8, FS_PigeonHole
<1> QED
  BY <1>9 DEF TextsApart

(* With no more texts about than EDGEZ_DELIVERY_DEDUPE_TABLE_SIZE, the      *)
(* retries and copies of one submission reach the phone once.               *)
THEOREM OncePerSend ==
  ASSUME IsFiniteSet(Texts), Cardinality(Texts) <= DedupeSize
  PROVE  Spec => []AtMostOncePerSend
<1>1. Init => TextsApart
  BY DEF Init, TextsApart, IsFresh, Known, Empty
<1>2. Spec => [](TypeOK /\ TextsApart)
  BY <1>1, InitTypeOK, NextTypeOK, NextTextsApart, PTL DEF Spec
<1>3. TypeOK /\ TextsApart => HasRoom
  BY RoomIsLeft
<1> QED
  BY <1>2, <1>3, DeliveredOnce, PTL
=============================================================================
