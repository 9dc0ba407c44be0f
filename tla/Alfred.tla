-------------------------------- MODULE Alfred --------------------------------
(***************************************************************************)
(* What the device tells an OpenMANET server (openmanet_alfred.c).  A      *)
(* primary server of Alfred announces itself; the HaLow event task, which  *)
(* alone runs this code, answers with up to three records: the host, the   *)
(* node and, with a valid fix, the GPS.  A record is a push and the end of *)
(* its transaction, under one transaction number.                          *)
(*                                                                         *)
(* The clock is uint32_t milliseconds and the transaction number uint16_t; *)
(* both wrap, and the module keeps the widths as constants.                *)
(***************************************************************************)
EXTENDS Naturals, Sequences

CONSTANTS
  Primaries,
  Clock,      \* the clock is modulo this (2^32 ms)
  Minute,     \* PUBLISH_INTERVAL_MS, on that clock
  Numbers,    \* transaction numbers are modulo this (2^16)
  MaxTicks,   \* bound: time that passes
  MaxRecords  \* bound: records begun

VARIABLES
  now,        \* now_ms
  last,       \* s_last_publish_ms
  published,  \* s_has_published
  number,     \* s_transaction_id
  fix,        \* the GPS has a valid fix
  work,       \* records left to publish, and where the current one is
  partial,    \* per primary: pushes without the end of their transaction
  ticks,      \* history and bound: time passed
  since,      \* history: time passed since the last publication
  numbers     \* history and bound: transaction numbers in order of use

vars == <<now, last, published, number, fix, work, partial, ticks,
          since, numbers>>

NoPrimary == "none"
Rest == [to |-> NoPrimary, left |-> << >>, at |-> "rest", id |-> 0]
Records == <<"host", "node", "gps">>

-----------------------------------------------------------------------------

\* Mutant: a deadline, compared without regard to the wrap.
TooSoon_Deadline == published /\ now < last + Minute

\* The difference is modulo the width of the clock.
TooSoon == published /\ (now + Clock - last) % Clock < Minute

\* A valid announcement.  The time and the flag are set first: without a MAC
\* of its own publish_all gives up, and the minute is lost.
Announce(p, mac) ==
  /\ work = Rest
  /\ ~TooSoon
  /\ Len(numbers) + Len(Records) <= MaxRecords
  /\ last' = now /\ published' = TRUE /\ since' = 0
  /\ \E seed \in 0 .. Numbers - 1 : number' = IF number = 0 THEN seed ELSE number
  /\ work' = IF ~mac THEN Rest
             ELSE [to |-> p, left |-> IF fix THEN Records ELSE SubSeq(Records, 1, 2),
                   at |-> "push", id |-> 0]
  /\ UNCHANGED <<now, fix, partial, ticks, numbers>>

\* Mutant: zero is a number like the others.
NextNumber_Zero(n) == (n + 1) % Numbers

NextNumber(n) == IF (n + 1) % Numbers = 0 THEN 1 ELSE (n + 1) % Numbers

Following == IF Len(work.left) = 1 THEN Rest
             ELSE [work EXCEPT !.left = Tail(@), !.at = "push"]

\* publish_record: the push, then the end of the transaction, which a push
\* that BATMAN refused does not get.
Push(ok) ==
  /\ work.at = "push"
  /\ number' = NextNumber(number)
  /\ numbers' = Append(numbers, number')
  /\ work' = IF ok THEN [work EXCEPT !.at = "end", !.id = number'] ELSE Following
  /\ partial' = IF ~ok THEN partial ELSE
       [partial EXCEPT ![work.to] = @ \cup {[id |-> number', kind |-> Head(work.left)]}]
  /\ UNCHANGED <<now, last, published, fix, ticks, since>>

\* The primary stores what was pushed under the number that ends, and need
\* not keep it apart any more.
End(ok) ==
  /\ work.at = "end"
  /\ work' = Following
  /\ partial' = IF ~ok THEN partial ELSE
       [partial EXCEPT ![work.to] = {r \in @ : r.id # work.id}]
  /\ UNCHANGED <<now, last, published, number, fix, ticks, since, numbers>>

Publishing == \E ok \in BOOLEAN : Push(ok) \/ End(ok)

Tick ==
  /\ ticks < MaxTicks
  /\ ticks' = ticks + 1 /\ since' = since + 1
  /\ now' = (now + 1) % Clock
  /\ UNCHANGED <<last, published, number, fix, work, partial, numbers>>

FixChanges ==
  /\ fix' = ~fix
  /\ UNCHANGED <<now, last, published, number, work, partial, ticks,
                 since, numbers>>

Init ==
  /\ now \in 0 .. Clock - 1
  /\ last = 0 /\ published = FALSE /\ number = 0 /\ fix = FALSE
  /\ work = Rest
  /\ partial = [p \in Primaries |-> {}]
  /\ ticks = 0 /\ since = 0 /\ numbers = << >>

Next ==
  \/ \E p \in Primaries, mac \in BOOLEAN : Announce(p, mac)
  \/ Publishing \/ Tick \/ FixChanges

Spec == Init /\ [][Next]_vars

-----------------------------------------------------------------------------
(* Properties *)

\* Two publications are at least a minute apart when the clock wraps between
\* them, too; and an announcement that comes later is answered, as long as
\* the clock has not come round to the minute after the last publication.
Spaced ==
  /\ published /\ since < Minute => TooSoon
  /\ published /\ Minute <= since /\ since < Clock => ~TooSoon

\* No transaction number is zero, and none comes back before all the others
\* were used: a server that holds the push of a lost transaction cannot mix
\* it with another record meanwhile.
FreshNumbers ==
  /\ \A i \in DOMAIN numbers : numbers[i] # 0
  /\ \A i, j \in DOMAIN numbers :
       i < j /\ j - i < Numbers - 1 => numbers[i] # numbers[j]

\* Both counters keep their meaning when they wrap.
WrapsAreHarmless == Spaced /\ FreshNumbers
=============================================================================
