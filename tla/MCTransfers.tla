---------------------------- MODULE MCTransfers ----------------------------
(***************************************************************************)
(* What reliable_tx_task serves, for TLC: the transfers of the serving     *)
(* buffer, the memory a script fills for them, and a packet that the phone *)
(* submits again while its entry in the retry table is pending.  The       *)
(* modules share no variable; a behaviour runs the one of its turn.        *)
(***************************************************************************)
EXTENDS GlobalBuffer

CONSTANTS MaxSize, DefaultSize, MaxRuns, MaxCalls

ASSUME ScriptAssumption ==
  /\ MaxSize \in Nat /\ DefaultSize \in 0 .. MaxSize
  /\ MaxRuns \in Nat /\ MaxCalls \in Nat

VARIABLES turn, table, mobile, retrier, air, receiver, dedupe, deviceMode,
          sends, tx, acked, delivered,
          fills, serves, capacity, mem, filled, served, semaphore, free, task,
          lease, run, calls, since

Retries == INSTANCE ReliableDelivery WITH
  pending <- table, worker <- retrier, rx <- receiver,
  Messages <- {[id |-> "a", seq |-> 1, text |-> "x"]},
  TableSize <- 2, MaxAttempts <- 3, AckTimeouts <- {1, 2}, Slack <- 1,
  MaxDelay <- 1, DedupeSize <- 1, DedupeWindow <- 2, MaxSends <- 2

Script == INSTANCE ScriptBuffer WITH
  working <- fills, serving <- serves, length <- filled, Default <- DefaultSize

scriptVars == <<fills, serves, capacity, mem, filled, served, semaphore, free,
                task, lease, run, calls, since>>
retryVars == <<table, mobile, retrier, air, receiver, dedupe, deviceMode,
               sends, tx, acked, delivered>>

\* An empty sample, one chunk, exactly two chunks, two and a half.
Lengths == {0, 1, 4, 5}
Indexes == 0 .. 3

MCInit ==
  /\ turn \in {"buffer", "script", "retries"}
  /\ Init /\ Script!Init /\ Retries!Init

Turn(t) == turn = t /\ UNCHANGED turn

BufferTurn  == Turn("buffer") /\ Next /\ UNCHANGED <<scriptVars, retryVars>>
ScriptTurn  == Turn("script") /\ Script!Next /\ UNCHANGED <<vars, retryVars>>
RetriesTurn == Turn("retries") /\ Retries!Next /\ UNCHANGED <<vars, scriptVars>>

MCNext == BufferTurn \/ ScriptTurn \/ RetriesTurn

MCSpec == MCInit /\ [][MCNext]_<<turn, vars, scriptVars, retryVars>>

-----------------------------------------------------------------------------
(* What the modules state, each under the fairness of its own module. *)

SamplesAreClean == Script!SamplesAreClean

FairBufferMoves == turn = "buffer" /\ Fairness => BufferMoves
PendingResolves == turn = "retries" /\ Retries!Fairness => Retries!PendingResolves
=============================================================================
