-------------------------- MODULE Services_proofs --------------------------
(***************************************************************************)
(* The services around the mesh: a request to the radio that is answered   *)
(* with success found it running what it asked for, nobody draws on the    *)
(* LED's pin while a UART has it, a sampling run leaves no interface open, *)
(* and a BLE link is given nothing of the link before it; for any number   *)
(* of phones, profiles and links.                                          *)
(***************************************************************************)
EXTENDS MCServices, TLAPS

-----------------------------------------------------------------------------
(* The life of the radio (RadioLifecycle) *)

Profiled == [country : Parts, mesh : Parts]
Jobs == [at : Stages, by : {"init", "settings"}, want : Parts, cfg : Profiled, same : BOOLEAN]
Tasks == Starters \cup {Power}

(* The stages between taking s_lifecycle_mutex and giving it back.         *)
Held == {"compare", "bring", "mark", "ok", "failed", "halt", "clear"}

(* Only the holder of the mutex is in such a stage, and only the power     *)
(* task is in its own.                                                     *)
HolderOnly ==
  /\ \A t \in Tasks : job[t].at \in Held => lock = t
  /\ \A t \in Starters : job[t].at \notin {"halt", "clear"}
  /\ job[Power].at \in {"idle", "lock", "halt", "clear"}

(* A radio that is up runs the profile given last, unless it refused one   *)
(* or is being brought up with a new one.                                  *)
RunsStored ==
  started /\ ~broken /\ (\A t \in Starters : ~At(t, "bring")) => running = stored

(* What a starter that holds the mutex stored is what it put together, and *)
(* from the bring-up on the radio is started.                              *)
StoredIsMine ==
  \A t \in Starters :
    /\ job[t].at \in {"bring", "mark", "ok"} => stored = job[t].cfg
    /\ job[t].at \in {"mark", "ok"} => started

(* A radio marked as ready is started, but for the end of a shutdown.      *)
ReadyUntilCleared == ready /\ ~At(Power, "clear") => started

(* A request that none overlapped put together what it asked for.          *)
AloneIsTrue ==
  \A t \in Starters : ~At(t, "idle") /\ t \notin crossed =>
    /\ Others(t) = {}
    /\ job[t].at = "early" => job[t].by = "init"
    /\ job[t].at \in {"adopt", "gather"} /\ job[t].by = "init" => country = job[t].want
    /\ job[t].at = "gather" => mesh = job[t].want
    /\ job[t].at \notin {"early", "adopt", "gather"} =>
         /\ job[t].cfg.mesh = job[t].want
         /\ job[t].by = "init" => job[t].cfg.country = job[t].want

RadioInv ==
  /\ TypeOK /\ HolderOnly /\ RunsStored /\ StoredIsMine /\ ReadyUntilCleared
  /\ AloneIsTrue

-----------------------------------------------------------------------------
(* Types                                                                   *)

LEMMA TasksApart ==
  /\ Power \notin Starters /\ Starters \subseteq Tasks /\ Power \in Tasks
  /\ None \notin Tasks /\ Idle \in Jobs
BY RadioAssumption
   DEF Starters, Tasks, Idle, Jobs, Stages, Parts, Profiled, NoProfile, Profile

LEMMA JobsTyped ==
  ASSUME TypeOK
  PROVE  job \in [Tasks -> Jobs] /\ stored \in Profiled /\ running \in Profiled
BY DEF TypeOK, Tasks, Jobs, Profiled

LEMMA InitTyped == Init => TypeOK
<1> SUFFICES ASSUME Init
             PROVE  TypeOK
  OBVIOUS
<1>1. \A p \in Profiles : AutoStart(p) \in Jobs
  BY TasksApart DEF AutoStart, Idle, Jobs, Stages, Parts, Profiled
<1>2. job \in [Tasks -> Jobs]
  BY <1>1, TasksApart DEF Init, Tasks
<1>3. NoProfile \in Profiled
  BY DEF NoProfile, Profile, Profiled, Parts
<1>4. stored \in Profiled /\ running \in Profiled /\ mesh \in Parts
  BY <1>3 DEF Init, Parts
<1> QED
  BY <1>2, <1>4 DEF Init, TypeOK, Tasks, Jobs, Profiled

(* A step of a task gives that task a job and leaves the others alone.     *)
LEMMA Job_Types ==
  ASSUME TypeOK, NEW t \in Tasks, NEW j \in Jobs, job' = [job EXCEPT ![t] = j]
  PROVE  /\ job' \in [Tasks -> Jobs] /\ job'[t] = j
         /\ \A u \in Tasks \ {t} : job'[u] = job[u]
BY JobsTyped

LEMMA Goes_Types ==
  ASSUME TypeOK, NEW t \in Tasks, NEW s \in Stages, Goes(t, s)
  PROVE  /\ job' \in [Tasks -> Jobs] /\ job'[t] = [job[t] EXCEPT !.at = s]
         /\ job'[t].at = s /\ job'[t].want = job[t].want
         /\ job'[t].by = job[t].by /\ job'[t].cfg = job[t].cfg
         /\ \A u \in Tasks \ {t} : job'[u] = job[u]
<1>1. job' = [job EXCEPT ![t] = [job[t] EXCEPT !.at = s]]
  BY DEF Goes
<1>2. job[t] \in Jobs
  BY JobsTyped
<1>3. [job[t] EXCEPT !.at = s] \in Jobs
  BY <1>2 DEF Jobs
<1>4. /\ job' \in [Tasks -> Jobs] /\ job'[t] = [job[t] EXCEPT !.at = s]
      /\ \A u \in Tasks \ {t} : job'[u] = job[u]
  BY <1>1, <1>3, Job_Types
<1> QED
  BY <1>2, <1>4 DEF Jobs

LEMMA Gather_Types ==
  ASSUME TypeOK, NEW t \in Starters, Gather(t)
  PROVE  /\ job' \in [Tasks -> Jobs]
         /\ job'[t] = [job[t] EXCEPT !.at = "lock", !.cfg = Profile(country, mesh)]
         /\ \A u \in Tasks \ {t} : job'[u] = job[u]
<1>1. job' = [job EXCEPT ![t] = [job[t] EXCEPT !.at = "lock", !.cfg = Profile(country, mesh)]]
  BY DEF Gather
<1>2. job[t] \in Jobs /\ t \in Tasks
  BY JobsTyped, TasksApart
<1>3. [job[t] EXCEPT !.at = "lock", !.cfg = Profile(country, mesh)] \in Jobs
  BY <1>2 DEF Jobs, Stages, Profiled, Profile, TypeOK
<1> QED
  BY <1>1, <1>2, <1>3, Job_Types

LEMMA Refresh_Types ==
  ASSUME TypeOK, NEW t \in Starters, Refresh(t)
  PROVE  /\ job' \in [Tasks -> Jobs]
         /\ job'[t] = [job[t] EXCEPT !.at = "ok", !.same = TRUE]
         /\ \A u \in Tasks \ {t} : job'[u] = job[u]
<1>1. job' = [job EXCEPT ![t] = [job[t] EXCEPT !.at = "ok", !.same = TRUE]]
  BY DEF Refresh
<1>2. job[t] \in Jobs /\ t \in Tasks
  BY JobsTyped, TasksApart
<1>3. [job[t] EXCEPT !.at = "ok", !.same = TRUE] \in Jobs
  BY <1>2 DEF Jobs, Stages
<1> QED
  BY <1>1, <1>2, <1>3, Job_Types

LEMMA NextTyped == TypeOK /\ [Next]_vars => TypeOK'
<1> SUFFICES ASSUME TypeOK, [Next]_vars
             PROVE  TypeOK'
  OBVIOUS
<1> USE TasksApart
<1>1. TypeOK' <=> /\ country' \in Parts /\ mesh' \in Parts
                  /\ stored' \in Profiled /\ running' \in Profiled
                  /\ started' \in BOOLEAN /\ ready' \in BOOLEAN /\ broken' \in BOOLEAN
                  /\ lock' \in Starters \cup {Power, None}
                  /\ crossed' \subseteq Starters
                  /\ job' \in [Tasks -> Jobs]
  BY DEF TypeOK, Tasks, Jobs, Profiled
<1>2. \A t : Others(t) \subseteq Starters
  BY DEF Others
<1>3. ASSUME NEW p \in Profiles, NEW t \in Phones, Ask(t, p)
      PROVE  TypeOK'
  <2>1. [Idle EXCEPT !.at = "early", !.want = p] \in Jobs /\ t \in Tasks /\ t \in Starters
    BY DEF Jobs, Idle, Stages, Parts, Starters
  <2> QED
    BY <1>1, <1>2, <1>3, <2>1, Job_Types, JobsTyped DEF Ask, TypeOK, radioVars, provVars
<1>4. ASSUME NEW p \in Profiles, NEW t \in Phones, ChangeSettings(t, p)
      PROVE  TypeOK'
  <2>1. AutoStart(p) \in Jobs /\ t \in Tasks /\ t \in Starters
    BY DEF Jobs, Idle, Stages, Parts, Starters, AutoStart
  <2> QED
    BY <1>1, <1>2, <1>4, <2>1, Job_Types, JobsTyped DEF ChangeSettings, TypeOK, radioVars, provVars
<1>5. ASSUME NEW t \in Starters, Puts(t)
      PROVE  TypeOK'
  <2>1. job[t] \in Jobs /\ job[t].want \in Parts /\ t \in Tasks
    BY JobsTyped DEF Jobs
  <2>2. CASE SetEarly(t)
    BY <1>1, <2>1, <2>2, Goes_Types, JobsTyped
       DEF SetEarly, Stages, TypeOK, radioVars, history
  <2>3. CASE Refuse(t)
    BY <1>1, <2>1, <2>3, Job_Types, JobsTyped DEF Refuse, TypeOK, radioVars, provVars
  <2>4. CASE Adopt(t)
    <3>1. CASE country = None
      BY <1>1, <2>1, <2>4, <3>1, Job_Types, JobsTyped DEF Adopt, TypeOK, radioVars
    <3>2. CASE country # None
      BY <1>1, <2>1, <2>4, <3>2, Goes_Types, JobsTyped DEF Adopt, Stages, TypeOK, radioVars
    <3> QED
      BY <3>1, <3>2
  <2>5. CASE Gather(t)
    BY <1>1, <2>5, Gather_Types, JobsTyped DEF Gather, TypeOK, radioVars, provVars, history
  <2> QED
    BY <1>5, <2>2, <2>3, <2>4, <2>5 DEF Puts
<1>6. ASSUME NEW t \in Starters, Starts(t)
      PROVE  TypeOK'
  <2>1. job[t] \in Jobs /\ job[t].cfg \in Profiled /\ t \in Tasks
    BY JobsTyped DEF Jobs
  <2>2. CASE Lock(t)
    BY <1>1, <2>1, <2>2, Goes_Types, JobsTyped
       DEF Lock, Take, Stages, TypeOK, radioVars, provVars, history
  <2>3. CASE Refresh(t)
    BY <1>1, <2>3, Refresh_Types, JobsTyped DEF Refresh, TypeOK, provVars, history
  <2>4. CASE Store(t)
    <3>1. \E s \in {"bring", "failed"} : Goes(t, s)
      BY <2>4 DEF Store
    <3> QED
      BY <1>1, <2>1, <2>4, <3>1, Goes_Types, JobsTyped DEF Store, Stages, TypeOK, provVars
  <2>5. CASE BringUp(t)
    BY <1>1, <2>1, <2>5, Goes_Types, JobsTyped DEF BringUp, Stages, TypeOK, provVars
  <2>6. CASE BringFails(t)
    BY <1>1, <2>1, <2>6, Goes_Types, JobsTyped
       DEF BringFails, Stages, TypeOK, provVars, Idle, Jobs
  <2>7. CASE MarkReady(t)
    BY <1>1, <2>1, <2>7, Goes_Types, JobsTyped DEF MarkReady, Stages, TypeOK, provVars, history
  <2>8. CASE Give(t)
    BY <1>1, <2>1, <2>8, Job_Types, JobsTyped DEF Give, TypeOK, provVars, radioVars
  <2> QED
    BY <1>6, <2>2, <2>3, <2>4, <2>5, <2>6, <2>7, <2>8 DEF Starts
<1>7. CASE AskHalt
  BY <1>1, <1>2, <1>7, Goes_Types, JobsTyped DEF AskHalt, Stages, TypeOK, radioVars, provVars
<1>8. CASE LockHalt
  BY <1>1, <1>8, Goes_Types, JobsTyped
     DEF LockHalt, Take, Stages, TypeOK, radioVars, provVars, history
<1>9. CASE Halt
  BY <1>1, <1>9, Goes_Types, JobsTyped DEF Halt, Stages, TypeOK, provVars, history, Idle, Jobs
<1>10. CASE ClearReady
  BY <1>1, <1>10, Goes_Types, JobsTyped DEF ClearReady, Stages, TypeOK, provVars, history
<1>11. CASE UNCHANGED vars
  BY <1>1, <1>11, JobsTyped DEF vars, radioVars, provVars, history, TypeOK
<1> QED
  BY <1>3, <1>4, <1>5, <1>6, <1>7, <1>8, <1>9, <1>10, <1>11 DEF Next, Stops

(* Profiles, stages and the mutex keep their types (halow_interface_app.cpp, *)
(* prov.c).                                                                *)
THEOREM TypeCorrect == Spec => []TypeOK
BY InitTyped, NextTyped, PTL DEF Spec

-----------------------------------------------------------------------------
(* The mutex and the radio                                                 *)

Radio == HolderOnly /\ RunsStored /\ StoredIsMine /\ ReadyUntilCleared

(* A starter that goes on outside the mutex.                               *)
LEMMA OutsideKept ==
  ASSUME TypeOK, Radio, NEW t \in Starters, UNCHANGED <<radioVars, lock, broken>>,
         job[t].at \notin Held, job'[t].at \notin Held,
         \A u \in Tasks \ {t} : job'[u] = job[u]
  PROVE  Radio'
<1> USE TasksApart
<1>1. UNCHANGED <<stored, running, started, ready, lock, broken>> /\ t # Power
  BY DEF radioVars
<1>2. HolderOnly'
  BY <1>1 DEF Radio, HolderOnly, Held
<1>3. RunsStored'
  BY <1>1 DEF Radio, RunsStored, At, Held
<1>4. StoredIsMine'
  BY <1>1 DEF Radio, StoredIsMine, Held
<1>5. ReadyUntilCleared'
  BY <1>1 DEF Radio, ReadyUntilCleared, At
<1> QED
  BY <1>2, <1>3, <1>4, <1>5 DEF Radio

(* A starter that goes on while it holds the mutex, or takes or returns it. *)
LEMMA HolderKept ==
  ASSUME TypeOK, HolderOnly, NEW t \in Starters, job[t].at \in Held \/ lock = None,
         \A u \in Tasks \ {t} : job'[u] = job[u],
         job'[t].at \notin {"halt", "clear"},
         job'[t].at \in Held => lock' = t
  PROVE  /\ HolderOnly'
         /\ \A u \in Tasks \ {t} : job'[u].at \notin Held
         /\ job'[Power] = job[Power] /\ ~At(Power, "clear") /\ t # Power
<1> USE TasksApart
<1>1. \A u \in Tasks \ {t} : job[u].at \notin Held
  BY DEF HolderOnly
<1>2. job'[Power] = job[Power] /\ t # Power
  OBVIOUS
<1>3. HolderOnly'
  BY <1>1, <1>2 DEF HolderOnly
<1> QED
  BY <1>1, <1>2, <1>3 DEF Held, At

LEMMA PutsRadio ==
  ASSUME TypeOK, Radio, NEW t \in Starters, Puts(t)
  PROVE  Radio'
<1>1. job[t] \in Jobs /\ t \in Tasks /\ Idle \in Jobs
  BY TasksApart, JobsTyped
<1>2. UNCHANGED <<radioVars, lock, broken>> /\ job[t].at \notin Held
  BY <1>1 DEF Puts, SetEarly, Refuse, Adopt, Gather, At, Held, history
<1>3. Idle.at = "idle"
  BY DEF Idle
<1>4. /\ job'[t].at \in {"adopt", "idle", "gather", "lock"}
      /\ \A u \in Tasks \ {t} : job'[u] = job[u]
  <2>1. CASE SetEarly(t)
    BY <1>1, <2>1, Goes_Types DEF SetEarly, Stages
  <2>2. CASE Refuse(t)
    BY <1>1, <1>3, <2>2, Job_Types DEF Refuse
  <2>3. CASE Adopt(t) /\ country = None
    BY <1>1, <1>3, <2>3, Job_Types DEF Adopt
  <2>4. CASE Adopt(t) /\ country # None
    BY <1>1, <2>4, Goes_Types DEF Adopt, Stages
  <2>5. CASE Gather(t)
    <3>1. job'[t] = [job[t] EXCEPT !.at = "lock", !.cfg = Profile(country, mesh)]
      BY <2>5, Gather_Types
    <3>2. job'[t].at = "lock"
      BY <1>1, <3>1 DEF Jobs
    <3> QED
      BY <2>5, <3>2, Gather_Types
  <2> QED
    BY <2>1, <2>2, <2>3, <2>4, <2>5 DEF Puts
<1> QED
  BY <1>2, <1>4, OutsideKept DEF Held

LEMMA StartsRadio ==
  ASSUME TypeOK, Radio, NEW t \in Starters, Starts(t)
  PROVE  Radio'
<1> USE TasksApart
<1>1. job[t] \in Jobs /\ t \in Tasks
  BY JobsTyped
<1>2. CASE Lock(t)
  <2>1. /\ job'[t] = [job[t] EXCEPT !.at = "compare"] /\ lock = None /\ lock' = t
        /\ \A u \in Tasks \ {t} : job'[u] = job[u]
        /\ UNCHANGED <<stored, running, started, ready, broken>>
    BY <1>1, <1>2, Goes_Types DEF Lock, Take, Stages, radioVars, history
  <2>2. job'[t].at = "compare" /\ job[t].at = "lock"
    BY <1>1, <1>2, <2>1 DEF Jobs, Lock, At
  <2>3. HolderOnly' /\ ~At(Power, "clear") /\ job'[Power] = job[Power]
    BY <2>1, <2>2, HolderKept DEF Radio, Held
  <2>4. RunsStored'
    BY <2>1, <2>2 DEF Radio, RunsStored, At
  <2>5. StoredIsMine'
    BY <2>1, <2>2 DEF Radio, StoredIsMine
  <2>6. ReadyUntilCleared'
    BY <2>1, <2>3 DEF Radio, ReadyUntilCleared, At
  <2> QED
    BY <2>3, <2>4, <2>5, <2>6 DEF Radio
<1>3. CASE Refresh(t)
  <2>1. /\ job'[t] = [job[t] EXCEPT !.at = "ok", !.same = TRUE]
        /\ \A u \in Tasks \ {t} : job'[u] = job[u]
        /\ job[t].at = "compare" /\ started /\ stored = job[t].cfg /\ ready'
        /\ UNCHANGED <<stored, running, started, lock, broken>>
    BY <1>3, Refresh_Types DEF Refresh, Same, At, history
  <2>2. job'[t].at = "ok" /\ job'[t].cfg = job[t].cfg
    BY <1>1, <2>1 DEF Jobs
  <2>3. HolderOnly'
    BY <2>1, <2>2, HolderKept DEF Radio, Held, HolderOnly
  <2>4. RunsStored'
    BY <2>1, <2>2 DEF Radio, RunsStored, At
  <2>5. StoredIsMine'
    BY <2>1, <2>2 DEF Radio, StoredIsMine
  <2>6. ReadyUntilCleared'
    BY <2>1 DEF ReadyUntilCleared
  <2> QED
    BY <2>3, <2>4, <2>5, <2>6 DEF Radio
<1>4. CASE Store(t)
  <2>1. PICK s \in {"bring", "failed"} : Goes(t, s) /\ (s = "bring" \/ broken')
    BY <1>4 DEF Store
  <2>2. /\ job'[t] = [job[t] EXCEPT !.at = s]
        /\ \A u \in Tasks \ {t} : job'[u] = job[u]
        /\ job[t].at = "compare" /\ stored' = job[t].cfg
        /\ UNCHANGED <<running, started, ready, lock>>
    BY <1>1, <1>4, <2>1, Goes_Types DEF Store, Stages, At
  <2>3. job'[t].at = s /\ job'[t].cfg = job[t].cfg
    BY <1>1, <2>2 DEF Jobs
  <2>4. /\ HolderOnly' /\ \A u \in Tasks \ {t} : job'[u].at \notin Held
        /\ job'[Power] = job[Power]
    BY <2>1, <2>2, <2>3, HolderKept DEF Radio, Held, HolderOnly
  <2>5. RunsStored'
    BY <2>1, <2>3 DEF RunsStored, At
  <2>6. StoredIsMine'
    BY <2>1, <2>2, <2>3, <2>4 DEF StoredIsMine, Held
  <2>7. ReadyUntilCleared'
    BY <2>2, <2>4 DEF Radio, ReadyUntilCleared, At
  <2> QED
    BY <2>4, <2>5, <2>6, <2>7 DEF Radio
<1>5. CASE BringUp(t)
  <2>1. /\ job'[t] = [job[t] EXCEPT !.at = "mark"]
        /\ \A u \in Tasks \ {t} : job'[u] = job[u]
        /\ job[t].at = "bring" /\ running' = stored /\ started'
        /\ UNCHANGED <<stored, ready, lock>>
    BY <1>1, <1>5, Goes_Types DEF BringUp, Stages, At
  <2>2. job'[t].at = "mark" /\ job'[t].cfg = job[t].cfg
    BY <1>1, <2>1 DEF Jobs
  <2>3. HolderOnly' /\ \A u \in Tasks \ {t} : job'[u].at \notin Held
    BY <2>1, <2>2, HolderKept DEF Radio, Held, HolderOnly
  <2>4. RunsStored'
    BY <2>1 DEF RunsStored
  <2>5. StoredIsMine'
    BY <2>1, <2>2, <2>3 DEF Radio, StoredIsMine, Held
  <2>6. ReadyUntilCleared'
    BY <2>1 DEF ReadyUntilCleared
  <2> QED
    BY <2>3, <2>4, <2>5, <2>6 DEF Radio
<1>6. CASE BringFails(t)
  <2>1. /\ job'[t] = [job[t] EXCEPT !.at = "failed"]
        /\ \A u \in Tasks \ {t} : job'[u] = job[u]
        /\ job[t].at = "bring" /\ ~ready' /\ broken'
        /\ UNCHANGED <<stored, started, lock>>
    BY <1>1, <1>6, Goes_Types DEF BringFails, Stages, At
  <2>2. job'[t].at = "failed"
    BY <1>1, <2>1 DEF Jobs
  <2>3. HolderOnly' /\ \A u \in Tasks \ {t} : job'[u].at \notin Held
    BY <2>1, <2>2, HolderKept DEF Radio, Held, HolderOnly
  <2>4. RunsStored' /\ ReadyUntilCleared'
    BY <2>1 DEF RunsStored, ReadyUntilCleared
  <2>5. StoredIsMine'
    BY <2>1, <2>2, <2>3 DEF Radio, StoredIsMine, Held
  <2> QED
    BY <2>3, <2>4, <2>5 DEF Radio
<1>7. CASE MarkReady(t)
  <2>1. /\ job'[t] = [job[t] EXCEPT !.at = "ok"]
        /\ \A u \in Tasks \ {t} : job'[u] = job[u]
        /\ job[t].at = "mark"
        /\ UNCHANGED <<stored, running, started, lock, broken>>
    BY <1>1, <1>7, Goes_Types DEF MarkReady, Stages, At, history
  <2>2. job'[t].at = "ok" /\ job'[t].cfg = job[t].cfg
    BY <1>1, <2>1 DEF Jobs
  <2>3. HolderOnly' /\ started'
    BY <2>1, <2>2, HolderKept DEF Radio, Held, HolderOnly, StoredIsMine
  <2>4. RunsStored'
    BY <2>1, <2>2 DEF Radio, RunsStored, At
  <2>5. StoredIsMine'
    BY <2>1, <2>2 DEF Radio, StoredIsMine
  <2>6. ReadyUntilCleared'
    BY <2>3 DEF ReadyUntilCleared
  <2> QED
    BY <2>3, <2>4, <2>5, <2>6 DEF Radio
<1>8. CASE Give(t)
  <2>1. /\ job'[t] = Idle
        /\ \A u \in Tasks \ {t} : job'[u] = job[u]
        /\ job[t].at \in {"ok", "failed"}
        /\ UNCHANGED <<stored, running, started, ready, broken>>
    BY <1>1, <1>8, Job_Types DEF Give, radioVars
  <2>2. job'[t].at = "idle"
    BY <2>1 DEF Idle
  <2>3. HolderOnly' /\ job'[Power] = job[Power]
    BY <2>1, <2>2, HolderKept DEF Radio, Held, HolderOnly
  <2>4. RunsStored'
    BY <2>1, <2>2 DEF Radio, RunsStored, At
  <2>5. StoredIsMine'
    BY <2>1, <2>2 DEF Radio, StoredIsMine
  <2>6. ReadyUntilCleared'
    BY <2>1, <2>3 DEF Radio, ReadyUntilCleared, At
  <2> QED
    BY <2>3, <2>4, <2>5, <2>6 DEF Radio
<1> QED
  BY <1>2, <1>3, <1>4, <1>5, <1>6, <1>7, <1>8 DEF Starts

LEMMA StopsRadio ==
  ASSUME TypeOK, Radio, AskHalt \/ Stops
  PROVE  Radio'
<1> USE TasksApart
<1>1. job[Power] \in Jobs /\ Power \in Tasks
  BY JobsTyped
<1>2. CASE AskHalt
  <2>1. /\ job'[Power].at = "lock" /\ \A u \in Starters : job'[u] = job[u]
        /\ UNCHANGED <<stored, running, started, ready, lock, broken>>
        /\ job[Power].at = "idle"
    BY <1>1, <1>2, Goes_Types DEF AskHalt, Stages, radioVars, At
  <2> QED
    BY <2>1 DEF Radio, HolderOnly, RunsStored, StoredIsMine, ReadyUntilCleared, At, Tasks, Held
<1>3. CASE LockHalt
  <2>1. /\ job'[Power].at = "halt" /\ \A u \in Starters : job'[u] = job[u]
        /\ UNCHANGED <<stored, running, started, ready, broken>>
        /\ job[Power].at = "lock" /\ lock = None /\ lock' = Power
    BY <1>1, <1>3, Goes_Types DEF LockHalt, Take, Stages, radioVars, history, At
  <2>2. \A u \in Starters : job[u].at \notin Held
    BY <2>1 DEF Radio, HolderOnly
  <2> QED
    BY <2>1, <2>2 DEF Radio, HolderOnly, RunsStored, StoredIsMine, ReadyUntilCleared, At, Tasks, Held
<1>4. CASE Halt
  <2>1. /\ job'[Power].at = "clear" /\ \A u \in Starters : job'[u] = job[u]
        /\ UNCHANGED <<stored, ready, lock, broken>> /\ ~started'
        /\ job[Power].at = "halt"
    BY <1>1, <1>4, Goes_Types DEF Halt, Stages, history, At
  <2>2. \A u \in Starters : job[u].at \notin Held
    BY <2>1 DEF Radio, HolderOnly, Held
  <2> QED
    BY <2>1, <2>2 DEF Radio, HolderOnly, RunsStored, StoredIsMine, ReadyUntilCleared, At, Tasks, Held
<1>5. CASE ClearReady
  <2>1. /\ job'[Power].at = "idle" /\ \A u \in Starters : job'[u] = job[u]
        /\ UNCHANGED <<stored, running, started, broken>> /\ ~ready'
        /\ job[Power].at = "clear"
    BY <1>1, <1>5, Goes_Types DEF ClearReady, Stages, history, At
  <2>2. \A u \in Starters : job[u].at \notin Held
    BY <2>1 DEF Radio, HolderOnly, Held
  <2> QED
    BY <2>1, <2>2 DEF Radio, HolderOnly, RunsStored, StoredIsMine, ReadyUntilCleared, At, Tasks, Held
<1> QED
  BY <1>2, <1>3, <1>4, <1>5 DEF Stops

(* A request that begins.                                                  *)
LEMMA BeginTypes ==
  ASSUME TypeOK, NEW p \in Profiles, NEW t \in Phones, Ask(t, p) \/ ChangeSettings(t, p)
  PROVE  \E j \in Jobs : 
           /\ j.want = p /\ job[t].at = "idle"
           /\ \/ j.at = "early" /\ j.by = "init"
              \/ j.at = "adopt" /\ j.by = "settings"
           /\ job'[t] = j /\ \A u \in Tasks \ {t} : job'[u] = job[u]
<1>1. t \in Tasks
  BY DEF Tasks, Starters
<1>2. CASE Ask(t, p)
  <2> DEFINE j == [Idle EXCEPT !.at = "early", !.want = p]
  <2>1. j \in Jobs /\ j.want = p /\ j.at = "early" /\ j.by = "init"
    BY TasksApart DEF Jobs, Idle, Stages, Parts
  <2>2. job' = [job EXCEPT ![t] = j] /\ job[t].at = "idle"
    BY <1>2 DEF Ask, At
  <2> QED
    BY <1>1, <2>1, <2>2, Job_Types
<1>3. CASE ChangeSettings(t, p)
  <2> DEFINE j == AutoStart(p)
  <2>1. j \in Jobs /\ j.want = p /\ j.at = "adopt" /\ j.by = "settings"
    BY TasksApart DEF Jobs, Idle, Stages, Parts, AutoStart
  <2>2. job' = [job EXCEPT ![t] = j] /\ job[t].at = "idle"
    BY <1>3 DEF ChangeSettings, At
  <2> QED
    BY <1>1, <2>1, <2>2, Job_Types
<1> QED
  BY <1>2, <1>3

LEMMA NextRadio == TypeOK /\ Radio /\ [Next]_vars => Radio'
<1> SUFFICES ASSUME TypeOK, Radio, [Next]_vars
             PROVE  Radio'
  OBVIOUS
<1>1. ASSUME NEW p \in Profiles, NEW t \in Phones, Ask(t, p) \/ ChangeSettings(t, p)
      PROVE  Radio'
  <2>1. UNCHANGED <<radioVars, lock, broken>> /\ t \in Starters
    BY <1>1 DEF Ask, ChangeSettings, Starters
  <2>2. /\ job[t].at = "idle" /\ job'[t].at \in {"early", "adopt"}
        /\ \A u \in Tasks \ {t} : job'[u] = job[u]
    BY <1>1, BeginTypes
  <2> QED
    BY <2>1, <2>2, OutsideKept DEF Held
<1>2. CASE UNCHANGED vars
  BY <1>2 DEF vars, radioVars, history, Radio, HolderOnly, RunsStored, StoredIsMine,
              ReadyUntilCleared, At
<1> QED
  BY <1>1, <1>2, PutsRadio, StartsRadio, StopsRadio DEF Next

LEMMA InitJobs ==
  ASSUME Init
  PROVE  /\ \A t \in Tasks \ {Boot} : job[t].at = "idle"
         /\ \/ job[Boot].at = "idle"
            \/ job[Boot].at = "adopt" /\ job[Boot].by = "settings"
<1>1. PICK b \in {Idle} \cup {AutoStart(p) : p \in Profiles} :
        job = [t \in Tasks |-> IF t = Boot THEN b ELSE Idle]
  BY DEF Init, Tasks
<1>2. Idle.at = "idle" /\ Boot \in Tasks
  BY DEF Idle, Tasks, Starters
<1>3. \A p \in Profiles : AutoStart(p).at = "adopt" /\ AutoStart(p).by = "settings"
  BY DEF AutoStart, Idle
<1> QED
  BY <1>1, <1>2, <1>3

LEMMA InitRadio == Init => Radio
<1> SUFFICES ASSUME Init
             PROVE  Radio
  OBVIOUS
<1>1. /\ \A t \in Tasks : job[t].at \in {"idle", "adopt"}
      /\ job[Power].at = "idle"
  BY InitJobs, TasksApart, RadioAssumption
<1> QED
  BY <1>1, TasksApart
     DEF Init, Radio, HolderOnly, RunsStored, StoredIsMine, ReadyUntilCleared, At, Held

(* While nobody holds the mutex, a radio marked as ready is started        *)
(* (halow_interface_app_start, halow_interface_app_shutdown).              *)
THEOREM ReadyOnlyStarted == Spec => []ReadyIsStarted
<1>1. Init => Radio
  BY InitRadio
<1>2. TypeOK /\ Radio => ReadyIsStarted
  <2> SUFFICES ASSUME TypeOK, Radio, lock = None, ready
               PROVE  started
    BY DEF ReadyIsStarted
  <2>1. job[Power].at \notin Held
    BY TasksApart DEF Radio, HolderOnly
  <2> QED
    BY <2>1 DEF Radio, ReadyUntilCleared, At, Held
<1> QED
  BY <1>1, <1>2, InitTyped, NextTyped, NextRadio, PTL DEF Spec

-----------------------------------------------------------------------------
(* The profile of a request that was alone                                 *)

AloneTells(t) ==
  /\ job[t].at = "early" => job[t].by = "init"
  /\ job[t].at \in {"adopt", "gather"} /\ job[t].by = "init" => country = job[t].want
  /\ job[t].at = "gather" => mesh = job[t].want
  /\ job[t].at \notin {"early", "adopt", "gather"} =>
       /\ job[t].cfg.mesh = job[t].want
       /\ job[t].by = "init" => job[t].cfg.country = job[t].want

LEMMA AloneSplit ==
  AloneIsTrue <=>
    \A t \in Starters : job[t].at # "idle" /\ t \notin crossed =>
      /\ \A u \in Starters \ {t} : job[u].at = "idle"
      /\ AloneTells(t)
BY DEF AloneIsTrue, AloneTells, Others, At

(* A task that goes on or ends leaves those alone that were.               *)
LEMMA AloneKept ==
  ASSUME AloneIsTrue, NEW t \in Starters, job[t].at # "idle",
         \A u \in Tasks \ {t} : job'[u] = job[u],
         crossed' = crossed \/ (crossed' = crossed \ {t} /\ job'[t].at = "idle"),
         job'[t].at # "idle" /\ t \notin crossed => AloneTells(t)'
  PROVE  AloneIsTrue'
<1>1. ASSUME NEW u \in Starters \ {t}, job'[u].at # "idle"
      PROVE  u \in crossed'
  <2>1. job[u].at # "idle"
    BY <1>1, TasksApart
  <2> QED
    BY <2>1, AloneSplit
<1>2. ASSUME job'[t].at # "idle", t \notin crossed'
      PROVE  \A u \in Starters \ {t} : job'[u].at = "idle"
  BY <1>2, AloneSplit, TasksApart
<1>3. \A u \in Starters : job'[u].at # "idle" /\ u \notin crossed' =>
        /\ \A v \in Starters \ {u} : job'[v].at = "idle"
        /\ AloneTells(u)'
  BY <1>1, <1>2
<1> QED
  BY <1>3 DEF AloneIsTrue, AloneTells, Others, At

LEMMA BeginAlone ==
  ASSUME TypeOK, AloneIsTrue, NEW p \in Profiles, NEW t \in Phones,
         Ask(t, p) \/ ChangeSettings(t, p)
  PROVE  AloneIsTrue'
<1>1. PICK j \in Jobs :
        /\ j.want = p /\ job[t].at = "idle"
        /\ \/ j.at = "early" /\ j.by = "init"
           \/ j.at = "adopt" /\ j.by = "settings"
        /\ job'[t] = j /\ \A u \in Tasks \ {t} : job'[u] = job[u]
  BY BeginTypes
<1>2. t \in Starters /\ Starters \subseteq Tasks
  BY TasksApart DEF Starters
<1>3. crossed' = IF Others(t) # {} THEN crossed \cup {t} \cup Others(t) ELSE crossed
  BY DEF Ask, ChangeSettings
<1>4. ASSUME NEW u \in Starters \ {t}, job'[u].at # "idle"
      PROVE  u \in crossed'
  <2>1. u \in Others(t)
    BY <1>1, <1>2, <1>4 DEF Others, At
  <2> QED
    BY <1>3, <2>1
<1>5. ASSUME t \notin crossed'
      PROVE  \A u \in Starters \ {t} : job'[u].at = "idle"
  BY <1>1, <1>2, <1>3, <1>5 DEF Others, At
<1>6. AloneTells(t)'
  BY <1>1 DEF AloneTells
<1>7. \A u \in Starters : job'[u].at # "idle" /\ u \notin crossed' =>
        /\ \A v \in Starters \ {u} : job'[v].at = "idle"
        /\ AloneTells(u)'
  BY <1>4, <1>5, <1>6
<1> QED
  BY <1>7 DEF AloneIsTrue, AloneTells, Others, At

LEMMA PutsAlone ==
  ASSUME TypeOK, AloneIsTrue, NEW t \in Starters, Puts(t)
  PROVE  AloneIsTrue'
<1>1. job[t] \in Jobs /\ t \in Tasks /\ Idle.at = "idle" /\ Idle \in Jobs
  BY TasksApart, JobsTyped DEF Idle
<1>2. job[t].at \in {"early", "adopt", "gather"}
  BY DEF Puts, SetEarly, Refuse, Adopt, Gather, At
<1>3. t \notin crossed => AloneTells(t)
  BY <1>2, AloneSplit
<1>4. CASE SetEarly(t)
  <2>1. /\ job'[t].at = "adopt" /\ job'[t].want = job[t].want
        /\ \A u \in Tasks \ {t} : job'[u] = job[u]
        /\ country' = job[t].want /\ crossed' = crossed
    BY <1>1, <1>4, Goes_Types DEF SetEarly, Stages, history
  <2>2. AloneTells(t)'
    BY <2>1 DEF AloneTells
  <2> QED
    BY <1>2, <2>1, <2>2, AloneKept
<1>5. CASE Refuse(t)
  BY <1>1, <1>2, <1>5, Job_Types, AloneKept DEF Refuse
<1>6. CASE Adopt(t) /\ country = None
  BY <1>1, <1>2, <1>6, Job_Types, AloneKept DEF Adopt
<1>7. CASE Adopt(t) /\ country # None
  <2>1. /\ job'[t].at = "gather" /\ job'[t].want = job[t].want /\ job'[t].by = job[t].by
        /\ \A u \in Tasks \ {t} : job'[u] = job[u]
        /\ mesh' = job[t].want /\ country' = country /\ crossed' = crossed
        /\ job[t].at = "adopt"
    BY <1>1, <1>7, Goes_Types DEF Adopt, Stages, At
  <2>2. t \notin crossed => AloneTells(t)'
    BY <1>3, <2>1 DEF AloneTells
  <2> QED
    BY <1>2, <2>1, <2>2, AloneKept
<1>8. CASE Gather(t)
  <2>1. /\ job'[t] = [job[t] EXCEPT !.at = "lock", !.cfg = Profile(country, mesh)]
        /\ \A u \in Tasks \ {t} : job'[u] = job[u]
        /\ crossed' = crossed /\ job[t].at = "gather"
    BY <1>8, Gather_Types DEF Gather, history, At
  <2>2. /\ job'[t].at = "lock" /\ job'[t].want = job[t].want /\ job'[t].by = job[t].by
        /\ job'[t].cfg = Profile(country, mesh)
    BY <1>1, <2>1 DEF Jobs
  <2>3. job'[t].cfg.country = country /\ job'[t].cfg.mesh = mesh
    BY <2>2 DEF Profile
  <2>4. t \notin crossed => AloneTells(t)'
    BY <1>3, <2>1, <2>2, <2>3 DEF AloneTells
  <2> QED
    BY <1>2, <2>1, <2>4, AloneKept
<1> QED
  BY <1>4, <1>5, <1>6, <1>7, <1>8 DEF Puts

LEMMA StartsAlone ==
  ASSUME TypeOK, AloneIsTrue, NEW t \in Starters, Starts(t)
  PROVE  AloneIsTrue'
<1>1. job[t] \in Jobs /\ t \in Tasks /\ Idle.at = "idle" /\ Idle \in Jobs
  BY TasksApart, JobsTyped DEF Idle
<1>2. job[t].at \in {"lock", "compare", "bring", "mark", "ok", "failed"}
  BY DEF Starts, Lock, Refresh, Store, BringUp, BringFails, MarkReady, Give, At
<1>3. t \notin crossed => AloneTells(t)
  BY <1>2, AloneSplit
<1>4. CASE Give(t)
  BY <1>1, <1>2, <1>4, Job_Types, AloneKept DEF Give
<1>5. CASE Refresh(t)
  <2>1. /\ job'[t] = [job[t] EXCEPT !.at = "ok", !.same = TRUE]
        /\ \A u \in Tasks \ {t} : job'[u] = job[u]
        /\ crossed' = crossed
    BY <1>5, Refresh_Types DEF Refresh, history
  <2>2. /\ job'[t].at = "ok" /\ job'[t].want = job[t].want /\ job'[t].by = job[t].by
        /\ job'[t].cfg = job[t].cfg
    BY <1>1, <2>1 DEF Jobs
  <2>3. t \notin crossed => AloneTells(t)'
    BY <1>2, <1>3, <2>2 DEF AloneTells
  <2> QED
    BY <1>2, <2>1, <2>3, AloneKept
<1>6. CASE Lock(t) \/ Store(t) \/ BringUp(t) \/ BringFails(t) \/ MarkReady(t)
  <2>1. /\ \E s \in {"compare", "bring", "mark", "ok", "failed"} : Goes(t, s)
        /\ crossed' = crossed
    BY <1>6 DEF Lock, Take, Store, BringUp, BringFails, MarkReady, history
  <2>2. PICK s \in {"compare", "bring", "mark", "ok", "failed"} : Goes(t, s)
    BY <2>1
  <2>3. /\ job'[t].at = s /\ job'[t].want = job[t].want /\ job'[t].by = job[t].by
        /\ job'[t].cfg = job[t].cfg
        /\ \A u \in Tasks \ {t} : job'[u] = job[u]
    BY <1>1, <2>2, Goes_Types DEF Stages
  <2>4. t \notin crossed => AloneTells(t)'
    BY <1>2, <1>3, <2>3 DEF AloneTells
  <2> QED
    BY <1>2, <2>1, <2>3, <2>4, AloneKept
<1> QED
  BY <1>4, <1>5, <1>6 DEF Starts

LEMMA StopsAlone ==
  ASSUME TypeOK, AloneIsTrue, AskHalt \/ Stops \/ UNCHANGED vars
  PROVE  AloneIsTrue'
<1>1. /\ \A u \in Starters : job'[u] = job[u]
      /\ country' = country /\ mesh' = mesh /\ crossed \subseteq crossed'
  <2>1. CASE UNCHANGED vars
    BY <2>1 DEF vars, provVars, history
  <2>2. CASE AskHalt
    BY <2>2, TasksApart, Goes_Types DEF AskHalt, Stages, provVars
  <2>3. CASE Stops
    BY <2>3, TasksApart, Goes_Types
       DEF Stops, LockHalt, Take, Halt, ClearReady, Stages, provVars, history
  <2> QED
    BY <2>1, <2>2, <2>3
<1>2. \A u \in Starters : job'[u].at # "idle" /\ u \notin crossed' =>
        /\ \A v \in Starters \ {u} : job'[v].at = "idle"
        /\ AloneTells(u)'
  BY <1>1, AloneSplit DEF AloneTells
<1> QED
  BY <1>2 DEF AloneIsTrue, AloneTells, Others, At

LEMMA NextAlone == TypeOK /\ AloneIsTrue /\ [Next]_vars => AloneIsTrue'
BY BeginAlone, PutsAlone, StartsAlone, StopsAlone DEF Next

LEMMA RadioStarts == Init => RadioInv
<1> SUFFICES ASSUME Init
             PROVE  RadioInv
  OBVIOUS
<1>1. TypeOK
  BY InitTyped
<1>2. AloneIsTrue
  BY InitJobs, TasksApart, AloneSplit DEF AloneTells
<1> QED
  BY <1>1, <1>2, InitRadio DEF RadioInv, Radio

LEMMA RadioSteps == RadioInv /\ [Next]_vars => RadioInv'
BY NextTyped, NextRadio, NextAlone DEF RadioInv, Radio

LEMMA RadioTells == RadioInv => AnswerIsTrue
<1> SUFFICES ASSUME RadioInv, NEW t \in Phones, At(t, "ok"), t \notin crossed, ~broken
             PROVE  /\ running.mesh = job[t].want
                    /\ job[t].by = "init" => running.country = job[t].want
  BY DEF AnswerIsTrue
<1>1. t \in Starters /\ t \in Tasks /\ job[t].at = "ok"
  BY TasksApart DEF Starters, At
<1>2. started /\ stored = job[t].cfg
  BY <1>1 DEF RadioInv, StoredIsMine
<1>3. \A u \in Starters : job[u].at # "bring"
  BY <1>1, TasksApart DEF RadioInv, HolderOnly, Held
<1>4. running = job[t].cfg
  BY <1>2, <1>3 DEF RadioInv, RunsStored, At
<1>5. AloneTells(t)
  BY <1>1, AloneSplit DEF RadioInv
<1> QED
  BY <1>1, <1>4, <1>5 DEF AloneTells

(* A request that is answered with success found the radio running what it *)
(* asked for, unless another request came between or a profile was refused *)
(* since the radio came up last (handle_halow_init_config,                 *)
(* halow_interface_app_start).                                             *)
THEOREM AnswersAreTrue == Spec => []AnswerIsTrue
BY RadioStarts, RadioSteps, RadioTells, PTL DEF Spec

-----------------------------------------------------------------------------
(* The status LED (StatusLed) *)

(* Where the sampler is; while a UART has the GPIO, from before the RMT    *)
(* channel is stopped until the suspension is lifted, the LED is suspended, *)
(* so that nobody may take the mutex to draw.                              *)
LedInv ==
  /\ logic \in BOOLEAN
  /\ borrower \in [at : {"idle", "stop", "using", "read", "resume", "clear"},
                   lit : BOOLEAN]
  /\ borrower.at # "idle" => suspended
  /\ Led!PinIsQuiet

LEMMA LedOthers ==
  ASSUME LedInv, Led!Ask \/ Led!LedTask \/ Led!Setter \/ Led!Sleeper \/ UNCHANGED Led!vars
  PROVE  LedInv'
<1>1. UNCHANGED <<borrower, suspended>>
  BY DEF Led!Ask, Led!LedTask, Led!Setter, Led!Sleeper, Led!vars, Led!flags, Led!tasks,
         Led!Look, Led!TakeToDraw, Led!Refused, Led!Draw, Led!SwitchOff, Led!Blank,
         Led!Blanked, Led!StopRmt, Led!SwitchOn, Led!StartRmt, Led!Raise, Led!ForceOff,
         Led!SleepBlank, Led!SleepBlanked
<1>2. ioLock' # ioLock /\ ioLock = "free" => ~suspended
  BY DEF Led!Ask, Led!LedTask, Led!Setter, Led!Sleeper, Led!vars, Led!out,
         Led!Look, Led!TakeToDraw, Led!Refused, Led!Draw, Led!SwitchOff, Led!Blank,
         Led!Blanked, Led!StopRmt, Led!SwitchOn, Led!StartRmt, Led!Raise, Led!ForceOff,
         Led!SleepBlank, Led!SleepBlanked, Led!MayWrite, Led!Unlocks
<1>3. logic' \in {logic, TRUE, FALSE}
  BY DEF Led!Ask, Led!LedTask, Led!Setter, Led!Sleeper, Led!vars, Led!flags,
         Led!Look, Led!TakeToDraw, Led!Refused, Led!Draw, Led!SwitchOff, Led!Blank,
         Led!Blanked, Led!StopRmt, Led!SwitchOn, Led!StartRmt, Led!Raise, Led!ForceOff,
         Led!SleepBlank, Led!SleepBlanked
<1> QED
  BY <1>1, <1>2, <1>3 DEF LedInv, Led!PinIsQuiet, Led!Free

LEMMA LedSampler ==
  ASSUME LedInv, Led!Sampler
  PROVE  LedInv'
<1> USE DEF LedInv, Led!PinIsQuiet, Led!Free, Led!flags, Led!out, Led!SamplerGoes
<1>1. CASE Led!Suspend
  BY <1>1 DEF Led!Suspend
<1>2. CASE Led!Stopped
  BY <1>2 DEF Led!Stopped
<1>3. CASE Led!GiveBack
  BY <1>3 DEF Led!GiveBack
<1>4. CASE Led!ReadLogic
  BY <1>4 DEF Led!ReadLogic
<1>5. CASE Led!Resume
  BY <1>5 DEF Led!Resume
<1>6. CASE Led!Clear
  BY <1>6 DEF Led!Clear
<1> QED
  BY <1>1, <1>2, <1>3, <1>4, <1>5, <1>6 DEF Led!Sampler

LEMMA LedStarts == Led!Init => LedInv
BY DEF Led!Init, LedInv, Led!PinIsQuiet, Led!Free

LEMMA LedSteps == LedInv /\ [Led!Next]_(Led!vars) => LedInv'
BY LedOthers, LedSampler DEF Led!Next

LEMMA LedTells == LedInv => PinIsQuiet
BY DEF LedInv, PinIsQuiet

(* While a UART owns the GPIO no task draws on it (status_led_write,       *)
(* status_led_set_gpio_busy), however often the LED is switched and lent.  *)
THEOREM PinStaysQuiet == Led!Spec => []PinIsQuiet
BY LedStarts, LedSteps, LedTells, PTL DEF Led!Spec

-----------------------------------------------------------------------------
(* The BLE link (BleLink) *)

(* Links are numbered as they come; a half frame in the buffer and a PHY   *)
(* request belong to the link that is there.                               *)
BleInv ==
  /\ links \in Nat /\ link \in 0 .. links
  /\ rx \in {0, link}
  /\ Ble!LinkIsFresh

(* Only the events of a link and the end of the host touch them.           *)
LEMMA BleQuietSteps ==
  ASSUME BleInv, Ble!App \/ Ble!Host \/ Ble!StopPairing \/ Ble!StopHost \/ UNCHANGED Ble!vars
  PROVE  BleInv'
<1>1. UNCHANGED <<links, link, rx, mixed, phy>>
  BY DEF Ble!App, Ble!Host, Ble!vars, Ble!Enable, Ble!Enabled, Ble!AllowPairing, Ble!Look,
         Ble!Advertise, Ble!Sync, Ble!Synced, Ble!HostAdvertises, Ble!StopPairing,
         Ble!StopHost, Ble!flags, Ble!radio, Ble!input, Ble!fast
<1> QED
  BY <1>1 DEF BleInv, Ble!LinkIsFresh

LEMMA BleEvents ==
  ASSUME BleInv, Ble!Gap \/ Ble!Deinit
  PROVE  BleInv'
<1> USE DEF BleInv, Ble!LinkIsFresh, Ble!flags, Ble!radio, Ble!tasks, Ble!input, Ble!fast
<1>1. CASE Ble!Connect
  BY <1>1 DEF Ble!Connect
<1>2. CASE Ble!AdvEnds \/ Ble!Secure \/ Ble!Unsecure \/ Ble!Reset
  BY <1>2 DEF Ble!AdvEnds, Ble!Secure, Ble!Unsecure, Ble!Reset
<1>3. CASE Ble!ConnUpdate \/ Ble!LengthChanged
  BY <1>3 DEF Ble!ConnUpdate, Ble!LengthChanged, Ble!AsksForLength, Ble!AsksForPhy
<1>4. CASE Ble!Disconnect \/ Ble!Deinit
  BY <1>4 DEF Ble!Disconnect, Ble!Deinit
<1>5. CASE Ble!Write
  BY <1>5 DEF Ble!Write
<1> QED
  BY <1>1, <1>2, <1>3, <1>4, <1>5 DEF Ble!Gap

LEMMA BleStarts == Ble!Init => BleInv
BY DEF Ble!Init, BleInv, Ble!LinkIsFresh

LEMMA BleSteps == BleInv /\ [Ble!Next]_(Ble!vars) => BleInv'
BY BleQuietSteps, BleEvents DEF Ble!Next, Ble!Off

LEMMA BleTells == BleInv => LinkIsFresh
BY DEF BleInv, LinkIsFresh

(* A control frame never consists of writes of two links, and no link is   *)
(* taken for the one before it that was asked for the 2M PHY               *)
(* (ble_control_gap_event, ble_control_gatt_access), for any number of     *)
(* links.                                                                  *)
THEOREM LinksAreFresh == Ble!Spec => []LinkIsFresh
BY BleStarts, BleSteps, BleTells, PTL DEF Ble!Spec

-----------------------------------------------------------------------------
(* The interfaces of the scripts (ScriptInterfaces) *)

UartPlaces  == {"installing", "settling", "draining"}
Rs485Places == {"reinstalling", "resettling"}
UserCalls   == [at : UartPlaces \cup Rs485Places \cup {"idle"}, then : BOOLEAN]

(* A script calls during its run only; while the run ends it may drain.    *)
CallsInPlace ==
  /\ open \in [Wires!Kinds -> BOOLEAN]
  /\ uart \in Wires!Slots /\ rs485 \in Wires!Slots
  /\ call \in [Wires!Users -> UserCalls]
  /\ \A u \in Wires!Users : call[u].at = "idle" => call[u] = Wires!Idle
  /\ inRun \in {"no", "yes", "ending"}
  /\ inRun = "no" => call["script"] = Wires!Idle
  /\ inRun = "ending" => call["script"].at \in {"idle", "draining"}

(* A UART is not ready while it is being opened; once it is, the runtime   *)
(* takes it for open, or will when it has settled.                         *)
UartKept ==
  /\ busy = (IF uart.ready THEN 1 ELSE 0)
  /\ uart.ready => rail
  /\ inRun = "no" /\ "uart" \notin touched => ~uart.ready
  /\ \A u \in Wires!Users : call[u].at = "installing" => ~uart.ready
  /\ \A u \in Wires!Users :
       call[u].at \in {"installing", "settling"} => call[u].then \/ open["uart"]
  /\ uart.ready => open["uart"] \/ \E u \in Wires!Users : call[u].at = "settling"

(* The same of RS485, which a run closes before its UART.                  *)
Rs485Kept ==
  /\ inRun # "yes" /\ "rs485" \notin touched => ~rs485.installed
  /\ \A u \in Wires!Users : call[u].at \in Rs485Places => call[u].then \/ open["rs485"]
  /\ rs485.installed => open["rs485"] \/ \E u \in Wires!Users : call[u].at = "resettling"

WiresInv == CallsInPlace /\ (~clash => UartKept /\ Rs485Kept)

-----------------------------------------------------------------------------
(* What the steps do to the calls. *)

LEMMA WaitingCall ==
  ASSUME CallsInPlace, NEW u \in Wires!Users, NEW p \in UartPlaces \cup Rs485Places,
         NEW then \in BOOLEAN, Wires!Waiting(u, p, then)
  PROVE  /\ call' \in [Wires!Users -> UserCalls]
         /\ call'[u].at = p /\ call'[u].then = then
         /\ \A v \in Wires!Users \ {u} : call'[v] = call[v]
BY DEF CallsInPlace, Wires!Waiting, UserCalls

LEMMA ReturnedCall ==
  ASSUME CallsInPlace, NEW u \in Wires!Users, Wires!Returns(u)
  PROVE  /\ call' \in [Wires!Users -> UserCalls]
         /\ call'[u] = Wires!Idle
         /\ \A v \in Wires!Users \ {u} : call'[v] = call[v]
BY DEF CallsInPlace, Wires!Returns, UserCalls, Wires!Idle

LEMMA KindOfCall ==
  ASSUME CallsInPlace, NEW u \in Wires!Users
  PROVE  /\ call[u].at \in UartPlaces => call[u] # Wires!Idle /\ Wires!Kind(call[u]) = "uart"
         /\ call[u].at \in Rs485Places => call[u] # Wires!Idle /\ Wires!Kind(call[u]) = "rs485"
<1>1. call[u].at \in UartPlaces \cup Rs485Places => call[u] # Wires!Idle
  BY DEF CallsInPlace, Wires!Idle, UartPlaces, Rs485Places
<1>2. call[u].at \in Rs485Places => Wires!Kind(call[u]) = "rs485"
  BY DEF Wires!Kind, Rs485Places
<1>3. call[u].at \in UartPlaces => Wires!Kind(call[u]) = "uart"
  BY DEF Wires!Kind, UartPlaces
<1> QED
  BY <1>1, <1>2, <1>3

(* Without a clash the others are not in the interface of a step.          *)
LEMMA NotesTells ==
  ASSUME CallsInPlace, NEW u \in Wires!Users, NEW k \in Wires!Kinds, Wires!Notes(u, k)
  PROVE  /\ touched \subseteq touched' /\ touched' \subseteq touched \cup {k}
         /\ u = "phone" => k \in touched'
         /\ ~clash' => ~clash
         /\ ~clash' /\ k = "uart" =>
              \A v \in Wires!Users \ {u} : call[v].at \notin UartPlaces
         /\ ~clash' /\ k = "rs485" =>
              \A v \in Wires!Users \ {u} : call[v].at \notin Rs485Places
<1>1. /\ touched \subseteq touched' /\ touched' \subseteq touched \cup {k}
      /\ u = "phone" => k \in touched'
  BY DEF Wires!Notes
<1>2. ~clash' => /\ ~clash
                 /\ \A v \in Wires!Users \ {u} :
                      ~(call[v] # Wires!Idle /\ Wires!Kind(call[v]) = k)
  BY DEF Wires!Notes
<1> QED
  BY <1>1, <1>2, KindOfCall

LEMMA ClearsTells ==
  ASSUME CallsInPlace, NEW ks \in SUBSET Wires!Kinds, Wires!Clears(ks)
  PROVE  /\ touched' \subseteq touched
         /\ \A k \in touched : k \notin ks => k \in touched'
         /\ ~clash' => ~clash
         /\ ~clash' /\ "uart" \in ks => call["phone"].at \notin UartPlaces
         /\ ~clash' /\ "rs485" \in ks => call["phone"].at \notin Rs485Places
<1> DEFINE met == \E k \in ks : call["phone"] # Wires!Idle /\ Wires!Kind(call["phone"]) = k
<1>1. /\ touched' = {k \in touched : k \in ks => met /\ Wires!Kind(call["phone"]) = k}
      /\ clash' = (clash \/ met)
  BY DEF Wires!Clears
<1>2. "phone" \in Wires!Users
  BY DEF Wires!Users
<1>3. ~clash' => ~clash /\ ~met
  BY <1>1
<1>4. /\ call["phone"].at \in UartPlaces /\ "uart" \in ks => met
      /\ call["phone"].at \in Rs485Places /\ "rs485" \in ks => met
  BY <1>2, KindOfCall
<1> HIDE DEF met
<1> QED
  BY <1>1, <1>3, <1>4

-----------------------------------------------------------------------------
(* What a step leaves alone. *)

LEMMA PlacesStay ==
  ASSUME CallsInPlace, NEW u \in Wires!Users, inRun' = inRun,
         u = "script" => \/ inRun = "yes"
                         \/ inRun = "ending" /\ call'[u].at \in {"idle", "draining"},
         call' \in [Wires!Users -> UserCalls],
         call'[u].at = "idle" => call'[u] = Wires!Idle,
         \A v \in Wires!Users \ {u} : call'[v] = call[v],
         open' \in [Wires!Kinds -> BOOLEAN], uart' \in Wires!Slots, rs485' \in Wires!Slots
  PROVE  CallsInPlace'
<1>1. \A v \in Wires!Users : call'[v].at = "idle" => call'[v] = Wires!Idle
  BY DEF CallsInPlace
<1>2. u # "script" => call'["script"] = call["script"]
  BY DEF Wires!Users
<1> QED
  BY <1>1, <1>2 DEF CallsInPlace, Wires!Idle

LEMMA UartStays ==
  ASSUME UartKept, busy' = busy, uart' = uart, rail => rail', open'["uart"] = open["uart"],
         inRun' = "no" => inRun = "no", "uart" \in touched => "uart" \in touched',
         \A v \in Wires!Users : \/ call'[v] = call[v]
                                \/ call[v].at \notin UartPlaces /\ call'[v].at \notin UartPlaces
  PROVE  UartKept'
<1>1. \A v \in Wires!Users : call'[v].at \in UartPlaces \/ call[v].at \in UartPlaces
                               => call'[v] = call[v]
  OBVIOUS
<1> QED
  BY <1>1 DEF UartKept, UartPlaces

LEMMA Rs485Stays ==
  ASSUME Rs485Kept, rs485' = rs485, open'["rs485"] = open["rs485"],
         inRun' # "yes" => inRun # "yes", "rs485" \in touched => "rs485" \in touched',
         \A v \in Wires!Users : \/ call'[v] = call[v]
                                \/ call[v].at \notin Rs485Places /\ call'[v].at \notin Rs485Places
  PROVE  Rs485Kept'
<1>1. \A v \in Wires!Users : call'[v].at \in Rs485Places \/ call[v].at \in Rs485Places
                               => call'[v] = call[v]
  OBVIOUS
<1> QED
  BY <1>1 DEF Rs485Kept, Rs485Places

-----------------------------------------------------------------------------
(* One lemma for each interface. *)

LEMMA I2cWires ==
  ASSUME WiresInv, NEW u \in Wires!Users, Wires!CallsI2c(u)
  PROVE  WiresInv'
<1>1. /\ inRun' = inRun /\ uart' = uart /\ rs485' = rs485 /\ busy' = busy /\ call' = call
      /\ rail => rail'
      /\ open' \in [Wires!Kinds -> BOOLEAN]
      /\ open'["uart"] = open["uart"] /\ open'["rs485"] = open["rs485"]
  <2>1. CASE Wires!ConnectI2c(u)
    BY <2>1 DEF WiresInv, CallsInPlace, Wires!ConnectI2c, Wires!PoweredOn, Wires!Kinds
  <2>2. CASE Wires!CloseI2c(u)
    BY <2>2 DEF WiresInv, CallsInPlace, Wires!CloseI2c, Wires!Kinds
  <2> QED
    BY <2>1, <2>2 DEF Wires!CallsI2c
<1>2. /\ touched \subseteq touched'
      /\ ~clash' => ~clash
  BY NotesTells DEF WiresInv, Wires!CallsI2c, Wires!ConnectI2c, Wires!CloseI2c, Wires!Kinds
<1>3. CallsInPlace'
  BY <1>1 DEF WiresInv, CallsInPlace
<1> QED
  BY <1>1, <1>2, <1>3, UartStays, Rs485Stays DEF WiresInv

(* What the steps of RS485 leave alone, and that it was theirs alone.      *)
Rs485Alone(u) ==
  /\ UNCHANGED <<uart, busy>>
  /\ rail => rail'
  /\ inRun' = inRun
  /\ u = "script" => inRun = "yes"
  /\ open' \in [Wires!Kinds -> BOOLEAN] /\ open'["uart"] = open["uart"]
  /\ rs485' \in Wires!Slots
  /\ call' \in [Wires!Users -> UserCalls]
  /\ call[u].at \notin UartPlaces
  /\ call'[u].at \in Rs485Places \cup {"idle"}
  /\ call'[u].at = "idle" => call'[u] = Wires!Idle
  /\ \A v \in Wires!Users \ {u} : call'[v] = call[v]
  /\ touched \subseteq touched'
  /\ u = "phone" => "rs485" \in touched'
  /\ ~clash' => /\ ~clash
                /\ \A v \in Wires!Users \ {u} : call[v].at \notin Rs485Places

\* what is left to show of such a step
LEMMA Rs485StepKeeps ==
  ASSUME WiresInv, NEW u \in Wires!Users, Rs485Alone(u),
         ~clash' => /\ call'[u].at \in Rs485Places => call'[u].then \/ open'["rs485"]
                    /\ rs485'.installed => open'["rs485"] \/ call'[u].at = "resettling"
  PROVE  WiresInv'
<1>0. /\ uart' = uart /\ busy' = busy /\ inRun' = inRun
      /\ open'["uart"] = open["uart"]
      /\ rail => rail'
      /\ touched \subseteq touched'
      /\ ~clash' => ~clash
  BY DEF Rs485Alone
<1>1. CallsInPlace'
  <2>1. CallsInPlace /\ uart' \in Wires!Slots
    BY <1>0 DEF WiresInv, CallsInPlace
  <2>2. /\ u = "script" => inRun = "yes"
        /\ call' \in [Wires!Users -> UserCalls]
        /\ call'[u].at = "idle" => call'[u] = Wires!Idle
        /\ \A v \in Wires!Users \ {u} : call'[v] = call[v]
        /\ open' \in [Wires!Kinds -> BOOLEAN] /\ rs485' \in Wires!Slots
    BY DEF Rs485Alone
  <2> QED
    BY <1>0, <2>1, <2>2, PlacesStay
<1>2. \A v \in Wires!Users : \/ call'[v] = call[v]
                             \/ call[v].at \notin UartPlaces /\ call'[v].at \notin UartPlaces
  BY DEF Rs485Alone, UartPlaces, Rs485Places
<1>3. ~clash' => UartKept'
  BY <1>0, <1>2, UartStays DEF WiresInv
<1>4. ~clash' => Rs485Kept'
  <2> SUFFICES ASSUME ~clash'
               PROVE  Rs485Kept'
    OBVIOUS
  <2>1. \A v \in Wires!Users \ {u} : call'[v].at \notin Rs485Places
    BY DEF Rs485Alone
  <2>2. inRun' # "yes" => "rs485" \in touched'
    BY DEF Rs485Alone, Wires!Users
  <2> QED
    BY <2>1, <2>2 DEF Rs485Kept
<1> QED
  BY <1>1, <1>3, <1>4 DEF WiresInv

LEMMA Rs485Wires ==
  ASSUME WiresInv, NEW u \in Wires!Users, Wires!CallsRs485(u)
  PROVE  WiresInv'
<1> USE DEF Wires!Kinds, Wires!Slots
<1>t. CallsInPlace
  BY DEF WiresInv
<1>i. Wires!MayCall(u) => call[u].at = "idle" /\ (u = "script" => inRun = "yes")
  BY DEF Wires!MayCall, Wires!Idle
<1>r. call[u].at \in Rs485Places => (u = "script" => inRun = "yes")
  BY <1>t DEF CallsInPlace, Rs485Places, Wires!Idle
<1>1. CASE Wires!ConnectRs485(u) \/ Wires!UseRs485(u)
  <2>1. ASSUME NEW then \in BOOLEAN, Wires!MayCall(u), Wires!Rs485Opens(u, then),
               rail => rail', then \/ open["rs485"]
        PROVE  WiresInv'
    <3>1. /\ call' \in [Wires!Users -> UserCalls]
          /\ call'[u].at = "reinstalling" /\ call'[u].then = then
          /\ \A v \in Wires!Users \ {u} : call'[v] = call[v]
      BY <1>t, <2>1, WaitingCall DEF Wires!Rs485Opens, Rs485Places
    <3>2. Wires!Notes(u, "rs485")
      BY <2>1 DEF Wires!Rs485Opens
    <3>3. /\ rs485' = [rs485 EXCEPT !.installed = FALSE]
          /\ UNCHANGED <<inRun, open, uart, busy>>
      BY <2>1 DEF Wires!Rs485Opens
    <3>4. rs485' \in Wires!Slots /\ ~rs485'.installed
      BY <1>t, <3>3 DEF CallsInPlace
    <3>5. Rs485Alone(u)
      BY <1>t, <1>i, <2>1, <3>1, <3>2, <3>3, <3>4, NotesTells
         DEF Rs485Alone, UartPlaces, Rs485Places, CallsInPlace
    <3> QED
      BY <2>1, <3>1, <3>3, <3>4, <3>5, Rs485StepKeeps
  <2>2. ASSUME UNCHANGED <<inRun, open, uart, rs485, busy, call, touched, clash>>,
               rail => rail'
        PROVE  WiresInv'
    BY <2>2, UartStays, Rs485Stays DEF WiresInv, CallsInPlace
  <2>3. CASE Wires!ConnectRs485(u)
    <3>1. /\ rail => rail'
          /\ \/ Wires!MayCall(u) /\ Wires!Rs485Opens(u, TRUE)
             \/ UNCHANGED <<inRun, open, uart, rs485, busy, call, touched, clash>>
      BY <2>3 DEF Wires!ConnectRs485, Wires!PoweredOn
    <3> QED
      BY <3>1, <2>1, <2>2
  <2>4. CASE Wires!UseRs485(u)
    <3>1. /\ rail => rail'
          /\ Wires!MayCall(u) /\ Wires!Rs485Opens(u, FALSE) /\ open["rs485"]
      BY <2>4 DEF Wires!UseRs485
    <3> QED
      BY <3>1, <2>1
  <2> QED
    BY <1>1, <2>3, <2>4
<1>2. CASE Wires!Rs485Installed(u)
  <2>1. /\ call[u].at = "reinstalling" /\ Wires!Notes(u, "rs485")
        /\ UNCHANGED <<inRun, open, uart, rail, busy>>
    BY <1>2 DEF Wires!Rs485Installed
  <2>2. ~clash => call[u].then \/ open["rs485"]
    BY <2>1 DEF WiresInv, Rs485Kept, Rs485Places
  <2>3. /\ rs485' \in Wires!Slots
        /\ call' \in [Wires!Users -> UserCalls]
        /\ call'[u].at \in {"resettling", "idle"}
        /\ call'[u].at = "idle" => call'[u] = Wires!Idle /\ ~rs485'.installed
        /\ call'[u].at = "resettling" => call'[u].then = call[u].then
        /\ \A v \in Wires!Users \ {u} : call'[v] = call[v]
    <3>1. CASE Wires!Waiting(u, "resettling", call[u].then) /\ rs485' = [installed |-> TRUE, ready |-> TRUE]
      <4>1. call[u].then \in BOOLEAN
        BY <1>t DEF CallsInPlace, UserCalls
      <4> QED
        BY <1>t, <3>1, <4>1, WaitingCall DEF Rs485Places
    <3>2. CASE Wires!Returns(u) /\ rs485' = [rs485 EXCEPT !.installed = FALSE]
      <4>1. rs485' \in Wires!Slots /\ ~rs485'.installed
        BY <1>t, <3>2 DEF CallsInPlace
      <4> QED
        BY <1>t, <3>2, <4>1, ReturnedCall DEF Wires!Idle
    <3> QED
      BY <1>2, <3>1, <3>2 DEF Wires!Rs485Installed
  <2>4. Rs485Alone(u)
    BY <1>t, <1>r, <2>1, <2>3, NotesTells DEF Rs485Alone, UartPlaces, Rs485Places, CallsInPlace
  <2>5. ~clash' => ~clash
    BY <2>4 DEF Rs485Alone
  <2> QED
    BY <2>1, <2>2, <2>3, <2>4, <2>5, Rs485StepKeeps DEF Rs485Places
<1>3. CASE Wires!Rs485Settled(u)
  <2>1. /\ call[u].at = "resettling" /\ Wires!Notes(u, "rs485") /\ Wires!Returns(u)
        /\ open' = [open EXCEPT !["rs485"] = @ \/ call[u].then]
        /\ UNCHANGED <<inRun, uart, rs485, rail, busy>>
    BY <1>3 DEF Wires!Rs485Settled, Wires!Then
  <2>2. ~clash => call[u].then \/ open["rs485"]
    BY <2>1 DEF WiresInv, Rs485Kept, Rs485Places
  <2>3. /\ open' \in [Wires!Kinds -> BOOLEAN] /\ open'["uart"] = open["uart"]
        /\ open'["rs485"] = (open["rs485"] \/ call[u].then)
    BY <1>t, <2>1 DEF CallsInPlace
  <2>4. Rs485Alone(u)
    BY <1>t, <1>r, <2>1, <2>3, ReturnedCall, NotesTells
       DEF Rs485Alone, UartPlaces, Rs485Places, CallsInPlace, Wires!Idle
  <2>5. ~clash' => ~clash
    BY <2>4 DEF Rs485Alone
  <2> QED
    BY <1>t, <2>1, <2>2, <2>3, <2>4, <2>5, Rs485StepKeeps
<1>4. CASE Wires!CloseRs485(u)
  <2>1. /\ Wires!MayCall(u) /\ Wires!Notes(u, "rs485") /\ open["rs485"]
        /\ rs485' = [installed |-> FALSE, ready |-> FALSE]
        /\ open' = [open EXCEPT !["rs485"] = FALSE]
        /\ UNCHANGED <<inRun, uart, rail, busy, call>>
    BY <1>4 DEF Wires!CloseRs485, Wires!Rs485Closed
  <2>2. /\ open' \in [Wires!Kinds -> BOOLEAN] /\ open'["uart"] = open["uart"]
        /\ rs485' \in Wires!Slots
    BY <1>t, <2>1 DEF CallsInPlace
  <2>3. Rs485Alone(u)
    BY <1>t, <1>i, <2>1, <2>2, NotesTells
       DEF Rs485Alone, UartPlaces, Rs485Places, CallsInPlace
  <2> QED
    BY <1>i, <2>1, <2>3, Rs485StepKeeps DEF Rs485Places
<1> QED
  BY <1>1, <1>2, <1>3, <1>4 DEF Wires!CallsRs485

(* The same of the steps of the UART; a script drains it at its end too.   *)
UartAlone(u) ==
  /\ rs485' = rs485 /\ inRun' = inRun
  /\ u = "script" => \/ inRun = "yes"
                     \/ inRun = "ending" /\ call'[u].at = "draining"
  /\ open' \in [Wires!Kinds -> BOOLEAN] /\ open'["rs485"] = open["rs485"]
  /\ uart' \in Wires!Slots
  /\ call' \in [Wires!Users -> UserCalls]
  /\ call[u].at \notin Rs485Places
  /\ call'[u].at \in UartPlaces \cup {"idle"}
  /\ call'[u].at = "idle" => call'[u] = Wires!Idle
  /\ \A v \in Wires!Users \ {u} : call'[v] = call[v]
  /\ touched \subseteq touched'
  /\ u = "phone" => "uart" \in touched'
  /\ ~clash' => /\ ~clash
                /\ \A v \in Wires!Users \ {u} : call[v].at \notin UartPlaces

LEMMA UartStepKeeps ==
  ASSUME WiresInv, NEW u \in Wires!Users, UartAlone(u),
         ~clash' => /\ busy' = (IF uart'.ready THEN 1 ELSE 0)
                    /\ uart'.ready => rail'
                    /\ call'[u].at = "installing" => ~uart'.ready
                    /\ call'[u].at \in {"installing", "settling"} =>
                         call'[u].then \/ open'["uart"]
                    /\ uart'.ready => open'["uart"] \/ call'[u].at = "settling"
  PROVE  WiresInv'
<1>0. /\ rs485' = rs485 /\ inRun' = inRun
      /\ open'["rs485"] = open["rs485"]
      /\ touched \subseteq touched'
      /\ ~clash' => ~clash
  BY DEF UartAlone
<1>1. CallsInPlace'
  <2>1. CallsInPlace /\ rs485' \in Wires!Slots
    BY <1>0 DEF WiresInv, CallsInPlace
  <2>2. /\ u = "script" => \/ inRun = "yes"
                           \/ inRun = "ending" /\ call'[u].at \in {"idle", "draining"}
        /\ call' \in [Wires!Users -> UserCalls]
        /\ call'[u].at = "idle" => call'[u] = Wires!Idle
        /\ \A v \in Wires!Users \ {u} : call'[v] = call[v]
        /\ open' \in [Wires!Kinds -> BOOLEAN] /\ uart' \in Wires!Slots
    BY DEF UartAlone
  <2> QED
    BY <1>0, <2>1, <2>2, PlacesStay
<1>2. \A v \in Wires!Users : \/ call'[v] = call[v]
                             \/ call[v].at \notin Rs485Places /\ call'[v].at \notin Rs485Places
  BY DEF UartAlone, UartPlaces, Rs485Places
<1>3. ~clash' => Rs485Kept'
  BY <1>0, <1>2, Rs485Stays DEF WiresInv
<1>4. ~clash' => UartKept'
  <2> SUFFICES ASSUME ~clash'
               PROVE  UartKept'
    OBVIOUS
  <2>1. \A v \in Wires!Users \ {u} : call'[v].at \notin UartPlaces
    BY DEF UartAlone
  <2>2. inRun' = "no" => "uart" \in touched'
    BY DEF UartAlone, Wires!Users
  <2> QED
    BY <2>1, <2>2 DEF UartKept, UartPlaces
<1> QED
  BY <1>1, <1>3, <1>4 DEF WiresInv

LEMMA UartWires ==
  ASSUME WiresInv, NEW u \in Wires!Users, Wires!CallsUart(u), inRun' = inRun
  PROVE  WiresInv'
<1> USE DEF Wires!Kinds, Wires!Slots
<1>t. CallsInPlace
  BY DEF WiresInv
<1>k. ~clash => UartKept
  BY DEF WiresInv
<1>i. Wires!MayCall(u) => call[u].at = "idle" /\ (u = "script" => inRun = "yes")
  BY DEF Wires!MayCall, Wires!Idle
<1>r. call[u].at \in {"installing", "settling"} => (u = "script" => inRun = "yes")
  BY <1>t DEF CallsInPlace, Wires!Idle
<1>1. ASSUME NEW then \in BOOLEAN, Wires!MayCall(u), Wires!UartOpens(u, then),
             then \/ open["uart"]
      PROVE  WiresInv'
  <2>1. /\ call' \in [Wires!Users -> UserCalls]
        /\ call'[u].at = "installing" /\ call'[u].then = then
        /\ \A v \in Wires!Users \ {u} : call'[v] = call[v]
    BY <1>t, <1>1, WaitingCall DEF Wires!UartOpens, UartPlaces
  <2>2. /\ Wires!Notes(u, "uart")
        /\ uart' = [uart EXCEPT !.ready = FALSE]
        /\ open' = open /\ rs485' = rs485
        /\ busy' = IF uart.ready THEN Wires!Released ELSE busy
    BY <1>1 DEF Wires!UartOpens
  <2>3. uart' \in Wires!Slots /\ ~uart'.ready
    BY <1>t, <2>2 DEF CallsInPlace
  <2>4. UartAlone(u)
    BY <1>t, <1>i, <1>1, <2>1, <2>2, <2>3, NotesTells
       DEF UartAlone, UartPlaces, Rs485Places, CallsInPlace
  <2>5. ~clash' => ~clash
    BY <2>4 DEF UartAlone
  <2>6. ~clash => busy' = 0
    BY <1>k, <2>2 DEF UartKept, Wires!Released
  <2> QED
    BY <1>1, <2>1, <2>2, <2>3, <2>4, <2>5, <2>6, UartStepKeeps
<1>2. CASE Wires!ConnectUart(u)
  BY <1>1, <1>2 DEF Wires!ConnectUart
<1>3. CASE Wires!UseUart(u)
  BY <1>1, <1>3 DEF Wires!UseUart
<1>4. CASE Wires!UartInstalled(u)
  <2>1. PICK got \in Wires!Reaches :
          /\ busy' = Wires!BusyAfter(got)
          /\ uart' = [installed |-> uart.installed \/ got # "config",
                      ready |-> uart.ready \/ got = "done"]
          /\ rail' = (rail \/ got = "done")
          /\ IF got = "done" THEN Wires!Waiting(u, "settling", call[u].then)
                             ELSE Wires!Returns(u)
    BY <1>4 DEF Wires!UartInstalled
  <2>2. /\ call[u].at = "installing" /\ Wires!Notes(u, "uart")
        /\ open' = open /\ rs485' = rs485
    BY <1>4 DEF Wires!UartInstalled
  <2>3. ~clash => ~uart.ready /\ busy = 0 /\ (call[u].then \/ open["uart"])
    BY <1>k, <2>2 DEF UartKept
  <2>4. call[u].then \in BOOLEAN /\ uart.installed \in BOOLEAN /\ uart.ready \in BOOLEAN
    BY <1>t DEF CallsInPlace, UserCalls
  <2>5. uart' \in Wires!Slots
    BY <2>1, <2>4
  <2>6. /\ call' \in [Wires!Users -> UserCalls]
        /\ got = "done" => call'[u].at = "settling" /\ call'[u].then = call[u].then
        /\ got # "done" => call'[u].at = "idle" /\ call'[u] = Wires!Idle
        /\ \A v \in Wires!Users \ {u} : call'[v] = call[v]
    BY <1>t, <2>1, <2>4, WaitingCall, ReturnedCall DEF UartPlaces, Wires!Idle
  <2>7. UartAlone(u)
    BY <1>t, <1>r, <2>2, <2>5, <2>6, NotesTells
       DEF UartAlone, UartPlaces, Rs485Places, CallsInPlace
  <2>8. ~clash' => ~clash
    BY <2>7 DEF UartAlone
  <2>9. ~clash => /\ uart'.ready = (got = "done")
                  /\ busy' = IF got = "done" THEN 1 ELSE 0
    BY <2>1, <2>3 DEF Wires!BusyAfter
  <2>10. got = "done" => rail'
    BY <2>1
  <2> QED
    BY <2>2, <2>3, <2>6, <2>7, <2>8, <2>9, <2>10, UartStepKeeps
<1>5. CASE Wires!UartSettled(u)
  <2>1. /\ call[u].at = "settling" /\ Wires!Notes(u, "uart") /\ Wires!Returns(u)
        /\ open' = [open EXCEPT !["uart"] = @ \/ call[u].then]
        /\ UNCHANGED <<inRun, uart, rs485, rail, busy>>
    BY <1>5 DEF Wires!UartSettled, Wires!Then
  <2>2. ~clash => call[u].then \/ open["uart"]
    BY <1>k, <2>1 DEF UartKept
  <2>3. /\ open' \in [Wires!Kinds -> BOOLEAN] /\ open'["rs485"] = open["rs485"]
        /\ open'["uart"] = (open["uart"] \/ call[u].then)
    BY <1>t, <2>1 DEF CallsInPlace
  <2>4. UartAlone(u)
    BY <1>t, <1>r, <2>1, <2>3, ReturnedCall, NotesTells
       DEF UartAlone, UartPlaces, Rs485Places, CallsInPlace, Wires!Idle
  <2>5. ~clash' => ~clash
    BY <2>4 DEF UartAlone
  <2>6. ~clash => busy' = (IF uart'.ready THEN 1 ELSE 0) /\ (uart'.ready => rail')
    BY <1>k, <2>1 DEF UartKept
  <2>7. call'[u].at = "idle"
    BY <1>t, <2>1, ReturnedCall DEF Wires!Idle
  <2> QED
    BY <2>2, <2>3, <2>4, <2>5, <2>6, <2>7, UartStepKeeps
<1>6. CASE Wires!CloseUart(u)
  <2>1. Wires!MayCall(u) /\ open["uart"] /\ Wires!Notes(u, "uart") /\ rs485' = rs485
    BY <1>6 DEF Wires!CloseUart
  <2>2. CASE Wires!UartCloses(u)
    <3>1. UartAlone(u) /\ call'[u].at = "draining"
      <4>1. /\ call' \in [Wires!Users -> UserCalls]
            /\ call'[u].at = "draining"
            /\ \A v \in Wires!Users \ {u} : call'[v] = call[v]
        BY <1>t, <2>2, WaitingCall DEF Wires!UartCloses, UartPlaces
      <4>2. /\ open' \in [Wires!Kinds -> BOOLEAN] /\ open'["rs485"] = open["rs485"]
            /\ uart' \in Wires!Slots
        BY <1>t, <2>2 DEF Wires!UartCloses, CallsInPlace
      <4> QED
        BY <1>t, <1>i, <2>1, <4>1, <4>2, NotesTells DEF UartAlone, UartPlaces, Rs485Places
    <3>2. ~clash' => ~clash
      BY <3>1 DEF UartAlone
    <3>3. open'["uart"]
      BY <2>1, <2>2 DEF Wires!UartCloses
    <3>4. ~clash => busy' = (IF uart'.ready THEN 1 ELSE 0) /\ (uart'.ready => rail')
      BY <1>k, <2>2 DEF UartKept, Wires!UartCloses
    <3> QED
      BY <2>1, <3>1, <3>2, <3>3, <3>4, UartStepKeeps
  <2>3. CASE ~uart.ready /\ Wires!UartClosed(FALSE) /\ UNCHANGED call
    <3>1. /\ busy' = busy /\ call' = call
          /\ uart' \in Wires!Slots /\ ~uart'.ready
          /\ open' \in [Wires!Kinds -> BOOLEAN] /\ open'["rs485"] = open["rs485"]
      BY <1>t, <2>3 DEF Wires!UartClosed, CallsInPlace
    <3>2. UartAlone(u)
      BY <1>t, <1>i, <2>1, <3>1, NotesTells
         DEF UartAlone, UartPlaces, Rs485Places, CallsInPlace
    <3>3. ~clash' => ~clash
      BY <3>2 DEF UartAlone
    <3>4. ~clash => busy' = 0
      BY <1>k, <2>3, <3>1 DEF UartKept
    <3> QED
      BY <1>i, <2>1, <3>1, <3>2, <3>3, <3>4, UartStepKeeps
  <2> QED
    BY <1>6, <2>2, <2>3 DEF Wires!CloseUart
<1>7. CASE Wires!UartDrained(u)
  <2>1. call[u].at = "draining" /\ Wires!UartClosed(TRUE) /\ Wires!Returns(u) /\ rs485' = rs485
    BY <1>7 DEF Wires!UartDrained
  <2>2. Wires!Notes(u, "uart") /\ ~(u = "script" /\ inRun = "ending")
    BY <1>7 DEF Wires!UartDrained, Wires!RunIsOver
  <2>3. u = "script" => inRun = "yes"
    BY <1>t, <2>1, <2>2 DEF CallsInPlace, Wires!Idle
  <2>4. /\ busy' = Wires!Released
        /\ uart' \in Wires!Slots /\ ~uart'.ready
        /\ open' \in [Wires!Kinds -> BOOLEAN] /\ open'["rs485"] = open["rs485"]
    BY <1>t, <2>1 DEF Wires!UartClosed, CallsInPlace
  <2>5. UartAlone(u) /\ call'[u].at = "idle"
    BY <1>t, <2>1, <2>2, <2>3, <2>4, ReturnedCall, NotesTells
       DEF UartAlone, UartPlaces, Rs485Places, Wires!Idle
  <2>6. ~clash' => ~clash
    BY <2>5 DEF UartAlone
  <2>7. ~clash => busy' = 0
    BY <1>k, <2>4 DEF UartKept, Wires!Released
  <2> QED
    BY <2>4, <2>5, <2>6, <2>7, UartStepKeeps
<1> QED
  BY <1>2, <1>3, <1>4, <1>5, <1>6, <1>7 DEF Wires!CallsUart

(* The run ends: the UART is closed, or was closed already and nobody is   *)
(* opening it.                                                             *)
LEMMA OverWires ==
  ASSUME WiresInv, inRun = "ending", Wires!RunIsOver, UNCHANGED rs485,
         call'["script"] = Wires!Idle, call'["phone"] = call["phone"],
         call' \in [Wires!Users -> UserCalls],
         open' \in [Wires!Kinds -> BOOLEAN], open'["rs485"] = open["rs485"],
         uart' \in Wires!Slots,
         ~clash' => ~uart'.ready /\ busy' = 0
  PROVE  WiresInv'
<1> USE DEF Wires!Kinds
<1>t. CallsInPlace
  BY DEF WiresInv
<1>1. inRun' = "no" /\ Wires!Clears({"uart"})
  BY DEF Wires!RunIsOver
<1>2. /\ "rs485" \in touched => "rs485" \in touched'
      /\ ~clash' => ~clash /\ call["phone"].at \notin UartPlaces
  BY <1>t, <1>1, ClearsTells
<1>3. CallsInPlace'
  <2>1. rs485' \in Wires!Slots
    BY <1>t DEF CallsInPlace
  <2>2. \A v \in Wires!Users : call'[v].at = "idle" => call'[v] = Wires!Idle
    BY <1>t DEF CallsInPlace, Wires!Users
  <2> QED
    BY <1>1, <2>1, <2>2 DEF CallsInPlace
<1>4. call["script"].at \notin Rs485Places /\ call'["script"].at = "idle"
  BY <1>t DEF CallsInPlace, Rs485Places, Wires!Idle
<1>5. ~clash' => Rs485Kept'
  <2>1. \A v \in Wires!Users : \/ call'[v] = call[v]
                               \/ call[v].at \notin Rs485Places /\ call'[v].at \notin Rs485Places
    BY <1>4 DEF Wires!Users, Rs485Places
  <2> QED
    BY <1>1, <1>2, <2>1, Rs485Stays DEF WiresInv
<1>6. ~clash' => UartKept'
  <2>1. ~clash' => \A v \in Wires!Users : call'[v].at \notin UartPlaces
    BY <1>2, <1>4 DEF Wires!Users, UartPlaces
  <2> QED
    BY <2>1 DEF UartKept, UartPlaces
<1> QED
  BY <1>3, <1>5, <1>6 DEF WiresInv

LEMMA RunWires ==
  ASSUME WiresInv, Wires!Begins \/ Wires!Ends \/ Wires!EndsUart
  PROVE  WiresInv'
<1> USE DEF Wires!Kinds, Wires!Slots
<1>t. CallsInPlace
  BY DEF WiresInv
<1>k. ~clash => UartKept /\ Rs485Kept
  BY DEF WiresInv
<1>1. CASE Wires!Begins
  <2>1. /\ open' = open /\ uart' = uart /\ rs485' = rs485 /\ rail' = rail /\ busy' = busy
        /\ call' = call /\ touched' = touched /\ clash' = clash /\ inRun' = "yes"
    BY <1>1 DEF Wires!Begins
  <2>2. CallsInPlace'
    BY <1>t, <2>1 DEF CallsInPlace
  <2>3. ~clash' => UartKept' /\ Rs485Kept'
    BY <1>k, <2>1, UartStays, Rs485Stays
  <2> QED
    BY <2>2, <2>3 DEF WiresInv
<1>2. CASE Wires!Ends
  <2>1. /\ inRun = "yes" /\ inRun' = "ending" /\ call["script"] = Wires!Idle
        /\ open' = [open EXCEPT !["i2c"] = FALSE, !["rs485"] = FALSE]
        /\ rs485' = IF open["rs485"] THEN [installed |-> FALSE, ready |-> FALSE] ELSE rs485
        /\ Wires!Clears({"i2c", "rs485"})
        /\ uart' = uart /\ rail' = rail /\ busy' = busy /\ call' = call
    BY <1>2 DEF Wires!Ends, Wires!Rs485Closed
  <2>2. /\ open' \in [Wires!Kinds -> BOOLEAN]
        /\ open'["uart"] = open["uart"] /\ ~open'["rs485"]
        /\ rs485' \in Wires!Slots
    BY <1>t, <2>1 DEF CallsInPlace
  <2>3. CallsInPlace'
    <3>1. call["script"].at = "idle"
      BY <2>1 DEF Wires!Idle
    <3>2. /\ call \in [Wires!Users -> UserCalls] /\ uart \in Wires!Slots
          /\ \A v \in Wires!Users : call[v].at = "idle" => call[v] = Wires!Idle
      BY <1>t DEF CallsInPlace
    <3> HIDE DEF Wires!Kinds, Wires!Slots
    <3> QED
      BY <2>1, <2>2, <3>1, <3>2 DEF CallsInPlace
  <2>4. /\ "uart" \in touched => "uart" \in touched'
        /\ ~clash' => ~clash /\ call["phone"].at \notin Rs485Places
    BY <1>t, <2>1, ClearsTells
  <2>5. ~clash' => UartKept'
    BY <1>k, <2>1, <2>2, <2>4, UartStays
  <2>6. ~clash' => Rs485Kept'
    <3>1. ~clash' => \A v \in Wires!Users : call[v].at \notin Rs485Places
      BY <2>1, <2>4 DEF Wires!Users, Wires!Idle, Rs485Places
    <3>2. ~clash' => ~rs485'.installed
      BY <1>k, <2>1, <2>4, <3>1 DEF Rs485Kept, Rs485Places
    <3> QED
      BY <2>1, <3>1, <3>2 DEF Rs485Kept
  <2> QED
    BY <2>3, <2>5, <2>6 DEF WiresInv
<1>3. CASE Wires!EndsUart
  <2>1. /\ inRun = "ending" /\ call["script"] = Wires!Idle /\ rs485' = rs485
        /\ call["script"].at = "idle"
    BY <1>3 DEF Wires!EndsUart, Wires!Idle
  <2>u. "script" \in Wires!Users /\ "phone" \in Wires!Users
    BY DEF Wires!Users
  <2>2. CASE open["uart"] /\ Wires!UartCloses("script") /\ Wires!Notes("script", "uart")
               /\ UNCHANGED inRun
    <3>1. UartAlone("script") /\ call'["script"].at = "draining"
      <4>1. /\ call' \in [Wires!Users -> UserCalls]
            /\ call'["script"].at = "draining"
            /\ \A v \in Wires!Users \ {"script"} : call'[v] = call[v]
        BY <1>t, <2>u, <2>2, WaitingCall DEF Wires!UartCloses, UartPlaces
      <4>2. /\ open' \in [Wires!Kinds -> BOOLEAN] /\ open'["rs485"] = open["rs485"]
            /\ uart' \in Wires!Slots
        BY <1>t, <2>2 DEF Wires!UartCloses, CallsInPlace
      <4> QED
        BY <1>t, <2>u, <2>1, <2>2, <4>1, <4>2, NotesTells
           DEF UartAlone, UartPlaces, Rs485Places
    <3>2. ~clash' => ~clash
      BY <3>1 DEF UartAlone
    <3>3. open'["uart"]
      BY <2>2 DEF Wires!UartCloses
    <3>4. ~clash => busy' = (IF uart'.ready THEN 1 ELSE 0) /\ (uart'.ready => rail')
      BY <1>k, <2>2 DEF UartKept, Wires!UartCloses
    <3> QED
      BY <2>u, <3>1, <3>2, <3>3, <3>4, UartStepKeeps
  <2>3. CASE open["uart"] /\ ~uart.ready /\ Wires!UartClosed(FALSE) /\ Wires!RunIsOver
               /\ UNCHANGED call
    <3>1. /\ busy' = busy /\ call' = call
          /\ uart' \in Wires!Slots /\ ~uart'.ready
          /\ open' \in [Wires!Kinds -> BOOLEAN] /\ open'["rs485"] = open["rs485"]
      BY <1>t, <2>3 DEF Wires!UartClosed, CallsInPlace
    <3>2. ~clash' => ~clash
      BY <1>t, <2>3, ClearsTells DEF Wires!RunIsOver
    <3>3. ~clash => busy' = 0
      BY <1>k, <2>3, <3>1 DEF UartKept
    <3>4. call' \in [Wires!Users -> UserCalls]
      BY <1>t, <3>1 DEF CallsInPlace
    <3> QED
      BY <2>1, <2>3, <3>1, <3>2, <3>3, <3>4, OverWires
  <2>4. CASE ~open["uart"] /\ Wires!RunIsOver /\ UNCHANGED <<open, uart, rail, busy, call>>
    <3>1. ~clash' => ~clash /\ call["phone"].at \notin UartPlaces
      BY <1>t, <2>4, ClearsTells DEF Wires!RunIsOver
    <3>2. ~clash' => \A v \in Wires!Users : call[v].at # "settling"
      BY <2>1, <3>1 DEF Wires!Users, UartPlaces
    <3>3. ~clash' => ~uart.ready /\ busy = 0
      BY <1>k, <2>4, <3>1, <3>2 DEF UartKept
    <3>4. /\ call' = call /\ uart' = uart /\ busy' = busy
          /\ call' \in [Wires!Users -> UserCalls]
          /\ open' \in [Wires!Kinds -> BOOLEAN] /\ open'["rs485"] = open["rs485"]
          /\ uart' \in Wires!Slots
      BY <1>t, <2>4 DEF CallsInPlace
    <3> QED
      BY <2>1, <2>4, <3>3, <3>4, OverWires
  <2> QED
    BY <1>3, <2>2, <2>3, <2>4 DEF Wires!EndsUart
<1> QED
  BY <1>1, <1>2, <1>3

(* The script drains its UART and the run is over.                         *)
LEMMA DrainedWires ==
  ASSUME WiresInv, Wires!UartDrained("script"), inRun = "ending"
  PROVE  WiresInv'
<1> USE DEF Wires!Kinds, Wires!Slots
<1>t. CallsInPlace
  BY DEF WiresInv
<1>1. /\ Wires!UartClosed(TRUE) /\ Wires!Returns("script") /\ rs485' = rs485
      /\ Wires!RunIsOver
  BY DEF Wires!UartDrained
<1>2. /\ busy' = Wires!Released
      /\ uart' \in Wires!Slots /\ ~uart'.ready
      /\ open' \in [Wires!Kinds -> BOOLEAN] /\ open'["rs485"] = open["rs485"]
  BY <1>t, <1>1 DEF Wires!UartClosed, CallsInPlace
<1>3. /\ call' \in [Wires!Users -> UserCalls]
      /\ call'["script"] = Wires!Idle /\ call'["phone"] = call["phone"]
  BY <1>t, <1>1, ReturnedCall DEF Wires!Users
<1>4. ~clash' => ~clash
  BY <1>t, <1>1, ClearsTells DEF Wires!RunIsOver
<1>5. ~clash => busy' = 0
  BY <1>2 DEF WiresInv, UartKept, Wires!Released
<1> QED
  BY <1>1, <1>2, <1>3, <1>4, <1>5, OverWires

LEMMA CallsWires ==
  ASSUME WiresInv, NEW u \in Wires!Users, Wires!Calls(u)
  PROVE  WiresInv'
<1>1. CASE Wires!CallsUart(u)
  <2>1. CASE Wires!UartDrained(u) /\ u = "script" /\ inRun = "ending"
    BY <2>1, DrainedWires
  <2>2. CASE ~(Wires!UartDrained(u) /\ u = "script" /\ inRun = "ending")
    <3>1. inRun' = inRun
      BY <1>1, <2>2
         DEF Wires!CallsUart, Wires!ConnectUart, Wires!UseUart, Wires!UartOpens,
             Wires!UartInstalled, Wires!UartSettled, Wires!CloseUart, Wires!UartDrained
    <3> QED
      BY <1>1, <3>1, UartWires
  <2> QED
    BY <2>1, <2>2
<1> QED
  BY <1>1, I2cWires, Rs485Wires DEF Wires!Calls

LEMMA WiresStart == Wires!Init => WiresInv
<1> SUFFICES ASSUME Wires!Init
             PROVE  WiresInv
  OBVIOUS
<1>1. \A u \in Wires!Users : call[u] = Wires!Idle
  BY DEF Wires!Init
<1>2. CallsInPlace
  <2>1. open \in [Wires!Kinds -> BOOLEAN] /\ uart \in Wires!Slots /\ rs485 \in Wires!Slots
    BY DEF Wires!Init, Wires!Slots
  <2>2. call \in [Wires!Users -> UserCalls]
    BY DEF Wires!Init, UserCalls, Wires!Idle
  <2> QED
    BY <1>1, <2>1, <2>2 DEF Wires!Init, CallsInPlace, Wires!Users
<1>3. UartKept /\ Rs485Kept
  BY <1>1 DEF Wires!Init, UartKept, Rs485Kept, Wires!Idle, Rs485Places
<1> QED
  BY <1>2, <1>3 DEF WiresInv

LEMMA WiresSteps == WiresInv /\ [Wires!Next]_(Wires!vars) => WiresInv'
<1>1. WiresInv /\ UNCHANGED Wires!vars => WiresInv'
  BY DEF WiresInv, CallsInPlace, UartKept, Rs485Kept, Wires!vars
<1>2. "script" \in Wires!Users /\ "phone" \in Wires!Users
  BY DEF Wires!Users
<1> QED
  BY <1>1, <1>2, RunWires, CallsWires DEF Wires!Next, Wires!Rpc

LEMMA WiresTell == WiresInv => RunReleasesAll
BY DEF WiresInv, UartKept, Rs485Kept, RunReleasesAll, Wires!RunReleasesAll

(* As long as no two calls meet in one interface, the LED is suspended     *)
(* exactly while the UART is ready, a ready UART has its supply, and a run  *)
(* leaves nothing open that the phone has not used since                   *)
(* (sample_close_lua_sensor_interfaces, bridge_uart_open).                 *)
THEOREM RunsReleaseAll == Wires!Spec => []RunReleasesAll
BY WiresStart, WiresSteps, WiresTell, PTL DEF Wires!Spec

-----------------------------------------------------------------------------
(* All of them, in the specification that the run checks *)

ServicesInv == RadioInv /\ LedInv /\ WiresInv /\ BleInv

(* A behaviour of the run takes the steps of one module and leaves the     *)
(* others alone, so that what each module keeps is kept.                   *)
THEOREM ServicesKeep ==
  MCSpec => [](AnswerIsTrue /\ PinIsQuiet /\ RunReleasesAll /\ LinkIsFresh)
<1>1. MCInit => ServicesInv
  BY RadioStarts, WiresStart, LedStarts, BleStarts DEF MCInit, ServicesInv
<1>2. ServicesInv /\ [MCNext]_<<turn, vars, wireVars, ledVars, bleVars, wifiVars>>
        => ServicesInv'
  <2> SUFFICES ASSUME ServicesInv,
                      [MCNext]_<<turn, vars, wireVars, ledVars, bleVars, wifiVars>>
               PROVE  ServicesInv'
    OBVIOUS
  <2>1. [Next]_vars
    BY DEF MCNext, RadioTurn, WiresTurn, LedTurn, BleTurn, WifiTurn
  <2>2. Wires!Next \/ UNCHANGED wireVars
    BY DEF MCNext, RadioTurn, WiresTurn, LedTurn, BleTurn, WifiTurn
  <2>3. Led!Next \/ UNCHANGED ledVars
    BY DEF MCNext, RadioTurn, WiresTurn, LedTurn, BleTurn, WifiTurn
  <2>4. Ble!Next \/ UNCHANGED bleVars
    BY DEF MCNext, RadioTurn, WiresTurn, LedTurn, BleTurn, WifiTurn
  <2>5. [Wires!Next]_(Wires!vars)
    BY <2>2 DEF wireVars, Wires!vars
  <2>6. [Led!Next]_(Led!vars)
    BY <2>3 DEF ledVars, Led!vars, Led!flags, Led!out, Led!tasks
  <2>7. [Ble!Next]_(Ble!vars)
    BY <2>4 DEF bleVars, Ble!vars, Ble!flags, Ble!radio, Ble!tasks, Ble!input, Ble!fast
  <2> QED
    BY <2>1, <2>5, <2>6, <2>7, RadioSteps, WiresSteps, LedSteps, BleSteps DEF ServicesInv
<1>3. ServicesInv => AnswerIsTrue /\ PinIsQuiet /\ RunReleasesAll /\ LinkIsFresh
  BY RadioTells, WiresTell, LedTells, BleTells DEF ServicesInv
<1> QED
  BY <1>1, <1>2, <1>3, PTL DEF MCSpec
=============================================================================
