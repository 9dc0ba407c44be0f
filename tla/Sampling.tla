------------------------------ MODULE Sampling ------------------------------
(***************************************************************************)
(* The sampler of an EdgeZ device (sampling.c).                            *)
(*                                                                         *)
(* A task that is created when the radio first is ready wakes up when a    *)
(* sample is due, passes the gate (no phone, radio ready), and runs the    *)
(* Lua script the selectors name.  The script is kept in a cache that is   *)
(* rebuilt from the script store by the task that changes the selectors,   *)
(* and by the sampler when it finds it empty; the cache, its length, its   *)
(* truncation flag and the selectors are unlocked globals.  The results go *)
(* record by record into pending sensor data, which replaces the latest    *)
(* data, the one the beacon sends, when the run succeeded.                 *)
(*                                                                         *)
(* Every buffer is allocated when it is first wanted, and may not be had.  *)
(*                                                                         *)
(* Which scripts are stored does not change here (ScriptStore has the      *)
(* uploads), and one task at a time changes the selectors.                 *)
(***************************************************************************)
EXTENDS Naturals

CONSTANTS
  Scripts,  \* what the selectors may say
  Named,    \* those that name the id of a script
  Stored,   \* those of them whose script is stored
  Fields,   \* fields of the sensor data
  None

VARIABLES
  phone,    \* ble_control_is_connected
  ready,    \* halow_interface_app_ready
  due,      \* s_next_sample_due_us has passed
  sel,      \* g_sample_sensor_uart_i2c, g_sample_sensor_rs485
  cache,    \* g_sample_script_buf and _len
  truncated,\* g_sample_script_truncated
  memory,   \* the buffers that are allocated
  setter,   \* the task that changes the selectors, and the ids it collected
  sampler,  \* the sampling task, and the ids or the script it has
  lock,     \* s_script_global_buffer_mutex
  run,      \* which of two consecutive runs this is
  active,   \* s_sensor_update_active
  pending,  \* s_pending_sensor_data: the run each field stems from
  latest,   \* s_latest_sensor_data
  lines     \* records in s_sample_ring

world    == <<phone, ready>>
cached   == <<cache, truncated>>
script   == <<sel, cached, setter>>
data     == <<run, active, pending, latest, lines>>
vars     == <<world, script, data, due, sampler, lock, memory>>

Runs    == 1 .. 2
NoData  == [f \in Fields |-> 0]
Choices == Scripts \cup {None}
RingMax == 2   \* bound: SAMPLE_RING_MAX_RECORDS

TypeOK ==
  /\ {phone, ready, due, active, truncated} \subseteq BOOLEAN
  /\ {sel, cache} \subseteq Choices
  /\ memory \subseteq {"cache", "buffers", "workspace"}
  /\ setter \in [at : {"idle", "collect", "build", "flag"}, ids : Choices,
                 short : BOOLEAN, again : BOOLEAN]
  /\ sampler \in [at : {"off", "wait", "collect", "build", "flag", "run", "take",
                        "execute", "report"},
                  ids : Choices, short : BOOLEAN, again : {FALSE}]
  /\ lock \in {"free", "sampler", "other"}
  /\ run \in Runs
  /\ pending \in [Fields -> {0} \cup Runs] /\ latest \in [Fields -> {0} \cup Runs]
  /\ lines \in 0 .. RingMax

-----------------------------------------------------------------------------
(* sample_refresh_script_cache_from_selectors, which two tasks call *)

At(step) == [at |-> step, ids |-> None, short |-> FALSE, again |-> FALSE]

\* sample_parse_script_selector_id: a selector that names no id selects nothing
Ids(s) == IF s \in Named THEN s ELSE None

\* How a rebuild may end: the first allocation of the cache may fail, and so may
\* its growth to the length of the script; a script that is not stored leaves
\* the cache empty.
CacheFails      == "cache" \notin memory
GrowthFails(id) == id \in Stored
Results(id) ==
  (IF CacheFails THEN {"no cache"} ELSE {})
    \cup (IF GrowthFails(id) THEN {"no room"} ELSE {})
    \cup (IF id \in Stored THEN {"built"} ELSE {"empty"})

\* The length is written first, the flag after it.
Built(id, result) ==
  /\ cache' = IF result = "built" THEN id ELSE None
  /\ memory' = IF result = "no cache" THEN memory ELSE memory \cup {"cache"}
Short(result) == result \in {"no cache", "no room"}

\* sample_settings_load_from_nvs_to_rtc: the selectors come from NVS and the
\* cache is built.
Init ==
  /\ phone = FALSE /\ ready = FALSE
  /\ due = FALSE
  /\ sel \in Choices
  /\ memory \in {{}, {"cache"}}
  /\ truncated \in BOOLEAN
  /\ cache = IF memory # {} /\ ~truncated /\ sel \in Stored THEN sel ELSE None
  /\ truncated => memory = {} \/ sel \in Stored
  /\ memory = {} => truncated
  /\ setter = At("idle")
  /\ sampler = At("off")
  /\ lock = "free"
  /\ run = 1 /\ active = FALSE
  /\ pending = NoData /\ latest = NoData
  /\ lines = 0

-----------------------------------------------------------------------------
(* The phone, the radio and the time *)

World ==
  /\ \/ phone' = ~phone /\ UNCHANGED ready
     \/ ready' = ~ready /\ UNCHANGED phone
  /\ UNCHANGED <<script, data, due, sampler, lock, memory>>

IsDue ==
  /\ sampler.at = "wait" /\ ~due
  /\ due' = TRUE
  /\ UNCHANGED <<world, script, data, sampler, lock, memory>>

\* A script on its way into the buffer that is served (GlobalBuffer).
Moves(from, to) ==
  /\ lock = from /\ lock' = to
  /\ UNCHANGED <<world, script, data, due, sampler, memory>>

LocksElsewhere == Moves("free", "other")
FreesElsewhere == Moves("other", "free")

-----------------------------------------------------------------------------
(* sample_set_sensor_selectors *)

\* What the phone's settings ask for, and what a script it commits may.
FromSettings == Choices \ {sel}
FromScript   == Scripts \ {sel}

\* The selectors are saved first; if that fails nothing changes.  The callers
\* have the cache rebuilt once more.
Select ==
  /\ phone /\ setter.at = "idle"
  /\ sel' \in FromSettings \cup FromScript
  /\ setter' = [At("collect") EXCEPT !.again = TRUE]
  /\ UNCHANGED <<world, cached, data, due, sampler, lock, memory>>

\* A script that is committed and not selected.
Commit ==
  /\ phone /\ setter.at = "idle"
  /\ setter' = At("collect")
  /\ UNCHANGED <<world, sel, cached, data, due, sampler, lock, memory>>

Collect ==
  /\ setter.at = "collect"
  /\ setter' = [setter EXCEPT !.at = "build", !.ids = Ids(sel)]
  /\ UNCHANGED <<world, sel, cached, data, due, sampler, lock, memory>>

Build ==
  /\ setter.at = "build"
  /\ \E result \in Results(setter.ids) :
       /\ Built(setter.ids, result)
       /\ setter' = [setter EXCEPT !.at = "flag", !.ids = None, !.short = Short(result)]
  /\ UNCHANGED <<world, sel, truncated, data, due, sampler, lock>>

Flag ==
  /\ setter.at = "flag"
  /\ truncated' = setter.short
  /\ setter' = At(IF setter.again THEN "collect" ELSE "idle")
  /\ UNCHANGED <<world, sel, cache, data, due, sampler, lock, memory>>

-----------------------------------------------------------------------------
(* sample_due_and_run, sample_run_lua_sensor_sampling *)

SamplerGoes(step) == sampler' = At(step)

\* sample_startup_launcher_task
Launch ==
  /\ sampler.at = "off" /\ ready
  /\ SamplerGoes("wait")
  /\ UNCHANGED <<world, script, data, due, lock, memory>>

Gate == ~phone /\ ready

\* A sample that may not be taken is skipped.
Skip ==
  /\ sampler.at = "wait" /\ due /\ ~Gate
  /\ due' = FALSE
  /\ UNCHANGED <<world, script, data, sampler, lock, memory>>

\* The global buffers cannot be allocated: the run ends before it begins.
NoBuffers ==
  /\ sampler.at = "wait" /\ due /\ Gate
  /\ "buffers" \notin memory
  /\ SamplerGoes("report")
  /\ UNCHANGED <<world, script, data, due, lock, memory>>

\* Mutant: what the run before left is not cleared.
Cleared_Not == pending
\* sample_begin_sensor_data_update
Cleared == NoData

\* Mutant: an empty cache is not rebuilt.
First_NoRebuild == IF sel = None THEN "report" ELSE "run"

\* What a run starts with.
First == IF sel = None THEN "report" ELSE IF cache = None THEN "collect" ELSE "run"

Begin ==
  /\ sampler.at = "wait" /\ due /\ Gate
  /\ memory' = memory \cup {"buffers"}
  /\ pending' = Cleared /\ active' = TRUE
  /\ SamplerGoes(First)
  /\ UNCHANGED <<world, script, run, latest, lines, due, lock>>

\* The sampler rebuilds an empty cache itself.
CollectAgain ==
  /\ sampler.at = "collect"
  /\ sampler' = [At("build") EXCEPT !.ids = Ids(sel)]
  /\ UNCHANGED <<world, script, data, due, lock, memory>>

BuildAgain ==
  /\ sampler.at = "build"
  /\ \E result \in Results(sampler.ids) :
       /\ Built(sampler.ids, result)
       /\ sampler' = [At("flag") EXCEPT !.short = Short(result)]
  /\ UNCHANGED <<world, sel, truncated, setter, data, due, lock>>

FlagAgain ==
  /\ sampler.at = "flag"
  /\ truncated' = sampler.short
  /\ SamplerGoes("run")
  /\ UNCHANGED <<world, sel, cache, setter, data, due, lock, memory>>

\* A cache that is truncated or empty is not run.
Check ==
  /\ sampler.at = "run"
  /\ SamplerGoes(IF truncated \/ cache = None THEN "report" ELSE "take")
  /\ UNCHANGED <<world, script, data, due, lock, memory>>

\* The script owns the global buffer while it runs.  The setter may have emptied
\* the cache while the sampler waited.
Execute ==
  /\ sampler.at = "take"
  /\ lock = "free"
  /\ lock' = "sampler"
  /\ sampler' = [At("execute") EXCEPT !.ids = cache]
  /\ UNCHANGED <<world, script, data, due, memory>>

\* sample_update_latest_sensor_value, _type: where a value goes.
Field(f, d) == [d EXCEPT ![f] = run]

\* sample_ring_ensure_slot_storage: the next slot may be too short and not grow.
Fitted(n) == {n, n + 1}

\* sample_ring_push_payload: a full ring drops its oldest line first; a device
\* that only sends beacons keeps no lines.
Pushed(n) == {n} \cup Fitted(IF n = RingMax THEN n - 1 ELSE n)

\* sample_ensure_lua_result_workspace: without it a record is lost.
Workspace == memory' = memory \cup {"workspace"}

\* One record of the result: its value, unless it is no number, and a line for
\* the ring.
Record(f) ==
  /\ sampler.at = "execute" /\ sampler.ids # None
  /\ Workspace
  /\ \/ active /\ pending' = Field(f, pending) /\ UNCHANGED latest
     \/ ~active /\ latest' = Field(f, latest) /\ UNCHANGED pending
     \/ UNCHANGED <<pending, latest>>
  /\ lines' \in Pushed(lines)
  /\ UNCHANGED <<world, script, run, active, due, sampler, lock>>

\* sample_finish_sensor_data_update
Keeps(ok) == latest' = IF ok THEN pending ELSE latest

\* A script that fails gives no records: they are read from its result.  The
\* lock is given back however it ends.
Executed(ok) ==
  /\ sampler.at = "execute"
  /\ ok => sampler.ids # None
  /\ ok \/ pending = NoData
  /\ lock' = "free"
  /\ Keeps(ok)
  /\ active' = FALSE
  /\ SamplerGoes("report")
  /\ UNCHANGED <<world, script, run, pending, lines, due, memory>>

\* flush_sample_ring_with_ack drops the lines; the next sample is set.
Report ==
  /\ sampler.at = "report"
  /\ lines' = 0
  /\ due' = FALSE
  /\ active' = FALSE
  /\ run' = 3 - run
  /\ SamplerGoes("wait")
  /\ UNCHANGED <<world, script, pending, latest, lock, memory>>

Sampler ==
  \/ Launch \/ Skip \/ NoBuffers \/ Begin
  \/ CollectAgain \/ BuildAgain \/ FlagAgain \/ Check \/ Execute
  \/ \E f \in Fields : Record(f)
  \/ \E ok \in BOOLEAN : Executed(ok)
  \/ Report

Setter == Select \/ Commit \/ Collect \/ Build \/ Flag

Next == World \/ IsDue \/ LocksElsewhere \/ FreesElsewhere \/ Setter \/ Sampler

\* Time passes, the tasks run, a script ends, the other holder of the lock gives
\* it back, and memory is not short at every attempt.
Fairness ==
  /\ WF_vars(IsDue) /\ WF_vars(FreesElsewhere)
  /\ WF_vars(Launch \/ Skip \/ NoBuffers \/ Begin \/ CollectAgain \/ BuildAgain
               \/ FlagAgain \/ Check \/ Report)
  /\ SF_vars(Begin) /\ SF_vars(BuildAgain /\ cache' # None)
  /\ SF_vars(Execute)
  /\ WF_vars(\E ok \in BOOLEAN : Executed(ok))
  /\ WF_vars(Collect \/ Build \/ Flag)

Spec == Init /\ [][Next]_vars /\ Fairness

-----------------------------------------------------------------------------
(* Properties *)

\* The sensor data the beacon sends changes only when a run ends, and then as
\* a whole: it never mixes two runs and never shows half of one.
LatestIsOneRun ==
  [][latest' # latest => /\ active /\ ~active'
                         /\ \A f \in Fields : latest'[f] \in {0, run}]_vars

\* Once the phone has left and the radio is up, a stored script that is
\* selected goes on being sampled: whoever rebuilt the cache when, whatever
\* became of the runs before and of the memory.  The exception is a rebuild that
\* comes between the two writes of another: it may leave a cache that is never
\* empty, so never rebuilt, and marked as truncated, so never run.
Between ==
  \/ setter.at = "flag" /\ sampler.at \in {"build", "flag"}
  \/ sampler.at = "flag" /\ setter.at = "build"

KeepsSampling ==
  []~Between /\ <>[](Gate /\ sel \in Stored)
    => []<>(sampler.at = "execute" /\ sampler.ids # None)
=============================================================================
