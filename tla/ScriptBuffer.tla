---------------------------- MODULE ScriptBuffer ----------------------------
(***************************************************************************)
(* The buffer a sensor script fills and the one peers are served from      *)
(* (sampling.c): two regions of PSRAM allocated at first use, a capacity a *)
(* script may set, appended and positioned writes, and the semaphore of    *)
(* the serving buffer, created by whichever of its users comes first, the  *)
(* sampler or the bridge.                                                  *)
(*                                                                         *)
(* A byte is what stands in it: the run that wrote it, 0 for a filled gap, *)
(* or a run that never comes for what the allocator leaves.  GlobalBuffer  *)
(* has the transfer to a peer.                                             *)
(***************************************************************************)
EXTENDS Naturals, Sequences

CONSTANTS
    MaxSize,    \* SAMPLE_SCRIPT_GLOBAL_BUFFER_MAX_SIZE
    Default,    \* SAMPLE_SCRIPT_GLOBAL_BUFFER_DEFAULT_SIZE
    MaxRuns,    \* bound: runs of the script
    MaxCalls    \* bound: calls of one run

VARIABLES
    working,    \* s_script_global_buffer is allocated
    serving,    \* s_script_serving_buffer is allocated
    capacity,   \* s_script_global_buffer_capacity
    mem,        \* the working buffer
    length,     \* s_script_global_buffer_length
    served,     \* the serving buffer up to s_script_serving_buffer_length
    semaphore,  \* s_script_serving_buffer_mutex: its creator, or "none"
    free,       \* the semaphore can be taken
    task,       \* steps of the sampler and of the bridge
    lease,      \* history: what the bridge found when it got the buffer
    run, calls, \* history: runs, and calls of this run
    since       \* history: the run that last reset the buffer

region == <<working, serving, capacity, mem, length>>
mutex  == <<semaphore, free>>
bounds == <<run, calls, since>>
vars   == <<region, served, mutex, task, lease, bounds>>

Users == {"sampler", "bridge"}
Goes(u, s) == task' = [task EXCEPT ![u] = s]
Smaller(m, n) == IF m < n THEN m ELSE n

----------------------------------------------------------------------------
\* heap_caps_malloc of what is missing; each may fail
Allocates == working' \in {working, TRUE} /\ serving' \in {serving, TRUE}

\* sample_script_global_buffer_set_capacity
SetCapacity(size) ==
    /\ Allocates
    /\ IF working' /\ serving'
       THEN capacity' = size /\ length' = Smaller(length, size)
       ELSE UNCHANGED <<capacity, length>>

(* sample_handle_sampling: a run needs both buffers.                       *)
Begin ==
    /\ task["sampler"] = "idle" /\ run < MaxRuns
    /\ run' = run + 1 /\ calls' = 0
    /\ IF capacity = 0 THEN SetCapacity(Default)
       ELSE UNCHANGED <<working, serving, capacity, length>>
    /\ Goes("sampler", IF capacity' = 0 THEN "idle" ELSE "runs")
    /\ UNCHANGED <<mem, served, mutex, lease, since>>

Call ==
    /\ task["sampler"] = "runs" /\ calls < MaxCalls
    /\ calls' = calls + 1
    /\ UNCHANGED <<working, serving, served, mutex, task, lease, run>>

\* util_init_global_buffer: sets a size or keeps the one there is, and resets
InitBuffer ==
    /\ Call
    /\ \E size \in 1 .. MaxSize : capacity' = size
    /\ length' = 0
    /\ since' = run
    /\ UNCHANGED mem

\* util_append_global_buffer
AppendBuffer(n) ==
    /\ Call
    /\ n <= capacity - length
    /\ mem' = [i \in DOMAIN mem |-> IF i \in length + 1 .. length + n THEN run ELSE mem[i]]
    /\ length' = length + n
    /\ UNCHANGED <<capacity, since>>

\* MUTANT: the gap is left as it is.
Put_Sparse(i, pos, n) ==
    IF i \in pos + 1 .. pos + n THEN run ELSE mem[i]

\* a byte after n bytes were written at pos: a gap is filled first
Put(i, pos, n) ==
    IF i \in pos + 1 .. pos + n THEN run
    ELSE IF i \in length + 1 .. pos THEN 0 ELSE mem[i]

\* util_write_global_buffer_at
WriteAt(pos, n) ==
    /\ Call
    /\ pos < capacity /\ n <= capacity - pos
    /\ mem' = [i \in DOMAIN mem |-> Put(i, pos, n)]
    /\ length' = IF pos + n > length THEN pos + n ELSE length
    /\ UNCHANGED <<capacity, since>>

\* a script that fails is not published
Fail ==
    /\ task["sampler"] = "runs"
    /\ Goes("sampler", "idle")
    /\ UNCHANGED <<region, served, mutex, lease, bounds>>

----------------------------------------------------------------------------
(* sample_script_serving_buffer_mutex_ensure: looked at, created, and put  *)
(* in place in a critical section unless another task was faster.          *)
Wants == [sampler |-> "runs", bridge |-> "idle"]

Ensure(u) ==
    /\ task[u] = Wants[u]
    /\ Goes(u, IF semaphore = "none" THEN "created" ELSE "ready")
    /\ UNCHANGED <<region, served, mutex, lease, bounds>>

Install(u) ==
    /\ task[u] = "created"
    /\ IF semaphore = "none" THEN semaphore' = u /\ free' = TRUE ELSE UNCHANGED mutex
    /\ Goes(u, "ready")
    /\ UNCHANGED <<region, served, lease, bounds>>

\* sample_script_global_buffer_publish_for_serving
Publish ==
    /\ task["sampler"] = "ready" /\ free
    /\ free' = FALSE
    /\ Goes("sampler", "copies")
    /\ UNCHANGED <<region, served, semaphore, lease, bounds>>

Copy ==
    /\ task["sampler"] = "copies"
    /\ served' = [i \in 1 .. length |-> mem[i]]
    /\ free' = TRUE
    /\ Goes("sampler", "idle")
    /\ UNCHANGED <<region, semaphore, lease, bounds>>

\* sample_script_global_buffer_acquire_serving, which does not wait
Acquire ==
    /\ task["bridge"] = "ready"
    /\ IF ~free THEN Goes("bridge", "idle") /\ UNCHANGED <<free, lease>>
       ELSE IF ~serving \/ served = <<>>
       THEN Goes("bridge", "idle") /\ UNCHANGED <<free, lease>>
       ELSE Goes("bridge", "sends") /\ free' = FALSE /\ lease' = served
    /\ UNCHANGED <<region, served, semaphore, bounds>>

\* sample_script_global_buffer_release_serving
Release ==
    /\ task["bridge"] = "sends"
    /\ free' = TRUE
    /\ lease' = <<>>
    /\ Goes("bridge", "idle")
    /\ UNCHANGED <<region, served, semaphore, bounds>>

----------------------------------------------------------------------------
Init ==
    /\ working = FALSE /\ serving = FALSE
    /\ capacity = 0 /\ length = 0
    /\ mem = [i \in 1 .. MaxSize |-> MaxRuns + 1]
    /\ served = <<>> /\ lease = <<>>
    /\ semaphore = "none" /\ free = FALSE
    /\ task = [u \in Users |-> "idle"]
    /\ run = 0 /\ calls = 0 /\ since = 0

Script ==
    \/ Begin \/ InitBuffer \/ Fail
    \/ \E n \in 1 .. 2 : AppendBuffer(n)
    \/ \E n \in 1 .. 2, pos \in 0 .. MaxSize - 1 : WriteAt(pos, n)
Serving == Publish \/ Copy \/ Acquire \/ Release \/ \E u \in Users : Ensure(u) \/ Install(u)

Next == Script \/ Serving

Spec == Init /\ [][Next]_vars

----------------------------------------------------------------------------
(* A published sample holds what scripts wrote since the buffer was last   *)
(* reset, and zeros between: nothing of an earlier sample and nothing the  *)
(* allocator left, however sparsely it was written and whatever the        *)
(* capacity was before (the comment in                                     *)
(* sample_script_global_buffer_write_at).                                  *)
NoLeftovers ==
    task["sampler"] = "copies" =>
        \A i \in 1 .. length : mem[i] = 0 \/ mem[i] \in since .. run

(* Whichever task creates the semaphore, one user has the serving buffer   *)
(* at a time and the bridge's copy does not change under it.               *)
OneUser ==
    /\ task["bridge"] = "sends" => task["sampler"] # "copies" /\ lease = served
    /\ free => task["bridge"] # "sends" /\ task["sampler"] # "copies"

SamplesAreClean == NoLeftovers /\ OneUser
=============================================================================
