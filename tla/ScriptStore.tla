---------------------------- MODULE ScriptStore ----------------------------
(***************************************************************************)
(* The upload of Lua scripts and the store that keeps them                 *)
(* (halow_sync_bridge.c, local_script_store.c).                            *)
(*                                                                         *)
(* One upload at a time is put together in a buffer that the BLE host task *)
(* and the USB task share without a lock.  The store keeps an index in RAM *)
(* and, in a flash partition, the index and a blob for each script.  The   *)
(* flash writes of a commit or a deletion take long; the other task, a     *)
(* failing write or a restart may come between them.                       *)
(***************************************************************************)
EXTENDS Naturals, Sequences, SequencesExt, FiniteSets

CONSTANTS
  Tasks,     \* the tasks that handle requests of the phones
  Ids,       \* script ids
  Sizes,     \* the sizes of an uploaded script, in chunks
  StoreMax   \* STORE_MAX_SCRIPTS

VARIABLES
  upload,   \* s_script_config_upload
  index,    \* s_meta: the ids, in ascending order
  loaded,   \* s_loaded
  flash,    \* the index in flash
  blob,     \* the scripts in flash: the origin of each chunk
  job,      \* what each task is writing
  hurt      \* history: scripts whose last change failed, was cut while it
            \* deleted, or overlapped with another change

vars == <<upload, index, loaded, flash, blob, job, hurt>>

NoUpload == [state |-> "none"]
Missing  == <<>>
Junk     == 0   \* a byte nobody wrote
Chunks   == Ids \cup {Junk}
Idle     == [at |-> "idle"]

\* A task that changes script id.  from: the upload buffer or the message;
\* place: where a deletion found the script in the index; alone: whether no
\* other task changed the store meanwhile.
Change(at, id, from, size, alone) ==
  [at |-> at, id |-> id, from |-> from, size |-> size, place |-> 0, alone |-> alone]

Busy(t)   == job[t].at # "idle"
Offsets   == UNION {0 .. size - 1 : size \in Sizes}
Listed(s) == ToSet(s)
\* in ascending order
Sorted(S) ==
  CHOOSE s \in [1 .. Cardinality(S) -> S] : \A i, j \in 1 .. Cardinality(S) : i < j => s[i] < s[j]
Active    == upload.state = "active"
Receives(id) == Active /\ upload.id = id

TypeOK ==
  /\ \/ upload = NoUpload
     \/ /\ upload.state = "active" /\ upload.id \in Ids
        /\ upload.total \in Sizes /\ upload.received \in 0 .. upload.total
        /\ upload.buffer \in [1 .. upload.total -> Chunks]
  /\ loaded \in BOOLEAN
  /\ Listed(index) \subseteq Ids /\ Listed(flash) \subseteq Ids
  /\ Len(index) <= StoreMax
  /\ \A id \in Ids : ToSet(blob[id]) \subseteq Chunks
  /\ hurt \subseteq Ids

-----------------------------------------------------------------------------
(* handle_script_config *)

Garbage(size) == [i \in 1 .. size |-> Junk]

\* script_config_upload_reset frees the buffer, also one that another task is
\* committing from.
Commits(t) == job[t].at # "idle" /\ job[t].from = "upload"
Freed(j)   == [u \in Tasks |-> IF Commits(u) /\ j[u] = job[u]
                               THEN [j[u] EXCEPT !.from = "freed"] ELSE j[u]]
Victims(S) == {job[u].id : u \in {v \in S : Commits(v)}}

\* BEGIN may carry the first chunk; without memory nothing is received.
Begin(t, id, total) ==
  /\ ~Busy(t)
  /\ \/ upload' = NoUpload
     \/ \E n \in {0, 1} :
          upload' = [state |-> "active", id |-> id, total |-> total, received |-> n,
                     buffer |-> [i \in 1 .. total |-> IF i <= n THEN id ELSE Junk]]
  /\ job' = Freed(job)
  /\ hurt' = hurt \cup Victims(Tasks)
  /\ UNCHANGED <<index, loaded, flash, blob>>

\* Mutant: a chunk of another script is taken.
Accepts_AnyId(id, offset) == Active /\ offset = upload.received /\ offset < upload.total

Accepts(id, offset) ==
  Receives(id) /\ offset = upload.received /\ offset < upload.total

WithChunk(id, offset) ==
  [upload EXCEPT !.buffer[offset + 1] = id, !.received = @ + 1]

Chunk(t, id, offset) ==
  /\ ~Busy(t)
  /\ Accepts(id, offset)
  /\ upload' = WithChunk(id, offset)
  /\ UNCHANGED <<index, loaded, flash, blob, job, hurt>>

Others(t) == {u \in Tasks \ {t} : Busy(u)}

\* A change may start while another task changes the store.
Starts(t, at, id, from, size) ==
  /\ job' = [u \in Tasks |->
       IF u = t THEN Change(at, id, from, size, Others(t) = {})
       ELSE IF Busy(u) THEN [job[u] EXCEPT !.alone = FALSE] ELSE Idle]
  /\ hurt' = IF Others(t) = {} THEN hurt
             ELSE hurt \cup {id} \cup {job[u].id : u \in Others(t)}

Complete(u) == u.received = u.total

\* COMMIT of the upload, with or without a last chunk.
Commit(t, id) ==
  /\ ~Busy(t) /\ Receives(id)
  /\ \/ upload' = upload
     \/ \E offset \in Offsets :
          Accepts(id, offset) /\ upload' = WithChunk(id, offset)
  /\ IF Complete(upload')
     THEN Starts(t, "list", id, "upload", upload'.total)
     ELSE UNCHANGED <<job, hurt>>
  /\ UNCHANGED <<index, loaded, flash, blob>>

\* COMMIT with a whole script in one chunk, without an upload of it.
CommitDirect(t, id) ==
  /\ ~Busy(t) /\ ~Receives(id)
  /\ Starts(t, "list", id, "message", 1)
  /\ UNCHANGED <<upload, index, loaded, flash, blob>>

Delete(t, id) ==
  /\ ~Busy(t)
  /\ Starts(t, "find", id, "message", 0)
  /\ UNCHANGED <<upload, index, loaded, flash, blob>>

-----------------------------------------------------------------------------
(* script_store_upsert and script_store_delete *)

\* The upload is over, whatever became of the commit: also an upload that
\* another task began meanwhile.
FromUpload(t) == job[t].from \in {"upload", "freed"}
Spoiled(t)    == IF FromUpload(t) THEN Victims(Tasks \ {t}) ELSE {}

Ends(t) ==
  LET done == [job EXCEPT ![t] = Idle] IN
    IF FromUpload(t)
    THEN upload' = NoUpload /\ job' = Freed(done)
    ELSE job' = done /\ UNCHANGED upload

Fails(t) ==
  /\ job[t].at \in {"blob", "save", "erase"}
  /\ Ends(t)
  /\ hurt' = hurt \cup {job[t].id} \cup Spoiled(t)
  /\ UNCHANGED <<index, loaded, flash, blob>>

\* load_index: tried once after a boot; when it fails the index stays empty.
Indexed == IF loaded THEN index ELSE flash

LoadFails(t) ==
  /\ job[t].at \in {"list", "find"} /\ ~loaded
  /\ loaded' = TRUE /\ index' = <<>>
  /\ Ends(t)
  /\ hurt' = hurt \cup Listed(flash) \cup {job[t].id} \cup Spoiled(t)
  /\ UNCHANGED <<flash, blob>>

Goes(t, at) == job' = [job EXCEPT ![t].at = at]

\* The index in RAM changes before anything is written.
List(t) ==
  /\ job[t].at = "list"
  /\ loaded' = TRUE
  /\ LET all == Listed(Indexed) \cup {job[t].id} IN
       /\ Cardinality(all) <= StoreMax
       /\ index' = Sorted(all)
  /\ Goes(t, "blob")
  /\ UNCHANGED <<upload, flash, blob, hurt>>

Full(t) ==
  /\ job[t].at = "list"
  /\ loaded' = TRUE /\ index' = Indexed
  /\ job[t].id \notin Listed(Indexed) /\ Len(Indexed) >= StoreMax
  /\ Ends(t)
  /\ hurt' = hurt \cup Spoiled(t)
  /\ UNCHANGED <<flash, blob>>

\* The script, then its name, type, version and buffer size.
WriteBlob(t) ==
  /\ job[t].at = "blob"
  /\ blob' = [blob EXCEPT ![job[t].id] =
       CASE job[t].from = "upload"  -> upload.buffer
         [] job[t].from = "freed"   -> Garbage(job[t].size)
         [] job[t].from = "message" -> <<job[t].id>>]
  /\ Goes(t, "save")
  /\ UNCHANGED <<upload, index, loaded, flash, hurt>>

SaveIndex(t) ==
  /\ job[t].at = "save"
  /\ flash' = index
  /\ Ends(t)
  /\ hurt' = IF job[t].alone /\ job[t].from # "freed" THEN hurt \ {job[t].id}
             ELSE hurt \cup Spoiled(t)
  /\ UNCHANGED <<index, loaded, blob>>

Find(t) ==
  /\ job[t].at = "find"
  /\ loaded' = TRUE /\ index' = Indexed
  /\ IF job[t].id \in Listed(Indexed)
     THEN /\ job' = [job EXCEPT ![t] = [@ EXCEPT !.at = "erase",
                      !.place = CHOOSE i \in DOMAIN Indexed : Indexed[i] = job[t].id]]
          /\ UNCHANGED upload
     ELSE Ends(t)
  /\ UNCHANGED <<flash, blob, hurt>>

\* The keys are erased first; from here a restart leaves a listed script
\* without a blob.
EraseBlob(t) ==
  /\ job[t].at = "erase"
  /\ blob' = [blob EXCEPT ![job[t].id] = Missing]
  /\ Goes(t, "drop")
  /\ UNCHANGED <<upload, index, loaded, flash, hurt>>

\* The entry at the place where the script was found is dropped; saving the
\* index may fail.
Dropped(t) ==
  IF job[t].place \in DOMAIN index THEN RemoveAt(index, job[t].place) ELSE Front(index)

Drop(t) ==
  /\ job[t].at = "drop"
  /\ index' = Dropped(t)
  /\ Ends(t)
  /\ \/ flash' = index' /\ hurt' = IF job[t].alone THEN hurt \ {job[t].id} ELSE hurt
     \/ UNCHANGED flash /\ hurt' = hurt \cup {job[t].id}
  /\ UNCHANGED <<loaded, blob>>

Deleting == {job[t].id : t \in {u \in Tasks : job[u].at = "drop"}}

Restart ==
  /\ upload' = NoUpload
  /\ index' = <<>> /\ loaded' = FALSE
  /\ job' = [t \in Tasks |-> Idle]
  /\ hurt' = hurt \cup Deleting
  /\ UNCHANGED <<flash, blob>>

-----------------------------------------------------------------------------
Init ==
  /\ upload = NoUpload
  /\ index = <<>> /\ loaded = FALSE /\ flash = <<>>
  /\ blob = [id \in Ids |-> Missing]
  /\ job = [t \in Tasks |-> Idle]
  /\ hurt = {}

Requests(t) ==
  \E id \in Ids :
    \/ \E total \in Sizes : Begin(t, id, total)
    \/ \E offset \in Offsets : Chunk(t, id, offset)
    \/ Commit(t, id) \/ CommitDirect(t, id) \/ Delete(t, id)

Stores(t) ==
  \/ Fails(t) \/ LoadFails(t) \/ List(t) \/ Full(t) \/ WriteBlob(t) \/ SaveIndex(t)
  \/ Find(t) \/ EraseBlob(t) \/ Drop(t)

Next == (\E t \in Tasks : Requests(t) \/ Stores(t)) \/ Restart

Spec == Init /\ [][Next]_vars

-----------------------------------------------------------------------------
(* Properties *)

(* A script in the store is whole: every chunk of it was uploaded for this  *)
(* script, none is missing, although two phones upload through one buffer,  *)
(* unless a phone began an upload while it was committed.                   *)
ScriptsWhole ==
  \A id \in Ids \ hurt : ToSet(blob[id]) \subseteq {id}

(* After a restart at any point the index in flash lists no script without  *)
(* a blob, which would keep every script from being read: only a deletion   *)
(* that was cut, a change that failed or two at once may leave one.         *)
ListedScriptsExist ==
  \A id \in Listed(flash) \ (hurt \cup Deleting) : blob[id] # Missing

(* What a script can be read from after a restart.                          *)
StoreIntact == ScriptsWhole /\ ListedScriptsExist
=============================================================================
