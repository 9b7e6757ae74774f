----------------------------- MODULE BlobStore -----------------------------
(***************************************************************************)
(* The content-addressed blob store: files named by their hash, a row per   *)
(* hash with a reference count, the references the tasks take and release,  *)
(* the garbage collector, and start-up.                                     *)
(*                                                                          *)
(* As in TaskLifecycle every coroutine works on the one SQLite connection,  *)
(* one action is one awaited operation with the Python up to the next, and  *)
(* `db` is what the connection sees while `disk` is what was committed.     *)
(* Files are not transactional: they appear and disappear at once.          *)
(***************************************************************************)
EXTENDS Naturals, FiniteSets

CONSTANTS
    Hashes,          \* contents that are stored
    Runner,          \* the one of them that is whisper_runner.py
    Tasks,           \* task ids clients and jobs may use
    Coros,           \* coroutines that may be in progress at once
    Maint, Gc,       \* two of them: the maintenance loop and the GC loop
    Large,           \* contents written in a thread (OFFLOAD_THRESHOLD_BYTES)
    AdoptOld,        \* may a blob past its TTL be given a reference again?
    MaxUploads,      \* bound: PUT /blobs requests
    MaxSubmits,      \* bound: accepted token checks per task
    MaxCrashes       \* bound: restarts of the coordinator

None == "none"       \* an empty hash column

ASSUME StoreAssumption ==
    /\ Runner \in Hashes /\ None \notin Hashes \cup Tasks
    /\ IsFiniteSet(Tasks)
    /\ {Maint, Gc} \subseteq Coros /\ Maint # Gc
    /\ Large \subseteq Hashes
    /\ AdoptOld \in BOOLEAN
    /\ MaxUploads \in Nat /\ MaxSubmits \in Nat /\ MaxCrashes \in Nat

Columns == {"executable", "input", "output"}
Blob    == [known : BOOLEAN, refs : Nat, pin : BOOLEAN, old : BOOLEAN]
Holding == [Columns -> Hashes \cup {None}]
TaskRow == [phase : {"absent", "live", "finished", "expired", "gone"}, hash : Holding]
Table   == [blobs : [Hashes -> Blob], tasks : [Tasks -> TaskRow]]

VARIABLES
    db, disk,        \* the tables: on the connection, and committed
    file,            \* the hashes that have a file
    co,              \* what each coroutine is at
    told,            \* hashes PUT /blobs has answered, not collected since
    uploads, submits, crashes

vars == <<db, disk, file, co, told, uploads, submits, crashes>>

-----------------------------------------------------------------------------
NoBlob  == [known |-> FALSE, refs |-> 0, pin |-> FALSE, old |-> FALSE]
NewBlob == [NoBlob EXCEPT !.known = TRUE]
Nothing == [col \in Columns |-> None]
NoTask  == [phase |-> "absent", hash |-> Nothing]

Exists(tasks, t) == tasks[t].phase \in {"live", "finished", "expired"}

\* The columns of existing tasks that name h.
References(table, h) ==
    {p \in Tasks \X Columns :
        Exists(table.tasks, p[1]) /\ table.tasks[p[1]].hash[p[2]] = h}

Pinned(table, h) == table.blobs[h].known /\ table.blobs[h].pin

Recounted(table, h, count) ==
    IF table.blobs[h].known THEN [table.blobs[h] EXCEPT !.refs = count] ELSE table.blobs[h]

\* variant: the pin is forgotten
ReconciledUnpinned(table) ==
    [h \in Hashes |-> Recounted(table, h, Cardinality(References(table, h)))]

\* reconcile_ref_counts: the references that exist, plus one for a pin.
Reconciled(table) ==
    [h \in Hashes |-> Recounted(table, h,
        Cardinality(References(table, h)) + (IF table.blobs[h].pin THEN 1 ELSE 0))]

\* UPDATE blobs SET ref_count = ref_count + 1 WHERE hash = ?
Referenced(b) == IF b.known THEN [b EXCEPT !.refs = @ + 1] ELSE b

\* variant: the count is not kept from falling below zero
ReleasedUnclamped(b) == IF b.known THEN [b EXCEPT !.refs = @ - 1] ELSE b

\* UPDATE blobs SET ref_count = MAX(0, ref_count - 1) WHERE hash = ?
Released(b) == IF b.known /\ b.refs > 0 THEN [b EXCEPT !.refs = @ - 1] ELSE b

\* store_blob of the runner at start-up, its pin, and the reconciliation.  An
\* existing row is taken for the blob: the file is not looked at.
Seeded(table) ==
    [table EXCEPT !.blobs[Runner] =
        [(IF @.known THEN @ ELSE NewBlob) EXCEPT !.pin = TRUE]]

Started(table) == [Seeded(table) EXCEPT !.blobs = Reconciled(Seeded(table))]

SeededFiles(table, files) ==
    IF table.blobs[Runner].known THEN files ELSE files \cup {Runner}

-----------------------------------------------------------------------------
PCs == {"idle", "select", "write", "insert", "insert_commit",
        "ref", "commit", "set_get", "set_input", "pin",
        "release", "delete", "cleanup_commit",
        "gc_unlink", "gc_delete", "gc_select", "gc_commit"}

\* What a coroutine is doing: an upload, a create with its input, a create that
\* its prepare follows, a submit, a pin, a verdict, a cleanup, a collection.
Ops == {"none", "upload", "create", "transcribe", "prepare", "submit", "pin",
        "finish", "cleanup", "gc"}

Coroutine == [pc    : PCs,
              op    : Ops,
              hash  : Hashes \cup {None},   \* the blob it stores or adopts
              task  : Tasks \cup {None},
              cols  : SUBSET Columns,       \* columns still to reference or release
              held  : Holding,              \* the columns it read or wrote
              todo  : SUBSET Tasks,         \* cleanup: tasks its SELECT returned
              doomed: SUBSET Hashes,        \* GC: hashes its SELECT returned
              pinned: BOOLEAN]              \* GC: is it at the pinned blobs?

Idle == [pc |-> "idle", op |-> "none", hash |-> None, task |-> None, cols |-> {},
         held |-> Nothing, todo |-> {}, doomed |-> {}, pinned |-> FALSE]

Init ==
    /\ db = Started([blobs |-> [h \in Hashes |-> NoBlob],
                     tasks |-> [t \in Tasks |-> NoTask]])
    /\ disk = db
    /\ file = {Runner}
    /\ co = [k \in Coros |-> Idle]
    /\ told = {}
    /\ uploads = 0
    /\ submits = [t \in Tasks |-> 0]
    /\ crashes = 0

Free(k)      == k \notin {Maint, Gc} /\ co[k].pc = "idle"
Resume(k, c) == co' = [co EXCEPT ![k] = c]
At(c, pc)    == [c EXCEPT !.pc = pc]
Commit       == disk' = db /\ UNCHANGED db

SetBlob(h, b) == db' = [db EXCEPT !.blobs[h] = b]
SetTask(t, r) == db' = [db EXCEPT !.tasks[t] = r]

\* Stored contents are adopted, or uploaded again, before the blob is past its TTL.
Timely(h) == AdoptOld \/ ~db.blobs[h].old

\* A request that names a stored blob names one that PUT /blobs has answered.
Named(h) == h \in told /\ Timely(h)

-----------------------------------------------------------------------------
(* store_blob: SELECT, write the file, INSERT, commit.                      *)

Upload(k, h) ==
    /\ Free(k) /\ h # Runner /\ Timely(h) /\ uploads < MaxUploads
    /\ uploads' = uploads + 1
    /\ Resume(k, [At(Idle, "select") EXCEPT !.op = "upload", !.hash = h])
    /\ UNCHANGED <<db, disk, file, told, submits, crashes>>

\* Where the caller goes on when store_blob has returned its hash.
Stored(c) == IF c.op = "prepare" THEN At(c, "set_get") ELSE Idle

Answer(c) == told' = IF c.op = "upload" THEN told \cup {c.hash} ELSE told

StoreSelect(k) ==
    LET c == co[k] IN
    /\ c.pc = "select"
    /\ IF db.blobs[c.hash].known
       THEN Resume(k, Stored(c)) /\ Answer(c) /\ UNCHANGED file
       ELSE /\ IF c.hash \in Large
               THEN Resume(k, At(c, "write")) /\ UNCHANGED file
               ELSE Resume(k, At(c, "insert")) /\ file' = file \cup {c.hash}
            /\ UNCHANGED told
    /\ UNCHANGED <<db, disk, uploads, submits, crashes>>

StoreWrite(k) ==
    /\ co[k].pc = "write"
    /\ file' = file \cup {co[k].hash}
    /\ Resume(k, At(co[k], "insert"))
    /\ UNCHANGED <<db, disk, told, uploads, submits, crashes>>

\* The INSERT fails when another upload of the same content has come first: the
\* request is answered 500, a prepare tries again.
StoreInsert(k) ==
    LET c == co[k] IN
    /\ c.pc = "insert"
    /\ IF db.blobs[c.hash].known
       THEN /\ Resume(k, IF c.op = "prepare" THEN At(c, "select") ELSE Idle)
            /\ UNCHANGED db
       ELSE SetBlob(c.hash, NewBlob) /\ Resume(k, At(c, "insert_commit"))
    /\ UNCHANGED <<disk, file, told, uploads, submits, crashes>>

StoreCommit(k) ==
    LET c == co[k] IN
    /\ c.pc = "insert_commit"
    /\ Commit /\ Resume(k, Stored(c)) /\ Answer(c)
    /\ UNCHANGED <<file, uploads, submits, crashes>>

-----------------------------------------------------------------------------
(* References: create, set_queued, complete, update_cookies.                *)

\* A task whose input is stored (POST /tasks), or whose prepare will store one.
CreateRow(k, t, op, h, input) ==
    LET held == [Nothing EXCEPT !["executable"] = Runner, !["input"] = input] IN
    /\ Free(k) /\ db.tasks[t].phase = "absent" /\ disk.tasks[t].phase = "absent"
    /\ \A j \in Coros : co[j].task # t
    /\ SetTask(t, [phase |-> "live", hash |-> held])
    /\ Resume(k, [At(Idle, "ref") EXCEPT
                    !.op = op, !.task = t, !.hash = h, !.held = held,
                    !.cols = {col \in Columns : held[col] # None}])
    /\ UNCHANGED <<disk, file, told, uploads, submits, crashes>>

Create(k, t, h)     == Named(h) /\ CreateRow(k, t, "create", h, h)
Transcribe(k, t, h) == h # Runner /\ Timely(h) /\ CreateRow(k, t, "transcribe", h, None)

\* set_queued reads the task, writes its input and references it.
SetGet(k) ==
    LET c == co[k] IN
    /\ c.pc = "set_get"
    /\ Resume(k, IF db.tasks[c.task].phase = "live" THEN At(c, "set_input") ELSE Idle)
    /\ UNCHANGED <<db, disk, file, told, uploads, submits, crashes>>

SetInput(k) ==
    LET c == co[k] IN
    /\ c.pc = "set_input"
    /\ SetTask(c.task, [db.tasks[c.task] EXCEPT !.hash["input"] = c.hash])
    /\ Resume(k, [At(c, "ref") EXCEPT !.cols = {"input"},
                                      !.held = [Nothing EXCEPT !["input"] = c.hash]])
    /\ UNCHANGED <<disk, file, told, uploads, submits, crashes>>

\* complete(): the token has been accepted; UPDATE tasks SET output_hash = ?.
\* The token stays on a completed row, so a repeated submit gets here too, but not
\* for as long as the retention period of the row.
Submit(k, t, h) ==
    /\ Free(k) /\ db.tasks[t].phase \in {"live", "finished"}
    /\ db.tasks[t].hash["input"] # None
    /\ submits[t] < MaxSubmits
    /\ Named(h)
    /\ submits' = [submits EXCEPT ![t] = @ + 1]
    /\ SetTask(t, [db.tasks[t] EXCEPT !.hash["output"] = h])
    /\ Resume(k, [At(Idle, "ref") EXCEPT
                    !.op = "submit", !.task = t, !.hash = h, !.cols = {"output"},
                    !.held = [Nothing EXCEPT !["output"] = h]])
    /\ UNCHANGED <<disk, file, told, uploads, crashes>>

\* variant: the reference to the output is not taken
TakeReferenceNoOutput(k) ==
    LET c == co[k] IN
    \E col \in c.cols :
       /\ c.pc = "ref"
       /\ IF col = "output" THEN UNCHANGED db
          ELSE SetBlob(c.held[col], Referenced(db.blobs[c.held[col]]))
       /\ Resume(k, [c EXCEPT !.cols = @ \ {col},
                              !.pc = IF c.cols = {col} THEN "commit" ELSE "ref"])
       /\ UNCHANGED <<disk, file, told, uploads, submits, crashes>>

\* One UPDATE blobs per column.  Only complete() looks at its rowcount: a blob
\* that is not there undoes the output_hash, and all other uncommitted writes.
TakeReference(k) ==
    LET c == co[k] IN
    \E col \in c.cols :
       /\ c.pc = "ref"
       /\ IF c.op = "submit" /\ ~db.blobs[c.hash].known
          THEN db' = disk /\ Resume(k, Idle)
          ELSE /\ SetBlob(c.held[col], Referenced(db.blobs[c.held[col]]))
               /\ Resume(k, [c EXCEPT !.cols = @ \ {col},
                                      !.pc = IF c.cols = {col} THEN "commit" ELSE "ref"])
       /\ UNCHANGED <<disk, file, told, uploads, submits, crashes>>

\* The prepare of a transcription follows in the background: it stores its input.
ReferenceCommit(k) ==
    LET c == co[k] IN
    /\ c.pc = "commit"
    /\ Commit
    /\ Resume(k, IF c.op = "transcribe"
                 THEN [At(c, "select") EXCEPT !.op = "prepare"] ELSE Idle)
    /\ UNCHANGED <<file, told, uploads, submits, crashes>>

\* POST /transcribe/update-cookies: the file must exist; the pin is a reference.
Pin(k, h) ==
    /\ Free(k) /\ h # Runner /\ h \in file /\ Named(h)
    /\ Resume(k, [At(Idle, "pin") EXCEPT !.op = "pin", !.hash = h])
    /\ UNCHANGED <<db, disk, file, told, uploads, submits, crashes>>

PinUpdate(k) ==
    LET h == co[k].hash
        b == db.blobs[h] IN
    /\ co[k].pc = "pin"
    /\ IF b.pin THEN UNCHANGED db
       ELSE SetBlob(h, IF b.known THEN [Referenced(b) EXCEPT !.pin = TRUE] ELSE b)
    /\ Resume(k, At(co[k], "commit"))
    /\ UNCHANGED <<disk, file, told, uploads, submits, crashes>>

-----------------------------------------------------------------------------
(* Releases: cleanup_expired.                                               *)

\* A task comes to a verdict; TaskLifecycle says how.
Finish(k, t) ==
    /\ Free(k) /\ disk.tasks[t].phase = "live" /\ db.tasks[t].phase = "live"
    /\ SetTask(t, [db.tasks[t] EXCEPT !.phase = "finished"])
    /\ Resume(k, [At(Idle, "commit") EXCEPT !.op = "finish", !.task = t])
    /\ UNCHANGED <<disk, file, told, uploads, submits, crashes>>

\* The next task the SELECT has returned, with its hashes as they were read.
NextTask(c) ==
    IF c.todo = {} THEN At(c, "cleanup_commit")
    ELSE LET t == CHOOSE u \in c.todo : TRUE IN
         [c EXCEPT !.pc = "release", !.task = t, !.todo = @ \ {t},
                   !.held = db.tasks[t].hash,
                   !.cols = {col \in Columns : db.tasks[t].hash[col] # None}]

\* The retention period ends: no handler is at work on the task any more.
Expire(t) ==
    /\ db.tasks[t].phase = "finished" /\ disk.tasks[t].phase = "finished"
    /\ \A k \in Coros : co[k].task # t
    /\ SetTask(t, [db.tasks[t] EXCEPT !.phase = "expired"])
    /\ disk' = [disk EXCEPT !.tasks[t].phase = "expired"]
    /\ UNCHANGED <<file, co, told, uploads, submits, crashes>>

CleanupSelect ==
    /\ co[Maint].pc = "idle"
    /\ Resume(Maint, NextTask([Idle EXCEPT
                !.op = "cleanup", !.todo = {t \in Tasks : db.tasks[t].phase = "expired"}]))
    /\ UNCHANGED <<db, disk, file, told, uploads, submits, crashes>>

\* variant: the output is not released
ReleaseNoOutput(k) ==
    LET c == co[k] IN
    \E col \in c.cols :
       /\ c.pc = "release"
       /\ IF col = "output" THEN UNCHANGED db
          ELSE SetBlob(c.held[col], Released(db.blobs[c.held[col]]))
       /\ Resume(k, [c EXCEPT !.cols = @ \ {col},
                              !.pc = IF c.cols = {col} THEN "delete" ELSE "release"])
       /\ UNCHANGED <<disk, file, told, uploads, submits, crashes>>

Release(k) ==
    LET c == co[k] IN
    \E col \in c.cols :
       /\ c.pc = "release"
       /\ SetBlob(c.held[col], Released(db.blobs[c.held[col]]))
       /\ Resume(k, [c EXCEPT !.cols = @ \ {col},
                              !.pc = IF c.cols = {col} THEN "delete" ELSE "release"])
       /\ UNCHANGED <<disk, file, told, uploads, submits, crashes>>

DeleteTask(k) ==
    LET c == co[k] IN
    /\ c.pc = "delete"
    /\ SetTask(c.task, [phase |-> "gone", hash |-> Nothing])
    /\ Resume(k, NextTask(c))
    /\ UNCHANGED <<disk, file, told, uploads, submits, crashes>>

CleanupCommit(k) ==
    /\ co[k].pc = "cleanup_commit"
    /\ Commit /\ Resume(k, Idle)
    /\ UNCHANGED <<file, told, uploads, submits, crashes>>

-----------------------------------------------------------------------------
(* Garbage collection, time and crashes.                                    *)

\* run_gc collects the pinned blobs first, then the others, by the same test.
Collectable(pin) ==
    {h \in Hashes : LET b == db.blobs[h] IN b.known /\ b.pin = pin /\ b.refs = 0 /\ b.old}

\* The rows of a SELECT of run_gc are unlinked one operation later.
Doom(pinned) ==
    Resume(Gc, [At(Idle, "gc_unlink") EXCEPT !.op = "gc", !.pinned = pinned,
                                             !.doomed = Collectable(pinned)])

GcStart ==
    /\ co[Gc].pc = "idle"
    /\ Doom(TRUE)
    /\ UNCHANGED <<db, disk, file, told, uploads, submits, crashes>>

GcUnlink ==
    /\ co[Gc].pc = "gc_unlink"
    /\ file' = file \ co[Gc].doomed
    /\ told' = told \ co[Gc].doomed
    /\ Resume(Gc, At(co[Gc], "gc_delete"))
    /\ UNCHANGED <<db, disk, uploads, submits, crashes>>

\* The DELETE tests every row again: its rows need not be those unlinked.
GcDelete ==
    LET gone == Collectable(co[Gc].pinned) IN
    /\ co[Gc].pc = "gc_delete"
    /\ db' = [db EXCEPT !.blobs = [h \in Hashes |-> IF h \in gone THEN NoBlob ELSE @[h]]]
    /\ told' = told \ gone
    /\ Resume(Gc, At(co[Gc], IF co[Gc].pinned THEN "gc_select" ELSE "gc_commit"))
    /\ UNCHANGED <<disk, file, uploads, submits, crashes>>

GcSelect ==
    /\ co[Gc].pc = "gc_select"
    /\ Doom(FALSE)
    /\ UNCHANGED <<db, disk, file, told, uploads, submits, crashes>>

GcCommit ==
    /\ co[Gc].pc = "gc_commit"
    /\ Commit /\ Resume(Gc, Idle)
    /\ UNCHANGED <<file, told, uploads, submits, crashes>>

\* The blob passes its TTL; no handler takes that long with one it adopts.
Age(h) ==
    /\ db.blobs[h].known /\ ~db.blobs[h].old
    /\ \A k \in Coros : co[k].hash # h
    /\ SetBlob(h, [db.blobs[h] EXCEPT !.old = TRUE])
    /\ disk' = [disk EXCEPT !.blobs[h].old = @ \/ disk.blobs[h].known]
    /\ UNCHANGED <<file, co, told, uploads, submits, crashes>>

\* The process dies and starts again on the committed tables and the files.
Restart ==
    /\ crashes < MaxCrashes
    /\ crashes' = crashes + 1
    /\ disk' = Started(disk)
    /\ db' = disk'
    /\ file' = SeededFiles(disk, file)
    /\ co' = [k \in Coros |-> Idle]
    /\ UNCHANGED <<told, uploads, submits>>

-----------------------------------------------------------------------------
\* What a coroutine in progress does next, whatever it is.
Step(k) ==
    \/ StoreSelect(k) \/ StoreWrite(k) \/ StoreInsert(k) \/ StoreCommit(k)
    \/ SetGet(k) \/ SetInput(k) \/ TakeReference(k) \/ ReferenceCommit(k) \/ PinUpdate(k)
    \/ Release(k) \/ DeleteTask(k) \/ CleanupCommit(k)

Collect == GcStart \/ GcUnlink \/ GcDelete \/ GcSelect \/ GcCommit

Request(k) ==
    \E h \in Hashes :
        \/ Upload(k, h) \/ Pin(k, h)
        \/ \E t \in Tasks : Create(k, t, h) \/ Transcribe(k, t, h) \/ Submit(k, t, h)

Next ==
    \/ \E k \in Coros : Step(k) \/ Request(k) \/ \E t \in Tasks : Finish(k, t)
    \/ CleanupSelect
    \/ Collect
    \/ \E t \in Tasks : Expire(t)
    \/ \E h \in Hashes : Age(h)
    \/ Restart

Spec == Init /\ [][Next]_vars

\* What has begun goes on; the two loops come round; time passes.
FairSpec ==
    /\ Spec
    /\ \A k \in Coros : WF_vars(Step(k))
    /\ WF_vars(Collect) /\ WF_vars(CleanupSelect)
    /\ \A h \in Hashes : WF_vars(Age(h))

-----------------------------------------------------------------------------
TypeOK ==
    /\ db \in Table /\ disk \in Table
    /\ file \subseteq Hashes /\ told \subseteq Hashes
    /\ co \in [Coros -> Coroutine]
    /\ uploads \in 0..MaxUploads /\ crashes \in 0..MaxCrashes
    /\ submits \in [Tasks -> 0..MaxSubmits]

\* Is h named by a task, within its retention period, or pinned?
Needed(h) ==
    \/ Pinned(db, h)
    \/ \E p \in References(db, h) : db.tasks[p[1]].phase # "expired"

\* What a task names, or a pin keeps, can be served: GC never takes the file of a
\* blob that was adopted within its TTL, while nothing restarts (run_gc, blob_store.py).
BlobsKept == \A h \in Hashes : Needed(h) => h \in file

\* "This keeps ref_count == (task references + pin)" (store_blob): whenever no
\* handler is between its statements, if a result is accepted once and nothing restarts.
RefsExact ==
    (\A k \in Coros : co[k].pc = "idle") => db.blobs = Reconciled(db)

\* A blob nothing names loses its row, in spite of crashes, unless it is adopted
\* again: its count "reliably reaches 0" (store_blob) and GC comes round.
Reclaimed ==
    \A h \in Hashes :
        (db.blobs[h].known /\ ~Pinned(db, h) /\ References(db, h) = {})
            ~> (~db.blobs[h].known \/ Pinned(db, h) \/ References(db, h) # {})
=============================================================================
