--------------------------- MODULE TaskLifecycle ---------------------------
(***************************************************************************)
(* The life of the tasks in the coordinator, one await at a time.           *)
(*                                                                          *)
(* The coordinator is one asyncio process in which every request handler,   *)
(* background prepare and maintenance tick is a coroutine, and all of them  *)
(* share ONE SQLite connection: each awaited execute / commit / rollback is *)
(* a point where the others run, they all read each other's uncommitted     *)
(* writes, a commit makes everybody's pending writes durable and a rollback *)
(* discards everybody's.  An action here is one such database operation     *)
(* with the Python that follows it up to the next await.                    *)
(*                                                                          *)
(*   db    the table as the connection sees it                              *)
(*   disk  the table as it was last committed                               *)
(*   co    what each coroutine is at                                        *)
(***************************************************************************)
EXTENDS TaskTable, FiniteSets, FiniteSetsExt

CONSTANTS
    NumTasks,        \* tasks clients submit, numbered in order of creation
    Coros,           \* coroutines that may be in progress at once
    Maint,           \* the one of them that is the maintenance loop
    Capabilities,    \* for each kind of worker, the set of tasks it can run
    QueueLimit,      \* get_queued(limit)
    PrepareRetries,  \* run_prepare(max_retries)
    JobTasks,        \* the tasks that belong to one channel job
    MaxToken,        \* bound: assignments made
    Unstored,        \* the assignments whose output the blob store does not hold
    MaxCrashes       \* bound: restarts of the coordinator

Tasks  == 1..NumTasks
Tokens == 1..MaxToken

ASSUME LifecycleAssumption ==
    /\ NumTasks \in Nat /\ PrepareRetries \in Nat
    /\ MaxToken \in Nat /\ MaxCrashes \in Nat /\ QueueLimit \in Nat \ {0}
    /\ Maint \in Coros
    /\ JobTasks \subseteq Tasks
    /\ Capabilities \subseteq SUBSET Tasks
    /\ Unstored \subseteq Tokens

VARIABLES
    db, disk, co,
    made,            \* tasks submitted so far: 1..made
    issued,          \* assignment tokens written so far: 1..issued
    holder,          \* holder[tok]: the worker run that was handed tok
    acked,           \* the tokens whose submit was answered accepted: true
    crashes

vars == <<db, disk, co, made, issued, holder, acked, crashes>>

-----------------------------------------------------------------------------
Ops == {"none", "create", "prepare", "pull", "submit", "error", "beat",
        "stale", "cancel", "job", "cleanup"}

\* The next database operation of a coroutine.
PCs == {"idle", "get", "update", "commit",               \* transition()
        "create_commit",
        "fetch", "sq_get", "sq_input", "sq_commit", "mf_commit",
        "assign", "assign_commit",
        "output", "ref", "out_commit", "rollback", "touch", "touch_commit",
        "beat_update", "job_commit",
        "delete", "expire", "cleanup_commit"}

Coroutine == [pc    : PCs,
              op    : Ops,
              task  : Nat,
              tok   : Nat,
              want  : Wanted \cup {"absent"},   \* transition(): the state asked for
              seen  : RowState,                 \* transition(): the state it read
              retry : BOOLEAN,                  \* transition(): can_retry as read
              ok    : BOOLEAN,                  \* rowcount > 0
              todo  : SUBSET Tasks,             \* rows a loop has still to visit
              tries : Nat]                      \* failed prepare attempts

Idle == [pc |-> "idle", op |-> "none", task |-> 0, tok |-> NoToken,
         want |-> "absent", seen |-> "absent", retry |-> FALSE, ok |-> FALSE,
         todo |-> {}, tries |-> 0]

\* A run of a task on a worker, from the pull that got the token to the last
\* submit attempt (worker/loop.py): it heartbeats while "running" and submits
\* while "finishing".
NoRun == [task |-> 0, phase |-> "none"]
Run   == [task : Nat, phase : {"none", "running", "finishing", "done"}]

Start(op, t) == [Idle EXCEPT !.op = op, !.task = t]

At(c, pc)    == [c EXCEPT !.pc = pc]

\* A call of transition(t, want, tok): the SELECT is its first operation.
Ask(c, want) == [c EXCEPT !.pc = "get", !.want = want]

Reset(c)     == [c EXCEPT !.seen = "absent", !.retry = FALSE, !.ok = FALSE]

\* requeue_stale's loop over the ids its SELECT returned, oldest first.
StaleLoop(todo) ==
    IF todo = {} THEN Idle
    ELSE Ask([Start("stale", Min(todo)) EXCEPT !.todo = todo \ {Min(todo)}],
             "timeout")

Init ==
    /\ db = [t \in Tasks |-> AbsentRow]
    /\ disk = db
    /\ co = [k \in Coros |-> Idle]
    /\ made = 0
    /\ issued = 0
    /\ holder = [tok \in Tokens |-> NoRun]
    /\ acked = {}
    /\ crashes = 0

\* A request's handler may start in any coroutine but the maintenance loop.
Free(k) == k # Maint /\ co[k].pc = "idle"

UpdateRow(t, r) == db' = [db EXCEPT ![t] = r]
Resume(k, c)    == co' = [co EXCEPT ![k] = c]

\* commit() makes durable whatever any coroutine has written.
Commit == disk' = db /\ UNCHANGED db

rows  == <<db, disk>>
ghost == <<made, issued, holder, acked, crashes>>

-----------------------------------------------------------------------------
(* transition(): SELECT, UPDATE ... WHERE id = ? AND state = ?, commit.     *)

\* Where the caller goes on when its transition returns ok.
Returned(c, ok) ==
    CASE c.op = "prepare" /\ c.want = "downloading" -> At(Reset(c), "fetch")
      [] c.op = "prepare" /\ c.want = "pending"     -> Ask(Reset(c), "downloading")
      [] c.op = "submit" /\ ~ok                     -> At(Reset(c), "touch")
      [] c.op = "stale"                             -> StaleLoop(c.todo)
      [] OTHER                                      -> Idle

\* Only an error report passes its token on to transition().
PassedToken(c) == IF c.op = "error" THEN c.tok ELSE NoToken

\* The SELECT and the checks on what it read.
Selected(c) ==
    LET r == db[c.task] IN
    IF Permits(r, c.want, PassedToken(c))
    THEN [c EXCEPT !.pc = "update", !.seen = r.state,
                   !.retry = c.want = "timeout" /\ CanRetry(r)]
    ELSE Returned(c, FALSE)

TransitionGet(k) ==
    /\ co[k].pc = "get"
    /\ Resume(k, Selected(co[k]))
    /\ UNCHANGED <<rows, ghost>>

\* variant: the UPDATE without its AND state = ?
TransitionUpdateUnguarded(k) ==
    LET c == co[k] IN
    /\ c.pc = "update"
    /\ UpdateRow(c.task, Transitioned(db[c.task], c.want, c.retry))
    /\ Resume(k, [c EXCEPT !.pc = "commit", !.ok = TRUE])
    /\ UNCHANGED <<disk, ghost>>

TransitionUpdate(k) ==
    LET c   == co[k]
        hit == db[c.task].state = c.seen IN
    /\ c.pc = "update"
    /\ IF hit THEN UpdateRow(c.task, Transitioned(db[c.task], c.want, c.retry))
              ELSE UNCHANGED db
    /\ Resume(k, [c EXCEPT !.pc = "commit", !.ok = hit])
    /\ UNCHANGED <<disk, ghost>>

TransitionCommit(k) ==
    LET c == co[k] IN
    /\ c.pc = "commit"
    /\ Commit
    /\ Resume(k, Returned(c, c.ok))
    /\ acked' = IF c.op = "submit" /\ c.ok THEN acked \cup {c.tok} ELSE acked
    /\ UNCHANGED <<made, issued, holder, crashes>>

-----------------------------------------------------------------------------
(* Submission and preparation of a task.                                    *)

\* POST /tasks inserts a queued row, POST /transcribe and a channel job a
\* pending one that a background prepare then takes over.
Create(k, s) ==
    LET t == made + 1 IN
    /\ Free(k) /\ made < NumTasks
    /\ made' = t
    /\ UpdateRow(t, NewRow(s))
    /\ Resume(k, [At(Start("create", t), "create_commit") EXCEPT
                    !.want = IF s = "pending" THEN "downloading" ELSE "absent"])
    /\ UNCHANGED <<disk, issued, holder, acked, crashes>>

CreateCommit(k) ==
    LET c == co[k] IN
    /\ c.pc = "create_commit"
    /\ Commit
    /\ Resume(k, IF c.want = "downloading"
                 THEN Ask(Start("prepare", c.task), "downloading") ELSE Idle)
    /\ UNCHANGED ghost

\* prepare_fn() returns an input hash ...
Fetched(k) ==
    /\ co[k].pc = "fetch"
    /\ Resume(k, At(co[k], "sq_get"))
    /\ UNCHANGED <<rows, ghost>>

\* ... or raises: back to pending for another attempt, or mark_failed.
FetchFailed(k) ==
    LET c == co[k] IN
    /\ c.pc = "fetch"
    /\ Resume(k, IF c.tries < PrepareRetries
                 THEN Ask([c EXCEPT !.tries = @ + 1], "pending")
                 ELSE At(c, "mf_commit"))
    /\ UNCHANGED <<rows, ghost>>

\* mark_failed: the error text is committed, then the transition asked for.
MarkFailed(k) ==
    /\ co[k].pc = "mf_commit"
    /\ Commit
    /\ Resume(k, Ask(co[k], "failed"))
    /\ UNCHANGED ghost

\* set_queued: a SELECT, the UPDATE of input_hash, its commit, the transition.
SetQueuedGet(k) ==
    LET c == co[k] IN
    /\ c.pc = "sq_get"
    /\ Resume(k, IF db[c.task].state \in {"pending", "downloading"}
                 THEN At(c, "sq_input") ELSE Idle)
    /\ UNCHANGED <<rows, ghost>>

\* variant: the hash is recorded only on a task still pending
SetQueuedInputPending(k) ==
    LET c == co[k] IN
    /\ c.pc = "sq_input"
    /\ UpdateRow(c.task, [db[c.task] EXCEPT !.input = @ \/ db[c.task].state = "pending"])
    /\ Resume(k, At(c, "sq_commit"))
    /\ UNCHANGED <<disk, ghost>>

SetQueuedInput(k) ==
    LET c == co[k] IN
    /\ c.pc = "sq_input"
    /\ IF Exists(db[c.task])
       THEN UpdateRow(c.task, [db[c.task] EXCEPT !.input = TRUE, !.iso = FALSE])
       ELSE UNCHANGED db
    /\ Resume(k, At(c, "sq_commit"))
    /\ UNCHANGED <<disk, ghost>>

SetQueuedCommit(k) ==
    /\ co[k].pc = "sq_commit"
    /\ Commit
    /\ Resume(k, Ask(co[k], "queued"))
    /\ UNCHANGED ghost

-----------------------------------------------------------------------------
(* Pull: list the oldest queued rows, take the first the worker can run.    *)

\* SELECT ... WHERE state = 'queued' ORDER BY created_at LIMIT ?
Listed(limit) ==
    LET queued == {t \in Tasks : db[t].state = "queued"} IN
    {t \in queued : Cardinality({u \in queued : u < t}) < limit}

Pull(k, caps) ==
    /\ Free(k)
    /\ Listed(QueueLimit) \cap caps # {}
    /\ Resume(k, [At(Start("pull", 0), "assign") EXCEPT
                    !.todo = Listed(QueueLimit) \cap caps])
    /\ UNCHANGED <<rows, ghost>>

\* assign(): UPDATE ... WHERE id = ? AND state = 'queued'.
AssignUpdate(k) ==
    LET c == co[k]
        t == Min(c.todo) IN
    /\ c.pc = "assign"
    /\ \/ /\ db[t].state = "queued" /\ issued < MaxToken
          /\ issued' = issued + 1
          /\ UpdateRow(t, Assigned(db[t], issued'))
          /\ Resume(k, [At(c, "assign_commit") EXCEPT
                          !.task = t, !.tok = issued', !.ok = TRUE,
                          !.todo = @ \ {t}])
       \/ /\ db[t].state # "queued"
          /\ Resume(k, [At(c, "assign_commit") EXCEPT
                          !.task = t, !.ok = FALSE, !.todo = @ \ {t}])
          /\ UNCHANGED <<db, issued>>
    /\ UNCHANGED <<disk, made, holder, acked, crashes>>

\* The worker is answered with the token, or the next row of the list is tried.
AssignCommit(k) ==
    LET c == co[k] IN
    /\ c.pc = "assign_commit"
    /\ Commit
    /\ \/ /\ c.ok
          /\ holder' = [holder EXCEPT ![c.tok] = [task |-> c.task, phase |-> "running"]]
          /\ Resume(k, Idle)
       \/ /\ ~c.ok
          /\ Resume(k, IF c.todo = {} THEN Idle
                       ELSE [At(Start("pull", 0), "assign") EXCEPT !.todo = c.todo])
          /\ UNCHANGED holder
    /\ UNCHANGED <<made, issued, acked, crashes>>

-----------------------------------------------------------------------------
(* What the worker that was handed a token does with it.                    *)

\* Heartbeat while the task runs.  One that is answered task_valid: false
\* aborts the run, and nothing is uploaded or submitted.
Heartbeat(k, tok) ==
    LET t == holder[tok].task IN
    /\ Free(k) /\ holder[tok].phase = "running"
    /\ IF db[t].state = "assigned" /\ db[t].token = tok
       THEN /\ Resume(k, [At(Start("beat", t), "beat_update") EXCEPT !.tok = tok])
            /\ UNCHANGED holder
       ELSE /\ holder' = [holder EXCEPT ![tok].phase = "done"]
            /\ UNCHANGED co
    /\ UNCHANGED <<rows, made, issued, acked, crashes>>

\* The run is over; the heartbeats stop and upload and submit begin.
RunEnds(tok) ==
    /\ holder[tok].phase = "running"
    /\ holder' = [holder EXCEPT ![tok].phase = "finishing"]
    /\ UNCHANGED <<rows, co, made, issued, acked, crashes>>

\* The worker dies, or has made its last submit attempt.
WorkerLeaves(tok) ==
    /\ holder[tok].phase \in {"running", "finishing"}
    /\ holder' = [holder EXCEPT ![tok].phase = "done"]
    /\ UNCHANGED <<rows, co, made, issued, acked, crashes>>

\* A successful result: complete() reads the token of the row and compares.
\* A refused submit still touches the task.
SubmitCheck(k, tok) ==
    LET t == holder[tok].task IN
    /\ Free(k) /\ holder[tok].phase = "finishing"
    /\ Resume(k, [At(Start("submit", t),
                     IF Exists(db[t]) /\ db[t].token = tok THEN "output" ELSE "touch")
                  EXCEPT !.tok = tok])
    /\ UNCHANGED <<rows, ghost>>

\* variant: output_hash is left for later
SubmitOutputSkipped(k) ==
    /\ co[k].pc = "output"
    /\ Resume(k, At(co[k], "ref"))
    /\ UNCHANGED <<rows, ghost>>

\* UPDATE tasks SET output_hash = ? WHERE id = ?
SubmitOutput(k) ==
    LET c == co[k] IN
    /\ c.pc = "output"
    /\ IF Exists(db[c.task])
       THEN UpdateRow(c.task, [db[c.task] EXCEPT !.out = c.tok, !.iso = FALSE])
       ELSE UNCHANGED db
    /\ Resume(k, At(c, "ref"))
    /\ UNCHANGED <<disk, ghost>>

\* UPDATE blobs SET ref_count = ref_count + 1: its rowcount says whether the
\* store holds the output.  A worker of this repository uploads before it
\* submits, so Unstored is {} unless an upload was skipped or collected.
SubmitRef(k) ==
    /\ co[k].pc = "ref"
    /\ Resume(k, At(co[k], IF co[k].tok \in Unstored THEN "rollback" ELSE "out_commit"))
    /\ UNCHANGED <<rows, ghost>>

\* rollback() undoes every coroutine's uncommitted writes.
SubmitRollback(k) ==
    /\ co[k].pc = "rollback"
    /\ db' = disk
    /\ Resume(k, At(co[k], "touch"))
    /\ UNCHANGED <<disk, ghost>>

SubmitCommit(k) ==
    /\ co[k].pc = "out_commit"
    /\ Commit
    /\ Resume(k, Ask(co[k], "completed"))
    /\ UNCHANGED ghost

\* _touch_task, and the same UPDATE in the heartbeat handler.
SignalUpdate(k) ==
    LET c == co[k] IN
    /\ c.pc \in {"touch", "beat_update"}
    /\ IF Exists(db[c.task]) THEN UpdateRow(c.task, Signalled(db[c.task]))
                             ELSE UNCHANGED db
    /\ Resume(k, At(c, "touch_commit"))
    /\ UNCHANGED <<disk, ghost>>

SignalCommit(k) ==
    /\ co[k].pc = "touch_commit"
    /\ Commit
    /\ Resume(k, Idle)
    /\ UNCHANGED ghost

\* A result with a non-zero exit code asks for the task to be requeued.
ErrorReport(k, tok) ==
    LET t == holder[tok].task IN
    /\ Free(k) /\ holder[tok].phase = "finishing"
    /\ Exists(db[t]) /\ db[t].token = tok
    /\ Resume(k, Ask([Start("error", t) EXCEPT !.tok = tok], "timeout"))
    /\ UNCHANGED <<rows, ghost>>

-----------------------------------------------------------------------------
(* The maintenance loop, cancellation, time and crashes.                    *)

\* An assigned row goes without a signal for longer than stale_after_sec.
Silence(t) ==
    /\ db[t].state = "assigned" /\ ~db[t].silent
    /\ UpdateRow(t, [db[t] EXCEPT !.silent = TRUE])
    /\ disk' = [disk EXCEPT ![t].silent = disk[t].state = "assigned"]
    /\ UNCHANGED <<co, ghost>>

StaleRows == {t \in Tasks : db[t].state = "assigned" /\ db[t].silent}

\* requeue_stale: the SELECT; each row then goes through transition(TIMEOUT).
StaleSelect ==
    /\ co[Maint].pc = "idle" /\ StaleRows # {}
    /\ Resume(Maint, StaleLoop(StaleRows))
    /\ UNCHANGED <<rows, ghost>>

\* cleanup_expired: `old` are the finished rows past the retention period (their
\* verdict was committed long ago), deleted one by one ...
CleanupSelect(old) ==
    /\ co[Maint].pc = "idle"
    /\ \A t \in old : /\ db[t].state \in Terminal /\ ~db[t].iso
                      /\ disk[t].state = db[t].state
    /\ Resume(Maint, [At(Start("cleanup", 0), IF old = {} THEN "expire" ELSE "delete")
                      EXCEPT !.todo = old])
    /\ UNCHANGED <<rows, ghost>>

CleanupDelete(k) ==
    LET c == co[k]
        t == Min(c.todo) IN
    /\ c.pc = "delete"
    /\ UpdateRow(t, Deleted(db[t]))
    /\ Resume(k, [c EXCEPT !.todo = @ \ {t},
                           !.pc = IF c.todo = {t} THEN "expire" ELSE "delete"])
    /\ UNCHANGED <<disk, ghost>>

\* ... then the pending rows that are too old are failed, and all is committed.
CleanupExpire(k) ==
    /\ co[k].pc = "expire"
    /\ \E old \in SUBSET {t \in Tasks : db[t].state = "pending"} :
          db' = [t \in Tasks |-> IF t \in old THEN Moved(db[t], "failed") ELSE db[t]]
    /\ Resume(k, At(co[k], "cleanup_commit"))
    /\ UNCHANGED <<disk, ghost>>

CleanupCommit(k) ==
    /\ co[k].pc = "cleanup_commit"
    /\ Commit
    /\ Resume(k, Idle)
    /\ UNCHANGED ghost

\* DELETE /tasks/{id}
Cancel(k, t) ==
    /\ Free(k) /\ db[t].state \in {"pending", "downloading", "queued", "assigned"}
    /\ Resume(k, Selected(Ask(Start("cancel", t), "cancelled")))
    /\ UNCHANGED <<rows, ghost>>

\* cancel_job: one UPDATE for all the unfinished tasks of the job.
CancelJob(k) ==
    /\ Free(k) /\ \E t \in JobTasks : Exists(db[t])
    /\ db' = [t \in Tasks |-> IF t \in JobTasks THEN JobCancelled(db[t]) ELSE db[t]]
    /\ Resume(k, At(Start("job", 0), "job_commit"))
    /\ UNCHANGED <<disk, ghost>>

CancelJobCommit(k) ==
    /\ co[k].pc = "job_commit"
    /\ Commit
    /\ Resume(k, Idle)
    /\ UNCHANGED ghost

\* The process dies; at start-up the committed table is read back and every
\* orphaned assignment is put back in the queue before a request is served.
Restart ==
    /\ crashes < MaxCrashes
    /\ crashes' = crashes + 1
    /\ disk' = [t \in Tasks |-> Purged(disk[t])]
    /\ db' = disk'
    /\ co' = [k \in Coros |-> Idle]
    /\ UNCHANGED <<made, issued, holder, acked>>

-----------------------------------------------------------------------------
\* What a coroutine in progress does next, whatever it is.
Step(k) ==
    \/ TransitionGet(k) \/ TransitionUpdate(k) \/ TransitionCommit(k)
    \/ CreateCommit(k) \/ Fetched(k) \/ FetchFailed(k) \/ MarkFailed(k)
    \/ SetQueuedGet(k) \/ SetQueuedInput(k) \/ SetQueuedCommit(k)
    \/ AssignUpdate(k) \/ AssignCommit(k)
    \/ SubmitOutput(k) \/ SubmitRef(k) \/ SubmitRollback(k) \/ SubmitCommit(k)
    \/ SignalUpdate(k) \/ SignalCommit(k)
    \/ CleanupDelete(k) \/ CleanupExpire(k) \/ CleanupCommit(k)
    \/ CancelJobCommit(k)

Client(k) ==
    \/ \E s \in {"pending", "queued"} : Create(k, s)
    \/ \E t \in Tasks : Cancel(k, t)
    \/ CancelJob(k)

Worker(k) ==
    \/ \E caps \in Capabilities : Pull(k, caps)
    \/ \E tok \in Tokens : Heartbeat(k, tok) \/ SubmitCheck(k, tok) \/ ErrorReport(k, tok)

Next ==
    \/ \E k \in Coros : Step(k) \/ Client(k) \/ Worker(k)
    \/ \E tok \in Tokens : RunEnds(tok) \/ WorkerLeaves(tok)
    \/ \E t \in Tasks : Silence(t)
    \/ StaleSelect
    \/ \E old \in SUBSET Tasks : CleanupSelect(old)
    \/ Restart

Spec == Init /\ [][Next]_vars
=============================================================================
