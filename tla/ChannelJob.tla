------------------------------ MODULE ChannelJob ------------------------------
(***************************************************************************)
(* Channel jobs: run_job discovers the videos of a channel, lists them and  *)
(* submits one task for each; POST /transcribe registers its one video as a *)
(* job of the same tables; a sweep delivers what is completed and finishes  *)
(* the jobs; a client may cancel a job at any time.                         *)
(*                                                                          *)
(* As in TaskLifecycle an action is one awaited database operation (or an   *)
(* awaited call to the outside) with the Python up to the next await, and   *)
(* all coroutines share one connection: `db` is what it sees, `disk` what   *)
(* was committed, by whomever.  The tasks themselves are TaskLifecycle's    *)
(* business: here a task is live, completed, ended (failed or cancelled) or *)
(* gone (deleted), and moves as TaskLedger allows.                          *)
(***************************************************************************)
EXTENDS Naturals, FiniteSets

CONSTANTS
    ChannelJobs,     \* jobs of POST /transcribe/channel
    SingleJobs,      \* the one-video jobs of POST /transcribe
    Videos,          \* numbered in the order a manifest lists them
    Playlists,       \* the playlists of a channel: sets of videos
    SingleVideo,     \* SingleVideo[j]: the video of a single job
    DryRuns,         \* the channel jobs submitted with dry_run
    MaxVideos,       \* a job's max_videos, 0 for none
    MaxJobs,         \* bound: jobs submitted
    MaxCrashes,      \* bound: restarts of the coordinator
    MaxRollbacks     \* bound: rollbacks by complete() of some task

Jobs == ChannelJobs \cup SingleJobs
Single(j) == <<j, SingleVideo[j]>>
Rows == ChannelJobs \X Videos \cup {Single(j) : j \in SingleJobs}

ASSUME ChannelAssumption ==
    /\ Videos \subseteq Nat /\ IsFiniteSet(Videos)
    /\ ChannelJobs \cap SingleJobs = {}
    /\ SingleVideo \in [SingleJobs -> Videos]
    /\ Playlists \subseteq SUBSET Videos
    /\ DryRuns \subseteq ChannelJobs
    /\ MaxVideos \in Nat /\ MaxJobs \in Nat
    /\ MaxCrashes \in Nat /\ MaxRollbacks \in Nat

VARIABLES
    db, disk,        \* the tables, see Table
    run,             \* run[j]: run_job, or _register_delivery of a single job
    cancel,          \* cancel[j]: the handler of DELETE /transcribe/channel/{j}
    sweep,           \* the delivery loop
    written,         \* the rows whose transcript is in the staging directory
    crashes, rollbacks

vars == <<db, disk, run, cancel, sweep, written, crashes, rollbacks>>

-----------------------------------------------------------------------------
JobStates  == {"absent", "discovering", "discovered", "submitting", "running",
               "done", "partial", "cancelled", "failed"}
TaskStates == {"absent", "live", "completed", "ended", "gone"}

Table == [job       : [Jobs -> JobStates],
          listed    : SUBSET Rows,            \* rows of channel_videos
          linked    : SUBSET Rows,            \* task_id IS NOT NULL
          delivered : SUBSET Rows,            \* delivered = 1
          task      : [Rows -> TaskStates]]   \* the task submitted for the row

Empty == [job |-> [j \in Jobs |-> "absent"], listed |-> {}, linked |-> {},
          delivered |-> {}, task |-> [r \in Rows |-> "absent"]]

RunPCs == {"idle", "job_commit", "read", "discover", "insert", "list_commit",
           "set", "set_commit", "select", "create", "create_commit", "link",
           "links_commit", "task_commit", "meta", "job_row", "video_row",
           "register_commit", "over"}
Run    == [pc : RunPCs, want : JobStates, todo : SUBSET Videos]
Asleep == [pc |-> "idle", want |-> "absent", todo |-> {}]

SweepPCs == {"sleep", "row", "mark", "deliver_commit", "jobs", "count",
             "verdict", "verdict_commit"}
Sweep == [pc    : SweepPCs,
          rows  : SUBSET Rows,           \* rows of the SELECT still to deliver
          row   : SUBSET Rows,           \* the one in hand, if any
          count : BOOLEAN,               \* delivered > 0
          jobs  : SUBSET Jobs,           \* jobs finalize_jobs has still to look at
          job   : SUBSET Jobs,           \* the one in hand, if any
          want  : JobStates]             \* its verdict
Waiting == [pc |-> "sleep", rows |-> {}, row |-> {}, count |-> FALSE,
            jobs |-> {}, job |-> {}, want |-> "absent"]

Init ==
    /\ db = Empty /\ disk = Empty
    /\ run = [j \in Jobs |-> Asleep]
    /\ cancel = [j \in Jobs |-> "none"]
    /\ sweep = Waiting
    /\ written = {}
    /\ crashes = 0 /\ rollbacks = 0

RowsOf(j)     == {r \in Rows : r[1] = j}
First(vs)     == CHOOSE v \in vs : \A w \in vs : v <= w
Goto(j, pc)   == run' = [run EXCEPT ![j].pc = pc]
SetState(j, s) == run' = [run EXCEPT ![j].pc = "set", ![j].want = s]
Commit        == disk' = db /\ UNCHANGED db
Others(j)     == UNCHANGED <<cancel, sweep, written, crashes, rollbacks>>

-----------------------------------------------------------------------------
(* POST /transcribe/channel: create_job, then run_job in the background.    *)

Submits(j) == /\ run[j].pc = "idle"
              /\ Cardinality({i \in Jobs : run[i].pc # "idle"}) < MaxJobs

SubmitChannel(j) ==
    /\ Submits(j) /\ j \in ChannelJobs
    /\ db' = [db EXCEPT !.job[j] = "discovering"]
    /\ Goto(j, "job_commit")
    /\ UNCHANGED disk /\ Others(j)

JobCommit(j) ==
    /\ run[j].pc = "job_commit"
    /\ Commit
    /\ Goto(j, "read")
    /\ Others(j)

ReadJob(j) ==
    /\ run[j].pc = "read"
    /\ Goto(j, IF db.job[j] = "absent" THEN "over" ELSE "discover")
    /\ UNCHANGED <<db, disk>> /\ Others(j)

\* The unique videos of the playlists whose listing succeeded: one that fails or
\* times out is taken for an empty one.
Manifest(answered) == UNION answered

Cut(vs) ==
    IF MaxVideos = 0 THEN vs
    ELSE {v \in vs : Cardinality({w \in vs : w < v}) < MaxVideos}

\* discover_channel raises only if yt-dlp cannot be run at all.
Discover(j, answered) ==
    /\ run[j].pc = "discover"
    /\ LET vs == Cut(Manifest(answered)) IN
       run' = [run EXCEPT ![j].pc = IF vs = {} THEN "list_commit" ELSE "insert",
                          ![j].todo = vs]
    /\ UNCHANGED <<db, disk>> /\ Others(j)

DiscoveryFails(j) ==
    /\ run[j].pc = "discover"
    /\ SetState(j, "failed")
    /\ UNCHANGED <<db, disk>> /\ Others(j)

InsertVideo(j) ==
    LET v == First(run[j].todo) IN
    /\ run[j].pc = "insert"
    /\ db' = [db EXCEPT !.listed = @ \cup {<<j, v>>}]
    /\ run' = [run EXCEPT ![j].todo = @ \ {v},
                          ![j].pc = IF run[j].todo = {v} THEN "list_commit" ELSE "insert"]
    /\ UNCHANGED disk /\ Others(j)

ListCommit(j) ==
    /\ run[j].pc = "list_commit"
    /\ Commit
    /\ SetState(j, IF j \in DryRuns THEN "discovered" ELSE "submitting")
    /\ Others(j)

\* _set_state, whatever the state of the job has become in the meantime.
SetUpdate(j) ==
    /\ run[j].pc = "set"
    /\ db' = [db EXCEPT !.job[j] = IF @ = "absent" THEN @ ELSE run[j].want]
    /\ Goto(j, "set_commit")
    /\ UNCHANGED disk /\ Others(j)

SetCommit(j) ==
    /\ run[j].pc = "set_commit"
    /\ Commit
    /\ Goto(j, IF run[j].want = "submitting" THEN "select" ELSE "over")
    /\ Others(j)

\* The videos of the job that name no task yet.
SelectToSubmit(j) ==
    LET vs == {v \in Videos : <<j, v>> \in db.listed \ db.linked} IN
    /\ run[j].pc = "select"
    /\ run' = [run EXCEPT ![j].pc = IF vs = {} THEN "links_commit" ELSE "create",
                          ![j].todo = vs]
    /\ UNCHANGED <<db, disk>> /\ Others(j)

\* task_service.submit: the INSERT and its commit; the prepare is spawned and the
\* UPDATE of task_id follows at once, left for a later commit.
CreateTask(j) ==
    /\ run[j].pc = "create"
    /\ db' = [db EXCEPT !.task[<<j, First(run[j].todo)>>] = "live"]
    /\ Goto(j, "create_commit")
    /\ UNCHANGED disk /\ Others(j)

CreateCommit(j) ==
    /\ run[j].pc = "create_commit"
    /\ Commit
    /\ Goto(j, "link")
    /\ Others(j)

\* variant: the id of the task is not recorded
LinkForgotten(j) ==
    /\ run[j].pc = "link"
    /\ run' = [run EXCEPT ![j].todo = @ \ {First(@)},
                          ![j].pc = IF Cardinality(run[j].todo) = 1 THEN "links_commit"
                                    ELSE "create"]
    /\ UNCHANGED <<db, disk>> /\ Others(j)

LinkTask(j) ==
    LET v == First(run[j].todo) IN
    /\ run[j].pc = "link"
    /\ db' = [db EXCEPT !.linked = @ \cup ({<<j, v>>} \cap db.listed)]
    /\ run' = [run EXCEPT ![j].todo = @ \ {v},
                          ![j].pc = IF run[j].todo = {v} THEN "links_commit" ELSE "create"]
    /\ UNCHANGED disk /\ Others(j)

LinksCommit(j) ==
    /\ run[j].pc = "links_commit"
    /\ Commit
    /\ SetState(j, "running")
    /\ Others(j)

-----------------------------------------------------------------------------
(* POST /transcribe with delivery: the task is submitted, the delivery is   *)
(* registered in the background, after a metadata lookup.                   *)

SubmitSingle(j) ==
    /\ Submits(j) /\ j \in SingleJobs
    /\ db' = [db EXCEPT !.task[Single(j)] = "live"]
    /\ Goto(j, "task_commit")
    /\ UNCHANGED disk /\ Others(j)

TaskCommit(j) ==
    /\ run[j].pc = "task_commit"
    /\ Commit
    /\ Goto(j, "meta")
    /\ Others(j)

\* fetch_video_meta answers {} at worst.
FetchMeta(j) ==
    /\ run[j].pc = "meta"
    /\ Goto(j, "job_row")
    /\ UNCHANGED <<db, disk>> /\ Others(j)

RegisterJob(j) ==
    /\ run[j].pc = "job_row"
    /\ db' = [db EXCEPT !.job[j] = IF @ = "absent" THEN "running" ELSE @]
    /\ Goto(j, "video_row")
    /\ UNCHANGED disk /\ Others(j)

RegisterVideo(j) ==
    /\ run[j].pc = "video_row"
    /\ db' = [db EXCEPT !.listed = @ \cup {Single(j)}, !.linked = @ \cup {Single(j)}]
    /\ Goto(j, "register_commit")
    /\ UNCHANGED disk /\ Others(j)

RegisterCommit(j) ==
    /\ run[j].pc = "register_commit"
    /\ Commit
    /\ Goto(j, "over")
    /\ Others(j)

-----------------------------------------------------------------------------
(* DELETE /transcribe/channel/{job}: job_status, then cancel_job.           *)

CancelStart(j) ==
    /\ cancel[j] = "none" /\ db.job[j] # "absent"
    /\ cancel' = [cancel EXCEPT ![j] = "tasks"]
    /\ UNCHANGED <<db, disk, run, sweep, written, crashes, rollbacks>>

\* UPDATE tasks ... WHERE client_id = 'channel:<job>': a single job's task has
\* another client_id.
CancelTasks(j) ==
    /\ cancel[j] = "tasks"
    /\ db' = [db EXCEPT !.task =
                [r \in Rows |-> IF r[1] = j /\ j \in ChannelJobs /\ @[r] = "live"
                                THEN "ended" ELSE @[r]]]
    /\ cancel' = [cancel EXCEPT ![j] = "state"]
    /\ UNCHANGED <<disk, run, sweep, written, crashes, rollbacks>>

\* variant: the rows of the job are deleted
CancelDeletes(j) ==
    /\ cancel[j] = "state"
    /\ db' = [db EXCEPT !.job[j] = "cancelled", !.listed = @ \ RowsOf(j),
                        !.linked = @ \ RowsOf(j), !.delivered = @ \ RowsOf(j)]
    /\ cancel' = [cancel EXCEPT ![j] = "commit"]
    /\ UNCHANGED <<disk, run, sweep, written, crashes, rollbacks>>

CancelState(j) ==
    /\ cancel[j] = "state"
    /\ db' = [db EXCEPT !.job[j] = IF @ = "absent" THEN @ ELSE "cancelled"]
    /\ cancel' = [cancel EXCEPT ![j] = "commit"]
    /\ UNCHANGED <<disk, run, sweep, written, crashes, rollbacks>>

CancelCommit(j) ==
    /\ cancel[j] = "commit"
    /\ Commit
    /\ cancel' = [cancel EXCEPT ![j] = "answered"]
    /\ UNCHANGED <<run, sweep, written, crashes, rollbacks>>

-----------------------------------------------------------------------------
(* delivery_loop: deliver_completed, then finalize_jobs.                    *)

Swept == UNCHANGED <<run, cancel, crashes, rollbacks>>

\* variant: only the videos of jobs that are still running
DeliverableRunning == {r \in db.linked : /\ r \notin db.delivered
                                         /\ db.task[r] = "completed"
                                         /\ db.job[r[1]] = "running"}

\* The SELECT joins the video, its task and its job.
Deliverable == {r \in db.linked : /\ r \notin db.delivered
                                  /\ db.task[r] = "completed"
                                  /\ db.job[r[1]] # "absent"}

DeliverSelect ==
    /\ sweep.pc = "sleep"
    /\ sweep' = [sweep EXCEPT !.rows = Deliverable, !.count = FALSE,
                              !.pc = IF Deliverable = {} THEN "jobs" ELSE "row"]
    /\ UNCHANGED <<db, disk, written>> /\ Swept

\* Where the loop goes when it has done with a row.
NextRow(s, rows, count) ==
    [s EXCEPT !.rows = rows, !.row = {}, !.count = count,
              !.pc = IF rows # {} THEN "row" ELSE IF count THEN "deliver_commit" ELSE "jobs"]

\* No blob, or an exception (rendering, Gemini, a disk or Drive error that comes
\* before or after the local copies were written): left for the next sweep.
DeliverSkips(r) ==
    /\ sweep.pc = "row" /\ r \in sweep.rows
    /\ sweep' = NextRow(sweep, sweep.rows \ {r}, sweep.count)
    /\ \/ UNCHANGED written
       \/ written' = written \cup {r}
    /\ UNCHANGED <<db, disk>> /\ Swept

\* variant: the row is marked before its files are there
DeliverUnwritten(r) ==
    /\ sweep.pc = "row" /\ r \in sweep.rows
    /\ sweep' = [sweep EXCEPT !.pc = "mark", !.row = {r}, !.rows = @ \ {r}]
    /\ UNCHANGED <<db, disk, written>> /\ Swept

\* _write_targets, in the executor: the others run meanwhile.
DeliverWrite(r) ==
    /\ sweep.pc = "row" /\ r \in sweep.rows
    /\ written' = written \cup {r}
    /\ sweep' = [sweep EXCEPT !.pc = "mark", !.row = {r}, !.rows = @ \ {r}]
    /\ UNCHANGED <<db, disk>> /\ Swept

\* variant: the mark is put on a row that is not there any more
DeliverMarkBlind ==
    /\ sweep.pc = "mark"
    /\ db' = [db EXCEPT !.delivered = @ \cup sweep.row]
    /\ sweep' = NextRow(sweep, sweep.rows, TRUE)
    /\ UNCHANGED <<disk, written>> /\ Swept

DeliverMark ==
    /\ sweep.pc = "mark"
    /\ db' = [db EXCEPT !.delivered = @ \cup (sweep.row \cap db.listed)]
    /\ sweep' = NextRow(sweep, sweep.rows, TRUE)
    /\ UNCHANGED <<disk, written>> /\ Swept

DeliverCommit ==
    /\ sweep.pc = "deliver_commit"
    /\ Commit
    /\ sweep' = [sweep EXCEPT !.pc = "jobs"]
    /\ UNCHANGED written /\ Swept

NextJob(s, jobs) ==
    [Waiting EXCEPT !.jobs = jobs, !.pc = IF jobs = {} THEN "sleep" ELSE "count"]

FinalizeSelect ==
    LET js == {j \in Jobs : db.job[j] \in {"running", "submitting"}} IN
    /\ sweep.pc = "jobs"
    /\ sweep' = NextJob(sweep, js)
    /\ UNCHANGED <<db, disk, written>> /\ Swept

\* variant: a video whose task has completed counts as done
InFlightTasks(table, r) ==
    /\ r \in table.listed
    /\ r \notin table.linked \/ table.task[r] = "live"

\* variant: a video whose task failed is waited for
InFlightFailed(table, r) ==
    /\ r \in table.listed \ table.delivered
    /\ table.task[r] # "gone"

\* A video that waits for its task or for its delivery.
InFlight(table, r) ==
    /\ r \in table.listed
    /\ \/ r \notin table.linked
       \/ table.task[r] = "live"
       \/ table.task[r] = "completed" /\ r \notin table.delivered

Listed(table, j) == RowsOf(j) \cap table.listed

\* The counts of one job ...
FinalizeCount(j) ==
    /\ sweep.pc = "count" /\ j \in sweep.jobs
    /\ sweep' = IF Listed(db, j) = {} \/ \E r \in RowsOf(j) : InFlight(db, r)
                THEN NextJob(sweep, sweep.jobs \ {j})
                ELSE [sweep EXCEPT !.pc = "verdict", !.job = {j}, !.jobs = @ \ {j},
                        !.want = IF Listed(db, j) \subseteq db.delivered
                                 THEN "done" ELSE "partial"]
    /\ UNCHANGED <<db, disk, written>> /\ Swept

\* ... and, a database operation later, its state.
FinalizeUpdate ==
    /\ sweep.pc = "verdict"
    /\ db' = [db EXCEPT !.job = [j \in Jobs |-> IF j \in sweep.job /\ @[j] # "absent"
                                                THEN sweep.want ELSE @[j]]]
    /\ sweep' = [sweep EXCEPT !.pc = "verdict_commit"]
    /\ UNCHANGED <<disk, written>> /\ Swept

FinalizeCommit ==
    /\ sweep.pc = "verdict_commit"
    /\ Commit
    /\ sweep' = NextJob(sweep, sweep.jobs)
    /\ UNCHANGED written /\ Swept

-----------------------------------------------------------------------------
(* The tasks, the other coroutines' commits and rollbacks, and restarts.    *)

TaskMoves(r, s) ==
    /\ db' = [db EXCEPT !.task[r] = s]
    /\ UNCHANGED <<disk, run, cancel, sweep, written, crashes, rollbacks>>

\* A channel job's task goes through several commits after the UPDATE that links
\* it was executed, before it can complete.
TaskCompletes(r) ==
    /\ db.task[r] = "live" /\ disk.task[r] = "live"
    /\ r[1] \in ChannelJobs => r \in disk.linked
    /\ TaskMoves(r, "completed")

TaskEnds(r) ==
    /\ db.task[r] = "live" /\ disk.task[r] = "live"
    /\ TaskMoves(r, "ended")

\* cleanup_expired, a month after the verdict.
TaskDeleted(r) ==
    /\ db.task[r] \in {"completed", "ended"} /\ disk.task[r] = db.task[r]
    /\ TaskMoves(r, "gone")

OtherCommit ==
    /\ disk # db
    /\ Commit
    /\ UNCHANGED <<run, cancel, sweep, written, crashes, rollbacks>>

\* complete() of a result whose blob is missing.
OtherRollback ==
    /\ rollbacks < MaxRollbacks /\ disk # db
    /\ rollbacks' = rollbacks + 1
    /\ db' = disk
    /\ UNCHANGED <<disk, run, cancel, sweep, written, crashes>>

\* The background coroutines are gone with the process; nobody starts them again.
Restart ==
    /\ crashes < MaxCrashes
    /\ crashes' = crashes + 1
    /\ db' = disk
    /\ run' = [j \in Jobs |-> IF run[j].pc = "idle" THEN Asleep ELSE [Asleep EXCEPT !.pc = "over"]]
    /\ cancel' = [j \in Jobs |-> IF cancel[j] \in {"tasks", "state", "commit"} THEN "lost"
                                 ELSE cancel[j]]
    /\ sweep' = Waiting
    /\ UNCHANGED <<disk, written, rollbacks>>

-----------------------------------------------------------------------------
RunJob(j) ==
    \/ JobCommit(j) \/ ReadJob(j) \/ DiscoveryFails(j) \/ InsertVideo(j)
    \/ \E answered \in SUBSET Playlists : Discover(j, answered)
    \/ ListCommit(j) \/ SetUpdate(j) \/ SetCommit(j) \/ SelectToSubmit(j)
    \/ CreateTask(j) \/ CreateCommit(j) \/ LinkTask(j) \/ LinksCommit(j)

Register(j) ==
    \/ TaskCommit(j) \/ FetchMeta(j) \/ RegisterJob(j) \/ RegisterVideo(j)
    \/ RegisterCommit(j)

CancelJob(j) == CancelTasks(j) \/ CancelState(j) \/ CancelCommit(j)

Deliver == \/ DeliverSelect \/ DeliverMark \/ DeliverCommit
           \/ \E r \in Rows : DeliverSkips(r) \/ DeliverWrite(r)

Finalize == \/ FinalizeSelect \/ FinalizeUpdate \/ FinalizeCommit
            \/ \E j \in Jobs : FinalizeCount(j)

Settles(r) == TaskCompletes(r) \/ TaskEnds(r)

Next ==
    \/ \E j \in Jobs : SubmitChannel(j) \/ SubmitSingle(j) \/ CancelStart(j)
    \/ \E j \in Jobs : RunJob(j) \/ Register(j) \/ CancelJob(j)
    \/ Deliver \/ Finalize
    \/ \E r \in Rows : Settles(r) \/ TaskDeleted(r)
    \/ OtherCommit \/ OtherRollback \/ Restart

Spec == Init /\ [][Next]_vars
=============================================================================
