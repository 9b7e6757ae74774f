-------------------------- MODULE ChannelProperties --------------------------
(***************************************************************************)
(* What channel jobs must guarantee, what their docstrings claim and the    *)
(* code does not keep, and the fairness their scheduling gives.             *)
(***************************************************************************)
EXTENDS ChannelJob

\* A delivered video was submitted and a submitted one was listed: an UPDATE makes
\* no row.
TableOK(table) ==
    /\ table \in Table
    /\ table.delivered \subseteq table.linked
    /\ table.linked \subseteq table.listed

TypeOK ==
    /\ TableOK(db) /\ TableOK(disk)
    /\ run \in [Jobs -> Run]
    /\ cancel \in [Jobs -> {"none", "tasks", "state", "commit", "answered", "lost"}]
    /\ sweep \in Sweep
    /\ written \subseteq Rows
    /\ crashes \in 0..MaxCrashes /\ rollbacks \in 0..MaxRollbacks

-----------------------------------------------------------------------------
\* A row marked delivered has its transcript in the staging directory, whatever
\* coroutine's commit made the mark durable and whatever crashed in between.
DeliveredWritten == db.delivered \cup disk.delivered \subseteq written

\* The tasks no video names, and the names of no task: in both cases the
\* transcript will never be delivered.
Orphans(table, j) ==
    {r \in RowsOf(j) : table.task[r] # "absent" /\ r \notin table.linked}

Dangling(table, j) ==
    {r \in RowsOf(j) : r \in table.linked /\ table.task[r] = "absent"}

\* A restart in the middle of a submission costs a channel job at most the one
\* task whose id was not committed yet (the UPDATE of task_id rides on the next
\* commit), and each rollback of another coroutine at most one video of a job.
FewLost ==
    /\ \A j \in ChannelJobs : Cardinality(Orphans(disk, j)) <= 1 + rollbacks
    /\ \A j \in Jobs : Cardinality(Dangling(disk, j)) <= rollbacks

\* finalize_jobs: "A job is finished once no video is still in flight ... 'done'
\* if every video was delivered": so it is, durably, for ever after the verdict,
\* whatever run_job, a cancel or the tasks do meanwhile - unless a rollback of
\* another coroutine undoes what the count saw before the state is written.
VerdictHolds ==
    rollbacks = 0 => \A j \in Jobs : disk.job[j] \in {"done", "partial"} =>
        /\ Listed(disk, j) # {}
        /\ \A r \in RowsOf(j) : ~InFlight(disk, r)
        /\ disk.job[j] = "done" <=> Listed(disk, j) \subseteq disk.delivered

\* The durable tables implement the channel ledger: no rollback, crash or foreign
\* commit takes a listing, a link or a delivery back.
Phase(s) == CASE s = "absent" -> 0 [] s = "discovering" -> 1 [] OTHER -> 2

Stage(r) == IF r \notin disk.listed THEN 0
            ELSE IF r \notin disk.linked THEN 1
            ELSE IF r \notin disk.delivered THEN 2 ELSE 3

Ledger == INSTANCE ChannelLedger
            WITH phase <- [j \in Jobs |-> Phase(disk.job[j])],
                 stage <- [r \in Rows |-> Stage(r)]

LedgerSpec == Ledger!Spec

\* "Cancel a job: stop every task of it that hasn't finished yet": once the
\* request is answered, the job has no live task.
CancelStops ==
    \A j \in Jobs : cancel[j] = "answered" =>
        \A r \in RowsOf(j) : disk.task[r] # "live"

-----------------------------------------------------------------------------
\* The event loop runs what is ready, who writes goes on to commit, tasks come to a verdict (TaskProperties,
\* EventuallySettled), and a delivery that is tried again and again succeeds.
Fairness ==
    /\ \A j \in Jobs : WF_vars(RunJob(j)) /\ WF_vars(Register(j)) /\ WF_vars(CancelJob(j))
    /\ WF_vars(Deliver) /\ WF_vars(Finalize) /\ WF_vars(OtherCommit)
    /\ \A r \in Rows : SF_vars(DeliverWrite(r)) /\ WF_vars(Settles(r))

FairSpec == Spec /\ Fairness

Final == {"discovered", "failed", "cancelled", "done", "partial"}

\* A job that found something comes to a final state and stays finished, however
\* the submission, the sweep and a cancel interleave.
JobEnds ==
    \A j \in Jobs : Listed(disk, j) # {} ~> [](disk.job[j] \in Final)

\* A completed transcript of a listed video is delivered, unless its task was
\* deleted first; cancelling its job does not prevent it.
CompletedDelivered ==
    \A r \in Rows : r \in disk.linked /\ disk.task[r] = "completed"
                    ~> r \in disk.delivered \/ disk.task[r] = "gone"
=============================================================================
