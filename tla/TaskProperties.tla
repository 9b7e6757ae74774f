-------------------------- MODULE TaskProperties --------------------------
(***************************************************************************)
(* What the task lifecycle must guarantee, and the fairness its scheduling  *)
(* gives.                                                                   *)
(***************************************************************************)
EXTENDS TaskLifecycle

TypeOK ==
    /\ db \in [Tasks -> Row]
    /\ disk \in [Tasks -> Row]
    /\ co \in [Coros -> Coroutine]
    /\ made \in 0..NumTasks
    /\ issued \in 0..MaxToken
    /\ holder \in [Tokens -> Run]
    /\ acked \subseteq Tokens
    /\ crashes \in 0..MaxCrashes

-----------------------------------------------------------------------------
\* The durable table implements the ledger: no interleaving of coroutines,
\* rollback or crash makes a task go back across a stage or change a verdict.
Ledger == INSTANCE TaskLedger WITH status <- [t \in Tasks |-> disk[t].state]

LedgerSpec == Ledger!Spec

\* A row carries a live token exactly while it is assigned, on the connection
\* and on disk; rows never share one; none was written before it was issued.
TokenDiscipline ==
    \A table \in {db, disk} : \A t \in Tasks :
        /\ table[t].state \in {"pending", "downloading", "queued"} => table[t].token = NoToken
        /\ table[t].state = "assigned" => table[t].token # NoToken
        /\ table[t].token <= issued
        /\ \A u \in Tasks : table[t].token = table[u].token => t = u \/ table[t].token = NoToken

Runs(t) == {tok \in Tokens : holder[tok].task = t}

\* Each execution of a task but the first is paid for by a counted retry or by a
\* restart: a task is never handed out twice for free.
ExecutionsAccounted ==
    \A t \in Tasks : Exists(db[t]) => Cardinality(Runs(t)) <= db[t].retries + 1 + crashes

\* Requeues stop: transition() may act on a can_retry that is out of date, but
\* each other coroutine can add at most one requeue to the budget that way.
RetriesBounded ==
    \A t \in Tasks : db[t].retries <= MaxRetries + Cardinality(Coros) - 1

\* An accepted submit is durable: whatever crashes, its task reads completed
\* until it is deleted.
AckDurable ==
    \A tok \in acked : disk[holder[tok].task].state \in {"completed", "gone"}

\* At most one run of a task is told that its result was accepted.
OneAccepted ==
    \A tok, other \in acked : holder[tok].task = holder[other].task => tok = other

\* A task that reads completed has a result (the comment in complete() on ghost
\* tasks), one produced by a run of this very task.
CompletedHasResult ==
    \A t \in Tasks : disk[t].state = "completed" => disk[t].out \in Runs(t)

\* Once a task is in the queue its worker will find the input hash in the row.
QueuedHasInput ==
    \A t \in Tasks : disk[t].state \in {"queued", "assigned"} => disk[t].input

-----------------------------------------------------------------------------
\* The event loop runs every coroutine that is ready and the maintenance loop
\* ticks every 15 s, requeue_stale first; a run of a task ends (python.py kills it
\* after two hours, loop.py submits three times) and a task nobody signals for
\* becomes silent; workers keep polling, and one of them can run the task: its
\* poll is served again and again even if the coroutines are often all busy.
Fairness ==
    /\ \A k \in Coros : WF_vars(Step(k))
    /\ SF_vars(StaleSelect)
    /\ \A tok \in Tokens : WF_vars(WorkerLeaves(tok))
    /\ \A t \in Tasks : WF_vars(Silence(t))
    /\ SF_vars(\E k \in Coros : Pull(k, Tasks))

FairSpec == Spec /\ Fairness

\* Every submitted task comes to a verdict, whatever its workers do.
EventuallySettled ==
    \A t \in Tasks : made >= t ~> disk[t].state \in Terminal \cup {"gone"}
=============================================================================
