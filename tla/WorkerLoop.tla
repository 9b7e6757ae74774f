----------------------------- MODULE WorkerLoop -----------------------------
(***************************************************************************)
(* One worker and the part of the coordinator it talks to.  The worker runs *)
(* two coroutines: the loop (pull, fetch, execute, upload, submit) and, for *)
(* each execution, a heartbeat that keeps the lease of the task alive and   *)
(* aborts the execution when it is told that the lease is gone.             *)
(*                                                                          *)
(* A request is served in one step and its answer handled in a later one;   *)
(* it may fail (or time out) before or after it was served.  Time advances  *)
(* in ticks of the worker's 10 s request timeout.  One task is in the       *)
(* system at a time; its assignments are numbered by their tokens.          *)
(***************************************************************************)
EXTENDS Naturals

CONSTANTS
    Attempts,      \* of a pull, and of an upload with its submit
    BeatEvery,     \* HEARTBEAT_INTERVAL_SEC, in ticks
    FetchTicks,    \* timeout of a blob download
    StaleAfter,    \* the coordinator's stale_after_sec
    IdleTimeout,   \* idle_timeout_sec
    MaxToken,      \* bound: assignments
    MaxDbErrors    \* bound: database errors in the heartbeat handler

ASSUME WorkerAssumption ==
    /\ Attempts \in Nat \ {0} /\ BeatEvery \in Nat \ {0}
    /\ FetchTicks \in Nat /\ StaleAfter \in Nat
    /\ IdleTimeout \in Nat
    /\ MaxToken \in Nat /\ MaxDbErrors \in Nat

VARIABLES
    pc, attempt,   \* the loop, and the attempts its current step has used up
    call,          \* its request: "sent" until served, then the answer
    left,          \* ticks before that request times out
    tok,           \* assignment token of the task in hand
    exit,          \* exit code of its execution
    abort,         \* _abort
    logging,       \* _log_task_id # "" (_log_token is then tok)
    idle,          \* ticks since _last_task_time
    hb,            \* hb[t]: the heartbeat coroutine created for the run of token t
    task,          \* the coordinator: the task and its assignment
    age,           \* ticks since assigned_at, 0 unless assigned
    missed,        \* 1 if the run lost a heartbeat since the last that extended its lease
    issued,        \* tokens issued
    dbErrors

loop  == <<pc, attempt, call, left, tok, exit, idle>>
lease == <<task, age, issued>>
vars  == <<loop, abort, logging, hb, lease, missed, dbErrors>>

Tokens == 1..MaxToken
Off     == [pc |-> "off", tok |-> 0, valid |-> FALSE, left |-> 0]
NoTask  == [state |-> "none", tok |-> 0, mine |-> FALSE]
Queued  == [state |-> "queued", tok |-> 0, mine |-> FALSE]
Closed  == [state |-> "over", tok |-> 0, mine |-> FALSE]

Init ==
    /\ pc = "pull" /\ attempt = 0 /\ call = "sent" /\ left = 1
    /\ tok = 0 /\ exit = 0 /\ idle = 0
    /\ abort = FALSE /\ logging = FALSE
    /\ hb = [t \in Tokens |-> Off]
    /\ task = NoTask /\ age = 0 /\ issued = 0
    /\ missed = 0 /\ dbErrors = 0

\* The assignment of token t is the current one.
Holds(t) == task.state = "assigned" /\ task.tok = t

Assigned(mine) ==
    /\ task.state = "queued" /\ issued < MaxToken
    /\ issued' = issued + 1
    /\ task' = [state |-> "assigned", tok |-> issued + 1, mine |-> mine]
    /\ age' = 0

Unassigned(tasks) == task' \in tasks /\ age' = 0

\* The loop moves on to the request p.
Request(p, n, ticks) == pc' = p /\ attempt' = n /\ call' = "sent" /\ left' = ticks

-----------------------------------------------------------------------------
(* Pull.                                                                    *)

PullServed ==
    /\ pc = "pull" /\ call = "sent"
    /\ \/ /\ Assigned(TRUE)
          /\ tok' = issued + 1 /\ call' = "task"
       \/ /\ task.state # "queued"
          /\ call' = "empty"
          /\ UNCHANGED <<tok, lease>>
    /\ UNCHANGED <<pc, attempt, left, exit, idle, abort, logging, hb, missed, dbErrors>>

\* Nothing to do: stop once the idle deadline is over, else poll again.
NothingToDo ==
    IF idle > IdleTimeout
    THEN pc' = "exited" /\ attempt' = 0 /\ call' = "none" /\ left' = 0
    ELSE Request("pull", 0, 1)

PullEmpty ==
    /\ pc = "pull" /\ call = "empty"
    /\ NothingToDo
    /\ UNCHANGED <<tok, exit, idle, abort, logging, hb, lease, missed, dbErrors>>

\* variant: the idle deadline applies to empty answers only
PullFailsForever ==
    /\ pc = "pull"
    /\ IF attempt + 1 < Attempts THEN Request("pull", attempt + 1, 1) ELSE Request("pull", 0, 1)
    /\ UNCHANGED <<tok, exit, idle, abort, logging, hb, lease, missed, dbErrors>>

\* A 5xx, 401 or 429, an unexpected status, an error or a timeout, served or not.
PullFails ==
    /\ pc = "pull"
    /\ IF attempt + 1 < Attempts THEN Request("pull", attempt + 1, 1) ELSE NothingToDo
    /\ UNCHANGED <<tok, exit, idle, abort, logging, hb, lease, missed, dbErrors>>

PullTask ==
    /\ pc = "pull" /\ call = "task"
    /\ Request("fetch_exe", 0, FetchTicks)
    /\ idle' = 0
    /\ UNCHANGED <<tok, exit, abort, logging, hb, lease, missed, dbErrors>>

-----------------------------------------------------------------------------
(* Execute.                                                                 *)

FetchExecutable ==
    /\ pc = "fetch_exe"
    /\ Request("fetch_input", 0, FetchTicks)
    /\ UNCHANGED <<tok, exit, idle, abort, logging, hb, lease, missed, dbErrors>>

\* The coordinator is not told: the assignment goes stale.
FetchFails ==
    /\ pc \in {"fetch_exe", "fetch_input"}
    /\ Request("pull", 0, 1)
    /\ UNCHANGED <<tok, exit, idle, abort, logging, hb, lease, missed, dbErrors>>

\* variant: the abort flag of the last run is left set
StartRunDirty ==
    /\ pc = "fetch_input"
    /\ pc' = "run" /\ attempt' = 0 /\ call' = "none" /\ left' = 0
    /\ logging' = TRUE /\ missed' = 0
    /\ hb' = [hb EXCEPT ![tok] = [Off EXCEPT !.pc = "send"]]
    /\ UNCHANGED <<tok, exit, idle, abort, lease, dbErrors>>

StartRun ==
    /\ pc = "fetch_input"
    /\ pc' = "run" /\ attempt' = 0 /\ call' = "none" /\ left' = 0
    /\ abort' = FALSE /\ logging' = TRUE /\ missed' = 0
    /\ hb' = [hb EXCEPT ![tok] = [Off EXCEPT !.pc = "send"]]
    /\ UNCHANGED <<tok, exit, idle, lease, dbErrors>>

\* variant: the heartbeat of the run is neither cancelled nor awaited
ReapNothing == hb' = hb

\* hb_task.cancel(), and await it.
Reap == hb' = [hb EXCEPT ![tok] = Off]

\* The subprocess ends, by itself, at its time limit or killed by the abort watcher.
RunEnds(code) ==
    /\ pc = "run"
    /\ exit' = code
    /\ logging' = FALSE /\ missed' = 0
    /\ IF abort THEN Request("pull", 0, 1) /\ Reap
                ELSE Request("upload", 0, 0) /\ UNCHANGED hb
    /\ UNCHANGED <<tok, idle, abort, lease, dbErrors>>

-----------------------------------------------------------------------------
(* Upload and submit.                                                       *)

UploadServed ==
    /\ pc = "upload" /\ call = "sent"
    /\ call' \in IF Holds(tok) THEN {"stored", "refused"} ELSE {"refused"}
    /\ UNCHANGED <<pc, attempt, left, tok, exit, idle, abort, logging, hb, lease, missed, dbErrors>>

Uploaded ==
    /\ pc = "upload" /\ call = "stored"
    /\ Request("submit", attempt, 0)
    /\ UNCHANGED <<tok, exit, idle, abort, logging, hb, lease, missed, dbErrors>>

\* An error result puts the task back, or ends it when its retries are used up.
SubmitServed ==
    /\ pc = "submit" /\ call = "sent"
    /\ IF exit = 0
       THEN IF Holds(tok) THEN call' = "accepted" /\ Unassigned({Closed})
                          ELSE call' = "refused" /\ UNCHANGED <<task, age>>
       ELSE /\ call' = "refused"
            /\ IF Holds(tok) THEN Unassigned({Queued, Closed}) ELSE UNCHANGED <<task, age>>
    /\ UNCHANGED <<pc, attempt, left, tok, exit, idle, abort, logging, hb, issued, missed, dbErrors>>

Accepted ==
    /\ pc = "submit" /\ call = "accepted"
    /\ Reap
    /\ Request("pull", 0, 1)
    /\ UNCHANGED <<tok, exit, idle, abort, logging, lease, missed, dbErrors>>

\* A refusal, another status, an error or a timeout, served or not.
ReportFails ==
    /\ pc \in {"upload", "submit"}
    /\ IF attempt + 1 < Attempts THEN Request("upload", attempt + 1, 0) /\ UNCHANGED hb
                                 ELSE Request("pull", 0, 1) /\ Reap
    /\ UNCHANGED <<tok, exit, idle, abort, logging, lease, missed, dbErrors>>

-----------------------------------------------------------------------------
(* _heartbeat, and its handler at the coordinator.                          *)

Beating == UNCHANGED <<loop, issued>>

\* `while self._log_task_id`: the request names the run that is current when it
\* is sent.
BeatSend(t) ==
    /\ hb[t].pc = "send"
    /\ hb' = [hb EXCEPT ![t] = IF logging
                THEN [pc |-> "sent", tok |-> tok, valid |-> FALSE, left |-> 1] ELSE Off]
    /\ UNCHANGED <<abort, logging, task, age, missed, dbErrors>> /\ Beating

\* variant: the lease is not extended
BeatServedNoTouch(t) ==
    /\ hb[t].pc = "sent"
    /\ hb' = [hb EXCEPT ![t].pc = "answered", ![t].valid = Holds(hb[t].tok)]
    /\ UNCHANGED <<age, missed, abort, logging, task, dbErrors>> /\ Beating

\* variant: the handler does not compare the tokens
BeatServedAnyToken(t) ==
    /\ hb[t].pc = "sent"
    /\ hb' = [hb EXCEPT ![t].pc = "answered", ![t].valid = task.state = "assigned"]
    /\ IF task.state = "assigned" THEN age' = 0 /\ missed' = 0
                                  ELSE UNCHANGED <<age, missed>>
    /\ UNCHANGED <<abort, logging, task, dbErrors>> /\ Beating

BeatServed(t) ==
    /\ hb[t].pc = "sent"
    /\ hb' = [hb EXCEPT ![t].pc = "answered", ![t].valid = Holds(hb[t].tok)]
    /\ IF Holds(hb[t].tok) THEN age' = 0 /\ missed' = 0 ELSE UNCHANGED <<age, missed>>
    /\ UNCHANGED <<abort, logging, task, dbErrors>> /\ Beating

\* An exception in the handler: the answer is the one of a lost assignment.
BeatDbError(t) ==
    /\ hb[t].pc = "sent" /\ dbErrors < MaxDbErrors
    /\ dbErrors' = dbErrors + 1
    /\ hb' = [hb EXCEPT ![t].pc = "answered", ![t].valid = FALSE]
    /\ missed' = 1
    /\ UNCHANGED <<abort, logging, task, age>> /\ Beating

Asleep(t) == hb' = [hb EXCEPT ![t] = [Off EXCEPT !.pc = "sleep", !.left = BeatEvery]]

BeatAnswered(t) ==
    /\ hb[t].pc = "answered"
    /\ IF hb[t].valid THEN Asleep(t) /\ UNCHANGED <<abort, logging>>
       ELSE /\ abort' = TRUE /\ logging' = FALSE
            /\ hb' = [hb EXCEPT ![t] = Off]
    /\ UNCHANGED <<task, age, missed, dbErrors>> /\ Beating

BeatFails(t) ==
    /\ hb[t].pc \in {"sent", "answered"}
    /\ missed' = IF hb[t].pc = "sent" /\ logging THEN 1 ELSE missed
    /\ Asleep(t)
    /\ UNCHANGED <<abort, logging, task, age, dbErrors>> /\ Beating

BeatWakes(t) ==
    /\ hb[t].pc = "sleep" /\ hb[t].left = 0
    /\ hb' = [hb EXCEPT ![t].pc = "send"]
    /\ UNCHANGED <<abort, logging, task, age, missed, dbErrors>> /\ Beating

-----------------------------------------------------------------------------
(* The coordinator, the other workers, and time.                            *)

Elsewhere == UNCHANGED <<loop, abort, logging, hb, missed, dbErrors>>

NewTask ==
    /\ task.state \in {"none", "over"} /\ issued < MaxToken
    /\ task' = Queued
    /\ UNCHANGED <<age, issued>> /\ Elsewhere

OtherPulls == Assigned(FALSE) /\ Elsewhere

OtherSubmits ==
    /\ task.state = "assigned" /\ ~task.mine
    /\ Unassigned({Queued, Closed})
    /\ UNCHANGED issued /\ Elsewhere

Cancelled ==
    /\ task.state \in {"queued", "assigned"}
    /\ Unassigned({Closed})
    /\ UNCHANGED issued /\ Elsewhere

\* variant: a worker that was not killed is taken for alive
RequeueStaleUnseen ==
    /\ task.state = "assigned" /\ age > StaleAfter
    /\ ~(task.mine /\ pc # "killed")
    /\ Unassigned({Queued, Closed})
    /\ UNCHANGED issued /\ Elsewhere

RequeueStale ==
    /\ task.state = "assigned" /\ age > StaleAfter
    /\ Unassigned({Queued, Closed})
    /\ UNCHANGED issued /\ Elsewhere

\* _purge_orphaned_assignments
CoordinatorRestarts ==
    /\ task.state = "assigned"
    /\ Unassigned({Queued})
    /\ UNCHANGED issued /\ Elsewhere

\* The platform ends the worker.
Killed ==
    /\ pc \notin {"exited", "killed"}
    /\ pc' = "killed" /\ attempt' = 0 /\ call' = "none" /\ left' = 0
    /\ hb' = [t \in Tokens |-> Off]
    /\ abort' = FALSE /\ logging' = FALSE /\ missed' = 0
    /\ UNCHANGED <<tok, exit, idle, lease, dbErrors>>

Timed == {"pull", "fetch_exe", "fetch_input"}
Minus1(n) == IF n = 0 THEN 0 ELSE n - 1

\* What is due happens before time goes on.
Tick ==
    /\ pc \in Timed => left > 0
    /\ \A t \in Tokens : /\ hb[t].pc \notin {"send", "answered"}
                         /\ hb[t].pc \in {"sent", "sleep"} => hb[t].left > 0
    /\ left' = Minus1(left)
    /\ idle' = IF idle > IdleTimeout THEN idle ELSE idle + 1
    /\ age' = IF task.state = "assigned" /\ age <= StaleAfter THEN age + 1 ELSE age
    /\ hb' = [t \in Tokens |-> [hb[t] EXCEPT !.left = Minus1(@)]]
    /\ UNCHANGED <<pc, attempt, call, tok, exit, abort, logging, task, issued, missed, dbErrors>>

-----------------------------------------------------------------------------
Pull    == PullServed \/ PullEmpty \/ PullFails \/ PullTask
Fetch   == FetchExecutable \/ FetchFails \/ StartRun
Report  == UploadServed \/ Uploaded \/ SubmitServed \/ Accepted \/ ReportFails
Beat(t) == BeatSend(t) \/ BeatServed(t) \/ BeatAnswered(t) \/ BeatFails(t) \/ BeatWakes(t)

Next ==
    \/ Pull \/ Fetch \/ Report
    \/ \E code \in {0, 1, 2} : RunEnds(code)
    \/ \E t \in Tokens : Beat(t) \/ BeatDbError(t)
    \/ NewTask \/ OtherPulls \/ OtherSubmits \/ Cancelled \/ RequeueStale
    \/ CoordinatorRestarts \/ Killed \/ Tick

Spec == Init /\ [][Next]_vars
=============================================================================
