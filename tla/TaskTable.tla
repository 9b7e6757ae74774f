----------------------------- MODULE TaskTable -----------------------------
(***************************************************************************)
(* The `tasks` table of the coordinator's SQLite database: what a row       *)
(* holds, which moves VALID_TRANSITIONS allows, and what each UPDATE of the *)
(* code does to one row.  There is no behaviour here: TaskLifecycle applies *)
(* these operators to the shared connection.                                *)
(*                                                                          *)
(* Data is kept down to what the properties tell apart.  A hash is present  *)
(* or not (`input`), or is named by the assignment whose run produced it    *)
(* (`out`); a timestamp is one bit: `silent`, assigned_at is older than the *)
(* stale deadline, and `iso`, updated_at was written in ISO-8601 instead of *)
(* as epoch seconds.                                                        *)
(***************************************************************************)
EXTENDS Naturals

CONSTANT MaxRetries          \* tasks.max_retries

ASSUME MaxRetriesAssumption == MaxRetries \in Nat

-----------------------------------------------------------------------------
NoToken == 0                 \* current_assignment_token IS NULL; tokens are 1, 2, ...

Terminal == {"completed", "failed", "cancelled"}
Stored   == {"pending", "downloading", "queued", "assigned"} \cup Terminal

\* "absent": not inserted yet.  "gone": deleted by cleanup_expired.
RowState == Stored \cup {"absent", "gone"}

Row == [state  : RowState,
        retries: Nat,
        token  : Nat,
        silent : BOOLEAN,
        out    : Nat,
        input  : BOOLEAN,
        iso    : BOOLEAN]

NewRow(s) == [state |-> s, retries |-> 0, token |-> NoToken, silent |-> FALSE,
              out |-> NoToken, input |-> s = "queued", iso |-> FALSE]

AbsentRow  == NewRow("absent")
GoneRow    == NewRow("gone")
Exists(r)  == r.state \in Stored

-----------------------------------------------------------------------------
\* What transition() may be asked for: TIMEOUT is asked for and never stored.
Wanted == {"pending", "downloading", "queued", "completed", "failed",
           "cancelled", "timeout"}

ValidTransitions ==
    [s \in Stored |->
        CASE s = "pending"     -> {"downloading", "queued", "failed", "cancelled"}
          [] s = "downloading" -> {"queued", "failed", "pending", "cancelled"}
          [] s = "queued"      -> {"assigned", "cancelled"}
          [] s = "assigned"    -> {"completed", "timeout", "failed", "cancelled"}
          [] OTHER             -> {}]

\* The checks transition() makes on the row it has read; a caller that passes
\* no token (NoToken) is not checked against the row's token.
Permits(r, want, tok) ==
    /\ Exists(r)
    /\ want \in ValidTransitions[r.state]
    /\ r.state = "assigned" /\ tok # NoToken => r.token = tok

\* variant: off by one
CanRetryInclusive(r) == r.retries <= MaxRetries

CanRetry(r) == r.retries < MaxRetries

\* Leaving "assigned" clears `silent`: assigned_at means something only while
\* the row is assigned.
Moved(r, s) == [r EXCEPT !.state = s, !.silent = FALSE, !.iso = FALSE]

\* variants: the token is not cleared; the retry is not counted
RequeuedKeepingToken(r) == [Moved(r, "queued") EXCEPT !.retries = @ + 1]
RequeuedUncounted(r)    == [Moved(r, "queued") EXCEPT !.token = NoToken]

Requeued(r) == [Moved(r, "queued") EXCEPT !.retries = @ + 1, !.token = NoToken]

\* variants: TIMEOUT is stored as it is; a task out of retries is left assigned
TransitionedRaw(r, want, retry)    == Moved(r, want)
TransitionedNoFail(r, want, retry) ==
    IF want # "timeout" THEN Moved(r, want) ELSE IF retry THEN Requeued(r) ELSE r

\* The UPDATE transition() issues for `want`, with can_retry as it was read.
Transitioned(r, want, retry) ==
    IF want # "timeout" THEN Moved(r, want)
    ELSE IF retry THEN Requeued(r)
    ELSE Moved(r, "failed")

Assigned(r, tok) == [Moved(r, "assigned") EXCEPT !.token = tok]

\* A worker signal resets assigned_at, and updated_at with it.
Signalled(r) == [r EXCEPT !.silent = FALSE, !.iso = FALSE]

\* DELETE FROM tasks WHERE id = ?
Deleted(r) == IF Exists(r) THEN GoneRow ELSE r

\* Start-up: every assigned row goes back to the queue, its retries untouched.
Purged(r) ==
    IF r.state = "assigned"
    THEN [Moved(r, "queued") EXCEPT !.token = NoToken]
    ELSE r

\* The bulk UPDATE of a channel job's cancellation; its updated_at is ISO text.
JobCancelled(r) ==
    IF Exists(r) /\ r.state \notin Terminal
    THEN [Moved(r, "cancelled") EXCEPT !.iso = TRUE]
    ELSE r
=============================================================================
