-------------------------- MODULE WorkerProperties --------------------------
(***************************************************************************)
(* What a worker owes the coordinator, and the fairness of its event loop.  *)
(***************************************************************************)
EXTENDS WorkerLoop

HeartbeatOK == [pc : {"off", "send", "sent", "answered", "sleep"},
                tok : 0..MaxToken, valid : BOOLEAN, left : 0..(BeatEvery + 1)]

\* One heartbeat at most, that of the run in hand; the coordinator's answers go
\* with the request that is out.
TypeOK ==
    /\ pc \in {"pull", "fetch_exe", "fetch_input", "run", "upload", "submit", "exited", "killed"}
    /\ pc = "pull" => call \in {"sent", "empty", "task"}
    /\ pc \in {"fetch_exe", "fetch_input"} => call = "sent"
    /\ pc = "upload" => call \in {"sent", "stored", "refused"}
    /\ pc = "submit" => call \in {"sent", "accepted", "refused"}
    /\ pc \in {"run", "exited", "killed"} => call = "none"
    /\ attempt \in 0..(Attempts - 1)
    /\ left \in 0..(FetchTicks + 1)
    /\ tok \in 0..issued /\ issued \in 0..MaxToken
    /\ exit \in {0, 1, 2}
    /\ abort \in BOOLEAN /\ logging \in BOOLEAN
    /\ idle \in 0..(IdleTimeout + 1) /\ age \in 0..(StaleAfter + 1)
    /\ hb \in [Tokens -> HeartbeatOK]
    /\ \A t \in Tokens : hb[t].pc # "off" => t = tok /\ pc \in {"run", "upload", "submit"}
    /\ task \in [state : {"none", "queued", "assigned", "over"}, tok : 0..issued, mine : BOOLEAN]
    /\ missed \in 0..1 /\ dbErrors \in 0..MaxDbErrors

-----------------------------------------------------------------------------
\* An execution is aborted only when its own assignment is gone, never for the
\* answer to a heartbeat of an earlier run (or when the heartbeat handler failed).
AbortJustified == pc = "run" /\ abort => ~Holds(tok) \/ dbErrors > 0

\* An execution none of whose heartbeats was lost keeps its lease: neither the
\* downloads before the first heartbeat nor the gap between two lasts too long.
LeaseLasts == pc = "run" /\ ~abort /\ Holds(tok) /\ missed = 0 => age <= StaleAfter

-----------------------------------------------------------------------------
\* The event loop runs what is ready and requests end; time passes; a heartbeat
\* sent again and again is answered; the coordinator looks for stale assignments.
\* Nothing says when, or whether, a subprocess ends unless it is killed.
Fairness ==
    /\ WF_vars(Pull) /\ WF_vars(Fetch) /\ WF_vars(Report)
    /\ WF_vars(abort /\ \E code \in {0, 1, 2} : RunEnds(code))
    /\ \A t \in Tokens : WF_vars(Beat(t)) /\ SF_vars(BeatServed(t)) /\ SF_vars(BeatAnswered(t))
    /\ WF_vars(RequeueStale)
    /\ SF_vars(Tick)

FairSpec == Spec /\ Fairness

\* A worker that lost its assignment stops executing, however long the execution.
LoserStops == \A t \in Tokens : pc = "run" /\ tok = t /\ ~Holds(t) ~> ~(pc = "run" /\ tok = t)

\* An assignment its worker no longer works on (the answer to the pull was lost, a
\* download or every report failed, the worker is gone) comes back to the queue.
Abandoned(t) == Holds(t) /\ task.mine /\ \/ pc = "pull" /\ call # "task"
                                         \/ pc \in {"exited", "killed"} \/ tok # t

LeaseReleased == \A t \in Tokens : Abandoned(t) ~> ~Holds(t)

\* "Exits on idle timeout": with nothing to execute for ever the worker stops,
\* whether the queue is empty or its pulls are refused.
WorkerExits == []<>(pc # "run") => <>(pc \in {"exited", "killed"})
=============================================================================
