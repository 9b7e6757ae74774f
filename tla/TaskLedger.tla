----------------------------- MODULE TaskLedger -----------------------------
(***************************************************************************)
(* What the task table promises to whoever reads it after a restart: a task *)
(* goes forward through preparation, execution, one final verdict and       *)
(* deletion, and never back across a stage.  Within a stage it may go to    *)
(* and fro (a prepare retry, a requeue).  One commit may carry the pending  *)
(* writes of several coroutines, so a step may move any number of tasks,    *)
(* and a task by several stages.                                            *)
(***************************************************************************)
EXTENDS Naturals

CONSTANT Tasks

VARIABLE status              \* status[t]: the durable state of task t

Verdict == {"completed", "failed", "cancelled"}
Status  == {"absent", "pending", "downloading", "queued", "assigned", "gone"}
           \cup Verdict

Stage(s) == CASE s = "absent"                      -> 0
              [] s \in {"pending", "downloading"}  -> 1
              [] s \in {"queued", "assigned"}      -> 2
              [] s \in Verdict                     -> 3
              [] OTHER                             -> 4

Advance(s, r) == /\ Stage(s) <= Stage(r)
                 /\ s \in Verdict /\ r \in Verdict => s = r

Init == status = [t \in Tasks |-> "absent"]

Next == /\ status' \in [Tasks -> Status]
        /\ \A t \in Tasks : Advance(status[t], status'[t])

Spec == Init /\ [][Next]_status
=============================================================================
