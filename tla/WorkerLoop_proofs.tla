-------------------------- MODULE WorkerLoop_proofs --------------------------
(***************************************************************************)
(* The worker keeps its types, aborts an execution only when its own        *)
(* assignment is gone, and its heartbeats outpace the coordinator's stale   *)
(* deadline, for every number of attempts and every length of the           *)
(* intervals that leaves a lease the time it needs.                         *)
(***************************************************************************)
EXTENDS WorkerProperties, TLAPS

-----------------------------------------------------------------------------
(* The inductive invariant.                                                 *)

Busy == {"fetch_exe", "fetch_input", "run", "upload", "submit"}

\* The answer of a heartbeat is about the run it was sent for, and a refusal
\* that is under way, or was acted upon, has a reason.
Refused(t) == hb[t].pc = "answered" /\ ~hb[t].valid

BeatInv ==
    /\ pc \in Busy \/ call = "task" => tok \in Tokens
    /\ \A t \in Tokens : hb[t].pc \in {"sent", "answered"} => hb[t].tok = t
    /\ pc = "run" =>
        /\ ~abort => logging /\ hb[tok].pc # "off"
        /\ abort \/ Refused(tok) => ~Holds(tok) \/ dbErrors > 0

IInv == TypeOK /\ BeatInv

USE WorkerAssumption

-----------------------------------------------------------------------------
(* Types.                                                                   *)

\* What the parts of the state are, whatever the program counter.
LEMMA Shapes ==
    ASSUME TypeOK
    PROVE  /\ issued \in Nat /\ issued <= MaxToken /\ tok \in Nat /\ tok <= issued
           /\ left \in Nat /\ age \in Nat /\ idle \in Nat /\ missed \in {0, 1}
           /\ hb \in [Tokens -> HeartbeatOK]
           /\ \A t \in Tokens : t \in Nat /\ t > 0
BY DEF TypeOK, Tokens

\* A heartbeat that is not running.
LEMMA OffOK == Off \in HeartbeatOK
BY DEF Off, HeartbeatOK

\* The task while no worker has it.
LEMMA TasksOK ==
    ASSUME issued \in Nat
    PROVE  {NoTask, Queued, Closed}
             \subseteq [state : {"none", "queued", "assigned", "over"}, tok : 0..issued, mine : BOOLEAN]
BY DEF NoTask, Queued, Closed

\* It holds initially.
LEMMA InitIInv == Init => IInv
<1> SUFFICES ASSUME Init PROVE IInv
  OBVIOUS
<1>1. TypeOK
  <2>1. Off \in HeartbeatOK /\ hb \in [Tokens -> HeartbeatOK]
    BY OffOK DEF Init
  <2>3. \A t \in Tokens : hb[t].pc = "off"
    BY DEF Init, Off
  <2>4. task \in [state : {"none", "queued", "assigned", "over"}, tok : 0..issued, mine : BOOLEAN]
    BY TasksOK DEF Init
  <2>5. /\ attempt \in 0..(Attempts - 1) /\ left \in 0..(FetchTicks + 1)
        /\ issued \in 0..MaxToken /\ idle \in 0..(IdleTimeout + 1)
        /\ age \in 0..(StaleAfter + 1) /\ dbErrors \in 0..MaxDbErrors
    BY DEF Init
  <2>6. abort \in BOOLEAN /\ logging \in BOOLEAN
    BY DEF Init
  <2>7. /\ pc = "pull" /\ call = "sent" /\ tok = 0 /\ exit = 0 /\ issued = 0 /\ missed = 0
    BY DEF Init
  <2> QED BY <2>1, <2>3, <2>4, <2>5, <2>6, <2>7 DEF TypeOK
<1>2. BeatInv
  BY DEF Init, BeatInv, Off, Busy
<1> QED BY <1>1, <1>2 DEF IInv

\* The type invariant, one group of actions after the other.
LEMMA PullType == ASSUME TypeOK, Pull PROVE TypeOK'
<1>1. CASE PullServed
  <2>1. CASE Assigned(TRUE) /\ tok' = issued + 1 /\ call' = "task"
    BY <1>1, <2>1 DEF TypeOK, PullServed, Assigned
  <2>2. CASE call' = "empty" /\ UNCHANGED <<tok, lease>>
    BY <1>1, <2>2 DEF TypeOK, PullServed, lease
  <2> QED BY <1>1, <2>1, <2>2 DEF PullServed
<1>2. CASE PullEmpty
  BY <1>2 DEF TypeOK, PullEmpty, NothingToDo, Request, Tokens, HeartbeatOK, lease, loop
<1>3. CASE PullFails
  <2>1. CASE attempt + 1 < Attempts
    BY <1>3, <2>1 DEF TypeOK, PullFails, Request, lease
  <2>2. CASE ~(attempt + 1 < Attempts)
    BY <1>3, <2>2 DEF TypeOK, PullFails, NothingToDo, Request, lease
  <2> QED BY <2>1, <2>2
<1>4. CASE PullTask
  BY <1>4 DEF TypeOK, PullTask, Request, Tokens, HeartbeatOK, lease, loop
<1> QED BY <1>1, <1>2, <1>3, <1>4 DEF Pull

\* The downloads and the start of the run.
LEMMA FetchType == ASSUME TypeOK, Fetch PROVE TypeOK'
<1>1. CASE FetchExecutable
  BY <1>1 DEF TypeOK, FetchExecutable, Request, Tokens, HeartbeatOK, lease, loop
<1>2. CASE FetchFails
  BY <1>2 DEF TypeOK, FetchFails, Request, Tokens, HeartbeatOK, lease, loop
<1>3. CASE StartRun
  <2> DEFINE new == [Off EXCEPT !.pc = "send"]
  <2>1. new \in HeartbeatOK
    BY OffOK DEF HeartbeatOK
  <2>2. hb' = [hb EXCEPT ![tok] = new] /\ hb' \in [Tokens -> HeartbeatOK]
    BY <1>3, <2>1 DEF StartRun, TypeOK
  <2> HIDE DEF new
  <2>3. \A t \in Tokens : hb'[t].pc # "off" => t = tok
    BY <1>3, <2>2 DEF StartRun, TypeOK
  <2>4. abort' \in BOOLEAN /\ logging' \in BOOLEAN
    BY <1>3 DEF StartRun
  <2>5. /\ pc' = "run" /\ attempt' = 0 /\ call' = "none" /\ left' = 0 /\ missed' = 0
        /\ UNCHANGED <<tok, exit, idle, task, age, issued, dbErrors>>
    BY <1>3 DEF StartRun, lease
  <2> QED BY <2>2, <2>3, <2>4, <2>5 DEF TypeOK
<1> QED BY <1>1, <1>2, <1>3 DEF Fetch

\* The end of the run.
LEMMA RunEndsType == ASSUME TypeOK, NEW code \in {0, 1, 2}, RunEnds(code) PROVE TypeOK'
<1>0. /\ abort' \in BOOLEAN /\ logging' \in BOOLEAN /\ pc = "run"
      /\ exit' \in {0, 1, 2} /\ missed' = 0
      /\ UNCHANGED <<tok, idle, task, age, issued, dbErrors>>
  BY DEF RunEnds, TypeOK, lease
<1>1. CASE abort
  <2>1. hb' = [hb EXCEPT ![tok] = Off] /\ hb' \in [Tokens -> HeartbeatOK]
    BY <1>1, OffOK DEF RunEnds, Reap, TypeOK
  <2>2. \A t \in Tokens : hb'[t].pc = "off"
    BY <2>1 DEF TypeOK, Off
  <2>3. Request("pull", 0, 1)
    BY <1>1 DEF RunEnds
  <2> QED BY <1>0, <2>1, <2>2, <2>3 DEF TypeOK, Request
<1>2. CASE ~abort
  <2>1. Request("upload", 0, 0) /\ UNCHANGED hb
    BY <1>2 DEF RunEnds
  <2> QED BY <1>0, <2>1 DEF TypeOK, Request
<1> QED BY <1>1, <1>2

\* Upload and submit.
LEMMA ReportType == ASSUME TypeOK, Report PROVE TypeOK'
<1>1. CASE UploadServed
  BY <1>1 DEF TypeOK, UploadServed, lease
<1>2. CASE Uploaded
  BY <1>2 DEF TypeOK, Uploaded, Request, lease
<1>3. CASE SubmitServed
  <2>1. task' \in [state : {"none", "queued", "assigned", "over"}, tok : 0..issued, mine : BOOLEAN]
    <3>1. task' = task \/ task' \in {Queued, Closed}
      BY <1>3 DEF SubmitServed, Unassigned
    <3> QED BY <3>1, TasksOK DEF TypeOK
  <2>2. age' \in {0, age} /\ call' \in {"accepted", "refused"}
    BY <1>3 DEF SubmitServed, Unassigned
  <2> QED BY <1>3, <2>1, <2>2 DEF TypeOK, SubmitServed
<1>4. ASSUME Reap, pc \in {"upload", "submit"}
      PROVE  hb' \in [Tokens -> HeartbeatOK] /\ \A t \in Tokens : hb'[t].pc = "off"
  BY <1>4, OffOK DEF Reap, TypeOK, Off
<1>5. CASE Accepted
  BY <1>4, <1>5 DEF TypeOK, Accepted, Request, lease
<1>6. CASE ReportFails
  <2>1. CASE attempt + 1 < Attempts
    BY <1>6, <2>1 DEF TypeOK, ReportFails, Request, lease
  <2>2. CASE ~(attempt + 1 < Attempts)
    BY <1>4, <1>6, <2>2 DEF TypeOK, ReportFails, Request, lease
  <2> QED BY <2>1, <2>2
<1> QED BY <1>1, <1>2, <1>3, <1>5, <1>6 DEF Report

\* A heartbeat coroutine moves on, or leaves; the others and the loop stay.
LEMMA BeatEffect ==
    ASSUME TypeOK, NEW t \in Tokens, Beat(t) \/ BeatDbError(t)
    PROVE  /\ hb[t].pc # "off"
           /\ \A u \in Tokens \ {t} : hb'[u] = hb[u]
           /\ hb' \in [Tokens -> HeartbeatOK]
           /\ abort' \in BOOLEAN /\ logging' \in BOOLEAN
           /\ age' \in {0, age} /\ missed' \in {0, 1} /\ dbErrors' \in 0..MaxDbErrors
           /\ UNCHANGED <<pc, attempt, call, left, tok, exit, idle, issued, task>>
<1>1. hb[t] \in HeartbeatOK /\ tok \in 0..MaxToken
  BY DEF TypeOK
<1>2. CASE BeatSend(t)
  <2>1. [pc |-> "sent", tok |-> tok, valid |-> FALSE, left |-> 1] \in HeartbeatOK
    BY <1>1 DEF HeartbeatOK
  <2> QED BY <1>2, <2>1, OffOK DEF BeatSend, Beating, loop, TypeOK
<1>3. CASE BeatServed(t)
  <2>1. [hb[t] EXCEPT !.pc = "answered", !.valid = Holds(hb[t].tok)] \in HeartbeatOK
    BY <1>1 DEF HeartbeatOK, Holds
  <2> QED BY <1>3, <2>1 DEF BeatServed, Beating, loop, TypeOK
<1>4. CASE BeatDbError(t)
  <2>1. [hb[t] EXCEPT !.pc = "answered", !.valid = FALSE] \in HeartbeatOK
    BY <1>1 DEF HeartbeatOK
  <2> QED BY <1>4, <2>1 DEF BeatDbError, Beating, loop, TypeOK
<1>5. [Off EXCEPT !.pc = "sleep", !.left = BeatEvery] \in HeartbeatOK
  <2>1. BeatEvery \in 0..(BeatEvery + 1)
    OBVIOUS
  <2> QED BY <2>1, OffOK DEF HeartbeatOK
<1>6. CASE BeatAnswered(t)
  <2>1. abort' \in BOOLEAN /\ logging' \in BOOLEAN
    BY <1>6 DEF BeatAnswered, TypeOK
  <2>2. \/ hb' = [hb EXCEPT ![t] = Off]
        \/ hb' = [hb EXCEPT ![t] = [Off EXCEPT !.pc = "sleep", !.left = BeatEvery]]
    BY <1>6 DEF BeatAnswered, Asleep
  <2> QED BY <1>5, <1>6, <2>1, <2>2, OffOK DEF BeatAnswered, Beating, loop, TypeOK
<1>7. CASE BeatFails(t)
  BY <1>5, <1>7 DEF BeatFails, Asleep, Beating, loop, TypeOK
<1>8. CASE BeatWakes(t)
  <2>1. [hb[t] EXCEPT !.pc = "send"] \in HeartbeatOK
    BY <1>1 DEF HeartbeatOK
  <2> QED BY <1>8, <2>1 DEF BeatWakes, Beating, loop, TypeOK
<1> QED BY <1>2, <1>3, <1>4, <1>6, <1>7, <1>8 DEF Beat

\* The heartbeats.
LEMMA BeatType ==
    ASSUME TypeOK, NEW t \in Tokens, Beat(t) \/ BeatDbError(t)
    PROVE  TypeOK'
BY BeatEffect DEF TypeOK

\* The coordinator, the other workers.
Outside ==
    \/ NewTask \/ OtherPulls \/ OtherSubmits \/ Cancelled \/ RequeueStale
    \/ CoordinatorRestarts

\* They leave the worker alone and give the task to nobody who had it.
LEMMA OutsideEffect ==
    ASSUME TypeOK, Outside
    PROVE  /\ task' \in [state : {"none", "queued", "assigned", "over"},
                          tok : 0..issued', mine : BOOLEAN]
           /\ issued' \in 0..MaxToken /\ issued <= issued'
           /\ age' \in {0, age}
           /\ task'.state # "assigned" \/ task'.tok > issued
           /\ UNCHANGED <<pc, attempt, call, left, tok, exit, idle, abort, logging, hb,
                          missed, dbErrors>>
<1>1. CASE OtherPulls
  BY <1>1 DEF OtherPulls, Assigned, Elsewhere, loop, TypeOK
<1>2. CASE ~OtherPulls
  <2>1. task' \in {Queued, Closed} /\ age' \in {0, age} /\ issued' = issued /\ Elsewhere
    BY <1>2 DEF Outside, NewTask, OtherSubmits, Cancelled, RequeueStale, CoordinatorRestarts,
                Unassigned
  <2>2. task'.state # "assigned"
    BY <2>1 DEF Queued, Closed
  <2> QED BY <2>1, <2>2, TasksOK DEF Elsewhere, loop, TypeOK
<1> QED BY <1>1, <1>2

\* The coordinator and the other workers.
LEMMA OutsideType == ASSUME TypeOK, Outside PROVE TypeOK'
BY OutsideEffect DEF TypeOK

\* The end of the worker.
LEMMA KilledType == ASSUME TypeOK, Killed PROVE TypeOK'
<1>1. hb' \in [Tokens -> HeartbeatOK] /\ \A t \in Tokens : hb'[t].pc = "off"
  BY OffOK DEF Killed, Off
<1>2. abort' \in BOOLEAN /\ logging' \in BOOLEAN
  BY DEF Killed
<1>3. /\ pc' = "killed" /\ attempt' = 0 /\ call' = "none" /\ left' = 0 /\ missed' = 0
      /\ UNCHANGED <<tok, exit, idle, task, age, issued, dbErrors>>
  BY DEF Killed, lease
<1> QED BY <1>1, <1>2, <1>3 DEF TypeOK

\* What a tick does to the timers.
LEMMA TickEffect ==
    ASSUME TypeOK, Tick
    PROVE  /\ left' \in 0..left /\ (left > 0 => left' = left - 1)
           /\ hb' \in [Tokens -> HeartbeatOK]
           /\ \A t \in Tokens :
                /\ hb'[t].pc = hb[t].pc /\ hb'[t].tok = hb[t].tok
                /\ hb'[t].valid = hb[t].valid
                /\ hb[t].pc \notin {"send", "answered"}
                /\ hb[t].pc \in {"sent", "sleep"} => hb'[t].left + 1 = hb[t].left
           /\ idle' \in 0..(IdleTimeout + 1)
           /\ age' \in 0..(StaleAfter + 1) /\ age' <= age + 1
           /\ UNCHANGED <<pc, attempt, call, tok, exit, abort, logging, task, issued, missed,
                          dbErrors>>
<1>1. ASSUME NEW t \in Tokens
      PROVE  /\ hb'[t] \in HeartbeatOK
             /\ hb'[t].pc = hb[t].pc /\ hb'[t].tok = hb[t].tok /\ hb'[t].valid = hb[t].valid
             /\ hb[t].left > 0 => hb'[t].left + 1 = hb[t].left
  <2>1. hb[t] \in HeartbeatOK
    BY DEF TypeOK
  <2>2. hb'[t] = [hb[t] EXCEPT !.left = Minus1(hb[t].left)]
    BY DEF Tick
  <2> QED BY <2>1, <2>2 DEF HeartbeatOK, Minus1
<1>2. hb' = [t \in Tokens |-> hb'[t]]
  BY DEF Tick
<1>3. hb' \in [Tokens -> HeartbeatOK]
  BY <1>1, <1>2
<1> QED BY <1>1, <1>3 DEF Tick, TypeOK, Minus1

\* The passing of time.
LEMMA TickType == ASSUME TypeOK, Tick PROVE TypeOK'
BY TickEffect DEF TypeOK

\* Every step keeps the types.
LEMMA TypeStep == ASSUME TypeOK, [Next]_vars PROVE TypeOK'
<1>1. CASE UNCHANGED vars
  BY <1>1 DEF TypeOK, vars, loop, lease
<1>2. CASE Next
  BY <1>2, PullType, FetchType, ReportType, RunEndsType, BeatType, OutsideType, KilledType,
     TickType DEF Next, Outside
<1> QED BY <1>1, <1>2
-----------------------------------------------------------------------------
(* Heartbeats and aborts.                                                   *)

\* A pull takes the task in hand, while no heartbeat runs.
LEMMA PullBeat == ASSUME IInv, Pull PROVE BeatInv'
<1>1. pc = "pull" /\ hb' = hb /\ pc' \notin {"run", "fetch_input", "upload", "submit"}
  BY DEF Pull, PullServed, PullEmpty, PullFails, PullTask, NothingToDo, Request
<1>2. \A t \in Tokens : hb[t].pc = "off"
  BY <1>1 DEF IInv, TypeOK
<1>3. pc' = "fetch_exe" \/ call' = "task" => tok' \in Tokens
  <2>1. CASE PullServed
    BY <2>1 DEF IInv, TypeOK, PullServed, Assigned, Tokens
  <2>2. CASE PullTask
    BY <2>2 DEF IInv, BeatInv, PullTask, Request
  <2>3. CASE PullEmpty \/ PullFails
    BY <2>3 DEF PullEmpty, PullFails, NothingToDo, Request
  <2> QED BY <2>1, <2>2, <2>3 DEF Pull
<1> QED BY <1>1, <1>2, <1>3 DEF BeatInv, Busy

\* The run starts with a heartbeat of its own and no abort.
LEMMA FetchBeat == ASSUME IInv, Fetch PROVE BeatInv'
<1>1. /\ pc \in {"fetch_exe", "fetch_input"} /\ tok \in Tokens /\ tok' = tok
      /\ \A t \in Tokens : hb[t].pc = "off"
  BY DEF Fetch, FetchExecutable, FetchFails, StartRun, IInv, BeatInv, Busy, TypeOK
<1>2. CASE StartRun
  <2> DEFINE new == [Off EXCEPT !.pc = "send"]
  <2>1. new.pc = "send"
    BY OffOK DEF HeartbeatOK
  <2>2. hb' = [hb EXCEPT ![tok] = new] /\ hb \in [Tokens -> HeartbeatOK]
    BY <1>2 DEF StartRun, IInv, TypeOK
  <2> HIDE DEF new
  <2>3. hb'[tok].pc = "send" /\ \A t \in Tokens : hb'[t].pc \in {"off", "send"}
    BY <1>1, <2>1, <2>2
  <2>4. /\ ~abort' /\ logging'
    BY <1>2 DEF StartRun
  <2>5. ~Refused(tok)'
    BY <1>1, <2>3 DEF Refused
  <2> QED BY <1>1, <2>3, <2>4, <2>5 DEF BeatInv
<1>3. CASE FetchExecutable \/ FetchFails
  <2>1. hb' = hb /\ pc' # "run"
    BY <1>3 DEF FetchExecutable, FetchFails, Request
  <2> QED BY <1>1, <2>1 DEF BeatInv
<1> QED BY <1>2, <1>3 DEF Fetch

\* The end of a run stops its heartbeat, at once or with the report.
LEMMA ReportBeat ==
    ASSUME IInv, Report \/ \E code \in {0, 1, 2} : RunEnds(code)
    PROVE  BeatInv'
<1>1. pc \in Busy /\ tok' = tok /\ pc' # "run" /\ (pc' = "pull" => call' = "sent")
  BY DEF Report, UploadServed, Uploaded, SubmitServed, Accepted, ReportFails, RunEnds,
         Request, Busy
<1>2. hb' = hb \/ hb' = [hb EXCEPT ![tok] = Off]
  BY DEF Report, UploadServed, Uploaded, SubmitServed, Accepted, ReportFails, RunEnds, Reap
<1>3. \A t \in Tokens : hb'[t].pc \in {"sent", "answered"} => hb'[t].tok = t
  BY <1>2 DEF IInv, TypeOK, BeatInv, Off
<1> QED BY <1>1, <1>3 DEF IInv, BeatInv

\* A heartbeat asks about the run it belongs to, and aborts no other one.
LEMMA BeatBeat ==
    ASSUME IInv, NEW t \in Tokens, Beat(t) \/ BeatDbError(t)
    PROVE  BeatInv'
<1>1. /\ hb[t].pc # "off" /\ t = tok /\ tok \in Tokens /\ hb[t] \in HeartbeatOK
      /\ hb \in [Tokens -> HeartbeatOK]
      /\ \A u \in Tokens \ {t} : hb[u].pc = "off"
  <2>1. TypeOK /\ hb[t].pc # "off"
    BY BeatEffect DEF IInv
  <2> QED BY <2>1 DEF TypeOK
<1>2. /\ \A u \in Tokens \ {t} : hb'[u] = hb[u]
      /\ UNCHANGED <<pc, call, tok, issued, task>>
      /\ Holds(tok)' <=> Holds(tok)
  BY BeatEffect DEF IInv, Holds
<1>3. SUFFICES /\ hb'[t].pc \in {"sent", "answered"} => hb'[t].tok = t
               /\ pc = "run" =>
                    /\ ~abort' => logging' /\ hb'[t].pc # "off"
                    /\ abort' \/ Refused(t)' => ~Holds(t) \/ dbErrors' > 0
  BY <1>1, <1>2 DEF IInv, BeatInv
<1>4. CASE BeatSend(t)
  BY <1>1, <1>4 DEF BeatSend, IInv, BeatInv, Refused, Off
<1>5. CASE BeatServed(t)
  BY <1>1, <1>5 DEF BeatServed, IInv, BeatInv, Refused, HeartbeatOK
<1>6. CASE BeatDbError(t)
  BY <1>1, <1>6 DEF BeatDbError, IInv, BeatInv, Refused, HeartbeatOK, TypeOK
<1>7. CASE BeatAnswered(t)
  <2>1. CASE hb[t].valid
    <3> DEFINE new == [Off EXCEPT !.pc = "sleep", !.left = BeatEvery]
    <3>1. new.pc = "sleep"
      BY OffOK DEF HeartbeatOK
    <3>2. hb' = [hb EXCEPT ![t] = new] /\ UNCHANGED <<abort, logging, dbErrors>>
      BY <1>7, <2>1 DEF BeatAnswered, Asleep
    <3> HIDE DEF new
    <3>3. hb'[t].pc = "sleep"
      BY <1>1, <3>1, <3>2
    <3> QED BY <1>1, <3>2, <3>3 DEF IInv, BeatInv, Refused
  <2>2. CASE ~hb[t].valid
    BY <1>1, <1>7, <2>2 DEF BeatAnswered, IInv, BeatInv, Refused, Off
  <2> QED BY <2>1, <2>2
<1>8. CASE BeatFails(t)
  BY <1>1, <1>8, OffOK DEF BeatFails, Asleep, IInv, BeatInv, Refused, HeartbeatOK
<1>9. CASE BeatWakes(t)
  BY <1>1, <1>9 DEF BeatWakes, IInv, BeatInv, Refused, HeartbeatOK
<1> QED BY <1>4, <1>5, <1>6, <1>7, <1>8, <1>9 DEF Beat

\* Everybody else may only end the assignment.
LEMMA OtherBeat ==
    ASSUME IInv, Outside \/ Killed \/ Tick \/ UNCHANGED vars
    PROVE  BeatInv'
<1>1. CASE Outside
  <2>1. Holds(tok)' => Holds(tok)
    BY <1>1, OutsideEffect, Shapes DEF IInv, Holds
  <2> QED BY <1>1, <2>1, OutsideEffect DEF IInv, BeatInv, Refused
<1>2. CASE Killed
  BY <1>2 DEF Killed, BeatInv, Busy, Off
<1>3. CASE Tick
  <2>1. /\ \A t \in Tokens : hb'[t].pc = hb[t].pc /\ hb'[t].tok = hb[t].tok
                              /\ hb'[t].valid = hb[t].valid
        /\ UNCHANGED <<pc, call, tok, abort, logging, task, dbErrors>>
    BY <1>3, TickEffect DEF IInv
  <2>2. Holds(tok)' <=> Holds(tok)
    BY <2>1 DEF Holds
  <2>3. pc = "run" => tok \in Tokens /\ (Refused(tok)' <=> Refused(tok))
    BY <2>1 DEF IInv, BeatInv, Busy, Refused
  <2> QED BY <2>1, <2>2, <2>3 DEF IInv, BeatInv
<1>4. CASE UNCHANGED vars
  BY <1>4 DEF IInv, BeatInv, Refused, Holds, vars, loop, lease
<1> QED BY <1>1, <1>2, <1>3, <1>4

\* The invariant is inductive.
LEMMA Step == ASSUME IInv, [Next]_vars PROVE IInv'
<1>1. TypeOK'
  BY TypeStep DEF IInv
<1>2. BeatInv'
  BY PullBeat, FetchBeat, ReportBeat, BeatBeat, OtherBeat DEF Next, Outside
<1> QED BY <1>1, <1>2 DEF IInv

\* The inductive invariant holds in every reachable state.
THEOREM Invariance == Spec => []IInv
<1>1. Init => IInv
  BY InitIInv
<1>2. IInv /\ [Next]_vars => IInv'
  BY Step
<1> QED BY <1>1, <1>2, PTL DEF Spec

\* Type correctness; there is one heartbeat at most, that of the run in hand.
THEOREM TypeCorrect == Spec => []TypeOK
<1>1. IInv => TypeOK
  BY DEF IInv
<1> QED BY <1>1, Invariance, PTL

\* An execution is aborted only when its own assignment is gone (or the heartbeat
\* handler failed): never for an answer meant for another run.
THEOREM AbortsAreJustified == Spec => []AbortJustified
<1>1. IInv => AbortJustified
  BY DEF IInv, BeatInv, AbortJustified
<1> QED BY <1>1, Invariance, PTL

-----------------------------------------------------------------------------
(* The lease.                                                               *)

\* Two downloads and the pull, or the interval between two heartbeats, with the
\* request that follows each, fit into the stale deadline.
Timely == /\ 2 * FetchTicks + 2 <= StaleAfter
          /\ BeatEvery + 1 <= StaleAfter

\* The age of the lease when the heartbeat h is at its program counter.
Promptly(h) ==
    /\ h.pc = "send"     => age + 1 <= StaleAfter
    /\ h.pc = "sent"     => age + h.left <= StaleAfter
    /\ h.pc = "answered" => age = 0 /\ h.valid
    /\ h.pc = "sleep"    => age + h.left + 1 <= StaleAfter

LeaseInv ==
    /\ pc = "pull" => left <= 1
    /\ Holds(tok) =>
        /\ pc = "pull" /\ call = "task" => age + left <= 1
        /\ pc = "fetch_exe" => age + left <= 1 + FetchTicks
        /\ pc = "fetch_input" => age + left <= 1 + 2 * FetchTicks
        /\ pc = "run" /\ ~abort /\ missed = 0 => Promptly(hb[tok])

\* The downloads leave the first heartbeat its time.
LEMMA LoopLease ==
    ASSUME Timely, IInv, LeaseInv,
           Pull \/ Fetch \/ Report \/ \E code \in {0, 1, 2} : RunEnds(code)
    PROVE  LeaseInv'
<1> USE Shapes
<1>1. CASE PullServed
  BY <1>1 DEF PullServed, Assigned, LeaseInv, Holds, lease, IInv
<1>2. CASE PullEmpty
  BY <1>2 DEF PullEmpty, NothingToDo, Request, LeaseInv
<1>3. CASE PullFails
  BY <1>3 DEF PullFails, NothingToDo, Request, LeaseInv
<1>4. CASE PullTask
  BY <1>4 DEF PullTask, Request, LeaseInv, Holds, lease, IInv
<1>5. CASE FetchExecutable
  BY <1>5 DEF FetchExecutable, Request, LeaseInv, Holds, lease, IInv
<1>6. CASE FetchFails
  BY <1>6 DEF FetchFails, Request, LeaseInv, Holds, lease, IInv
<1>7. CASE StartRun
  <2> DEFINE new == [Off EXCEPT !.pc = "send"]
  <2>1. new.pc = "send"
    BY OffOK DEF HeartbeatOK
  <2>2. /\ hb' = [hb EXCEPT ![tok] = new] /\ pc' = "run" /\ pc = "fetch_input" /\ age' = age
        /\ Holds(tok)' <=> Holds(tok)
    BY <1>7 DEF StartRun, lease, Holds
  <2> HIDE DEF new
  <2>3. hb'[tok].pc = "send"
    BY <2>1, <2>2 DEF IInv, BeatInv, TypeOK, Busy
  <2>4. Holds(tok) => age + 1 <= StaleAfter
    BY <2>2 DEF LeaseInv, Timely, IInv
  <2> QED BY <1>7, <2>2, <2>3, <2>4 DEF LeaseInv, Promptly, StartRun
<1>8. CASE Report \/ \E code \in {0, 1, 2} : RunEnds(code)
  <2>1. pc' \in {"pull", "upload", "submit"} /\ (pc' = "pull" => call' = "sent" /\ left' = 1)
    BY <1>8 DEF Report, UploadServed, Uploaded, SubmitServed, Accepted, ReportFails, RunEnds,
                Request
  <2> QED BY <2>1 DEF LeaseInv
<1> QED BY <1>1, <1>2, <1>3, <1>4, <1>5, <1>6, <1>7, <1>8 DEF Pull, Fetch

\* A heartbeat that is answered leaves the next one its time.
LEMMA BeatLease ==
    ASSUME Timely, IInv, LeaseInv, NEW t \in Tokens, Beat(t) \/ BeatDbError(t)
    PROVE  LeaseInv'
<1> USE Shapes
<1>1. /\ t = tok /\ hb[t] \in HeartbeatOK /\ hb \in [Tokens -> HeartbeatOK]
      /\ pc \in {"run", "upload", "submit"}
      /\ hb[t].pc \in {"sent", "answered"} => hb[t].tok = t
      /\ pc = "run" /\ ~abort => logging
  BY BeatEffect DEF IInv, TypeOK, BeatInv
<1>2. UNCHANGED <<pc, tok, left, call>> /\ (Holds(tok)' <=> Holds(tok))
  BY BeatEffect DEF IInv, Holds
<1>3. SUFFICES ASSUME Holds(tok), pc = "run", ~abort', missed' = 0
               PROVE  Promptly(hb[t])'
  BY <1>1, <1>2 DEF LeaseInv
<1>4. ASSUME missed = 0, ~abort PROVE Promptly(hb[t])
  BY <1>1, <1>3, <1>4 DEF LeaseInv
<1>5. CASE BeatSend(t)
  BY <1>1, <1>3, <1>4, <1>5 DEF BeatSend, Promptly, IInv
<1>6. CASE BeatServed(t)
  BY <1>1, <1>3, <1>6 DEF BeatServed, Promptly, HeartbeatOK
<1>7. CASE BeatDbError(t)
  BY <1>3, <1>7 DEF BeatDbError
<1>8. CASE BeatAnswered(t)
  <2>1. hb[t].valid /\ missed = 0 /\ ~abort /\ age' = age
    BY <1>3, <1>8 DEF BeatAnswered
  <2>2. age' = 0
    BY <1>4, <1>8, <2>1 DEF BeatAnswered, Promptly
  <2> DEFINE new == [Off EXCEPT !.pc = "sleep", !.left = BeatEvery]
  <2>3. new.pc = "sleep" /\ new.left = BeatEvery
    BY OffOK DEF HeartbeatOK
  <2>4. hb' = [hb EXCEPT ![t] = new]
    BY <1>8, <2>1 DEF BeatAnswered, Asleep
  <2> HIDE DEF new
  <2>5. hb'[t].pc = "sleep" /\ hb'[t].left = BeatEvery
    BY <1>1, <2>3, <2>4
  <2> QED BY <2>2, <2>5 DEF Promptly, Timely
<1>9. CASE BeatFails(t)
  BY <1>1, <1>3, <1>4, <1>9, OffOK DEF BeatFails, Asleep, Promptly, HeartbeatOK, Timely
<1>10. CASE BeatWakes(t)
  <2>1. hb'[t].pc = "send" /\ age' = age
    BY <1>1, <1>10 DEF BeatWakes, HeartbeatOK
  <2>2. Promptly(hb[t]) /\ hb[t].pc = "sleep" /\ hb[t].left = 0
    BY <1>3, <1>4, <1>10 DEF BeatWakes
  <2> QED BY <2>1, <2>2 DEF IInv, Promptly
<1> QED BY <1>5, <1>6, <1>7, <1>8, <1>9, <1>10 DEF Beat

\* Everybody else leaves the lease alone or ends it; a tick takes its time from both.
LEMMA OtherLease ==
    ASSUME Timely, IInv, LeaseInv, Outside \/ Killed \/ Tick \/ UNCHANGED vars
    PROVE  LeaseInv'
<1> USE Shapes
<1>1. CASE Outside
  <2>1. Holds(tok)' => Holds(tok)
    BY <1>1, OutsideEffect DEF IInv, Holds
  <2>2. UNCHANGED <<pc, call, left, tok, abort, hb, missed>>
    BY <1>1, OutsideEffect DEF IInv
  <2>3. age' \in {0, age} /\ age \in Nat /\ left \in Nat
    BY <1>1, OutsideEffect DEF IInv
  <2>4. CASE age' = age
    BY <2>1, <2>2, <2>4 DEF LeaseInv, Promptly
  <2>5. CASE age' = 0
    <3>1. ASSUME Holds(tok), pc = "run", ~abort, missed = 0
          PROVE  (Promptly(hb[tok]))'
      <4>1. Promptly(hb[tok])
        BY <3>1 DEF LeaseInv
      <4>2. hb[tok] \in HeartbeatOK /\ hb'[tok'] = hb[tok]
        BY <2>2, <3>1 DEF IInv, BeatInv, TypeOK, Busy
      <4>3. hb[tok].left \in Nat
        BY <4>2 DEF HeartbeatOK
      <4> QED BY <2>3, <2>5, <4>1, <4>2, <4>3 DEF Promptly
    <3>2. ASSUME Holds(tok)
          PROVE  /\ pc = "pull" => left <= 1
                 /\ pc = "pull" /\ call = "task" => 0 + left <= 1
                 /\ pc = "fetch_exe" => 0 + left <= 1 + FetchTicks
                 /\ pc = "fetch_input" => 0 + left <= 1 + 2 * FetchTicks
      BY <2>3, <3>2 DEF LeaseInv
    <3> QED BY <2>1, <2>2, <2>5, <3>1, <3>2 DEF LeaseInv
  <2> QED BY <2>3, <2>4, <2>5
<1>2. CASE Killed
  BY <1>2 DEF Killed, LeaseInv
<1>3. CASE Tick
  <2>1. ASSUME Holds(tok), pc = "run", ~abort, missed = 0
        PROVE  Promptly(hb[tok])'
    <3>1. hb[tok] \in HeartbeatOK /\ hb'[tok] \in HeartbeatOK /\ tok \in Tokens /\ hb[tok].pc # "off"
      BY <1>3, <2>1, TickEffect DEF IInv, BeatInv, TypeOK, Busy
    <3>2. Promptly(hb[tok])
      BY <2>1 DEF LeaseInv
    <3> QED BY <1>3, <3>1, <3>2, TickEffect DEF IInv, Promptly, HeartbeatOK
  <2>2. pc \in {"pull", "fetch_exe", "fetch_input"} => left > 0
    BY <1>3 DEF Tick, Timed
  <2> QED BY <1>3, <2>1, <2>2, TickEffect DEF IInv, LeaseInv, Holds
<1>4. CASE UNCHANGED vars
  BY <1>4 DEF LeaseInv, Promptly, Holds, vars, loop, lease
<1> QED BY <1>1, <1>2, <1>3, <1>4

\* An execution none of whose heartbeats was lost keeps its lease, if the downloads
\* and the interval leave it the time.
THEOREM LeasesLast ==
    ASSUME Timely
    PROVE  Spec => []LeaseLasts
<1>1. Init => LeaseInv
  BY DEF Init, LeaseInv, Holds, NoTask
<1>2. IInv /\ LeaseInv /\ [Next]_vars => LeaseInv'
  BY LoopLease, BeatLease, OtherLease DEF Next, Outside
<1>3. IInv /\ LeaseInv => LeaseLasts
  <2> SUFFICES ASSUME IInv, LeaseInv, pc = "run", ~abort, Holds(tok), missed = 0
               PROVE  age <= StaleAfter
    BY DEF LeaseLasts
  <2>1. hb[tok].pc # "off" /\ hb[tok] \in HeartbeatOK /\ Promptly(hb[tok])
    BY DEF IInv, BeatInv, TypeOK, LeaseInv, Busy
  <2> QED BY <2>1, Shapes DEF IInv, Promptly, HeartbeatOK
<1> QED BY <1>1, <1>2, <1>3, Invariance, PTL DEF Spec
=============================================================================
