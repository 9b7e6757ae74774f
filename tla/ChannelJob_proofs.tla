-------------------------- MODULE ChannelJob_proofs --------------------------
(***************************************************************************)
(* The tables of the channel jobs keep their types and the promise of       *)
(* ChannelLedger, a delivered row has its files, a verdict stays true of    *)
(* what is durable, and what restarts and rollbacks cost is bounded: for any*)
(* number of jobs, videos, restarts and rollbacks.                          *)
(***************************************************************************)
EXTENDS ChannelProperties, FiniteSetTheorems, WellFoundedInduction, TLAPS

-----------------------------------------------------------------------------
(* The inductive invariant.                                                 *)

ChannelPCs == {"job_commit", "read", "discover", "insert", "list_commit", "set",
               "set_commit", "select", "create", "create_commit", "link", "links_commit"}
SinglePCs  == {"task_commit", "meta", "job_row", "video_row", "register_commit"}
WithTodo   == {"insert", "create", "create_commit", "link"}
Set        == {"discovered", "submitting", "running", "failed"}

\* What a background coroutine must satisfy for its next operation to be sound.
RunSound(x, j, state) ==
    /\ x.pc \in ChannelPCs => j \in ChannelJobs
    /\ x.pc \in SinglePCs => j \in SingleJobs
    /\ x.pc \in WithTodo => x.todo # {}
    /\ x.pc \in {"set", "set_commit"} => x.want \in Set
    /\ x.pc = "idle" => state = "absent"

RunInv == \A j \in Jobs : RunSound(run[j], j, db.job[j])

\* A single job's row is listed with its task.
SingleLinked(table) ==
    \A j \in SingleJobs : Single(j) \in table.listed => Single(j) \in table.linked

\* u may follow t.
Evolves(t, u) ==
    /\ TableOK(u) /\ SingleLinked(u)
    /\ t.listed \subseteq u.listed /\ t.linked \subseteq u.linked
    /\ t.delivered \subseteq u.delivered
    /\ \A j \in Jobs : Phase(t.job[j]) <= Phase(u.job[j])

\* A completed task of a channel job is named by its row for good.
CompletedLinked(table) ==
    \A r \in Rows : r[1] \in ChannelJobs /\ table.task[r] = "completed" => r \in disk.linked

TableInv ==
    /\ SingleLinked(disk) /\ Evolves(disk, db)
    /\ CompletedLinked(db) /\ CompletedLinked(disk)
    /\ db.delivered \subseteq written

SweepInv ==
    /\ \A r \in sweep.rows \cup sweep.row : r[1] \in ChannelJobs => r \in disk.linked
    /\ sweep.pc = "mark" => sweep.row \subseteq written
    /\ sweep.pc \in {"verdict", "verdict_commit"} => sweep.want \in {"done", "partial"}

IInv == TypeOK /\ RunInv /\ TableInv /\ SweepInv

-----------------------------------------------------------------------------
(* Rows, minima and phases.                                                 *)

\* The first of a non-empty set of videos is one of them.
LEMMA FirstIn ==
    ASSUME NEW vs \in SUBSET Videos, vs # {}
    PROVE  First(vs) \in vs
<1> DEFINE Less == {ss \in Nat \X Nat : ss[1] < ss[2]}
<1>1. IsWellFoundedOn(Less, Nat)
  BY NatLessThanWellFounded DEF OpToRel
<1>2. vs \in SUBSET Nat
  BY ChannelAssumption
<1>3. \E x \in vs : \A y \in vs : ~ (<<y, x>> \in Less)
  <2> HIDE DEF Less
  <2> QED BY <1>1, <1>2, WFMin
<1>4. \A x, y \in vs : <<y, x>> \in Less \/ x =< y
  BY <1>2
<1>5. \E x \in vs : \A y \in vs : x =< y
  <2> HIDE DEF Less
  <2> QED BY <1>3, <1>4
<1> QED
  BY <1>5 DEF First

\* The rows are those of the channel jobs and those of the single jobs.
LEMMA RowsCovered ==
    /\ \A j \in ChannelJobs, v \in Videos : <<j, v>> \in Rows
    /\ \A j \in SingleJobs : Single(j) \in Rows /\ Single(j)[1] = j
    /\ \A r \in Rows : r[1] \in ChannelJobs \/ (r[1] \in SingleJobs /\ r = Single(r[1]))
    /\ \A r \in Rows : r[1] \in Jobs
BY DEF Rows, Single, Jobs

\* The phases of a job.
LEMMA Phases ==
    /\ \A s : Phase(s) \in 0..2
    /\ Phase("absent") = 0 /\ Phase("discovering") = 1
    /\ \A s \in Set \cup {"done", "partial", "cancelled"} : Phase(s) = 2
    /\ \A s \in JobStates : Phase(s) = 0 => s = "absent"
BY DEF Phase, Set, JobStates

\* A table follows itself.
LEMMA EvolvesRefl ==
    ASSUME NEW t, TableOK(t), SingleLinked(t)
    PROVE  Evolves(t, t)
BY Phases DEF Evolves

\* Following is transitive.
LEMMA EvolvesTrans ==
    ASSUME NEW t, NEW u, NEW w, Evolves(t, u), Evolves(u, w)
    PROVE  Evolves(t, w)
<1>1. \A j \in Jobs : Phase(t.job[j]) <= Phase(w.job[j])
  BY Phases DEF Evolves
<1> QED BY <1>1 DEF Evolves

-----------------------------------------------------------------------------
(* What the kinds of steps do to the tables, the coroutines and the sweep.  *)

\* An UPDATE or an INSERT.
LEMMA WriteTables ==
    ASSUME IInv, disk' = disk, written \subseteq written', Evolves(db, db'),
           db'.delivered \subseteq written', CompletedLinked(db')
    PROVE  TableInv'
<1>1. Evolves(disk, db')
  BY EvolvesTrans DEF IInv, TableInv
<1> QED BY <1>1 DEF IInv, TableInv, CompletedLinked

\* A commit, whoever makes it.
LEMMA CommitTables ==
    ASSUME IInv, Commit, written' = written
    PROVE  TableInv'
<1>1. db' = db /\ disk' = db
  BY DEF Commit
<1>2. Evolves(db, db)
  BY EvolvesRefl DEF IInv, TableInv, TypeOK, Evolves
<1>3. SingleLinked(db) /\ disk.linked \subseteq db.linked
  BY DEF IInv, TableInv, Evolves
<1>4. CompletedLinked(db)'
  BY <1>1, <1>3 DEF IInv, TableInv, CompletedLinked
<1>5. CompletedLinked(disk)'
  BY <1>1, <1>3 DEF IInv, TableInv, CompletedLinked
<1> QED BY <1>1, <1>2, <1>3, <1>4, <1>5 DEF IInv, TableInv, SingleLinked

\* A rollback, or a restart.
LEMMA RollbackTables ==
    ASSUME IInv, db' = disk, disk' = disk, written' = written
    PROVE  TableInv'
<1>1. Evolves(disk, disk)
  BY EvolvesRefl DEF IInv, TableInv, TypeOK
<1>2. disk.delivered \subseteq written
  BY DEF IInv, TableInv, Evolves
<1> QED BY <1>1, <1>2 DEF IInv, TableInv, CompletedLinked, SingleLinked

\* Nothing of the tables changes.
LEMMA SameTables ==
    ASSUME IInv, db' = db, disk' = disk, written \subseteq written'
    PROVE  TableInv'
BY DEF IInv, TableInv, CompletedLinked, SingleLinked

\* The sweep waits while others work: what is linked stays linked.
LEMMA SweepWaits ==
    ASSUME IInv, sweep' = sweep, disk.linked \subseteq disk'.linked, written \subseteq written'
    PROVE  SweepInv'
BY DEF IInv, SweepInv

\* One coroutine moves.
LEMMA RunMoves ==
    ASSUME IInv, NEW j \in Jobs, NEW x \in Run, run' = [run EXCEPT ![j] = x],
           \A i \in Jobs \ {j} : db.job[i] = "absent" => db'.job[i] = "absent",
           RunSound(x, j, db'.job[j])
    PROVE  RunInv' /\ run' \in [Jobs -> Run]
<1>1. run \in [Jobs -> Run]
  BY DEF IInv, TypeOK
<1>2. \A i \in Jobs : run'[i] = IF i = j THEN x ELSE run[i]
  BY <1>1
<1> QED BY <1>1, <1>2 DEF IInv, RunInv, RunSound

\* None of them moves.
LEMMA RunWaits ==
    ASSUME IInv, run' = run, \A i \in Jobs : db.job[i] = "absent" => db'.job[i] = "absent"
    PROVE  RunInv'
BY DEF IInv, RunInv, RunSound

-----------------------------------------------------------------------------
(* The steps of run_job and of _register_delivery.                          *)

\* Goto and SetState move one coroutine.
LEMMA GotoMoves ==
    ASSUME IInv, NEW j \in Jobs, NEW pc \in RunPCs, Goto(j, pc)
    PROVE  \E x \in Run : /\ run' = [run EXCEPT ![j] = x]
                          /\ x.pc = pc /\ x.todo = run[j].todo /\ x.want = run[j].want
<1>1. run[j] \in Run
  BY DEF IInv, TypeOK
<1> DEFINE x == [run[j] EXCEPT !.pc = pc]
<1>2. x \in Run /\ x.pc = pc /\ x.todo = run[j].todo /\ x.want = run[j].want
  BY <1>1 DEF Run
<1>3. run' = [run EXCEPT ![j] = x]
  BY DEF Goto
<1> QED BY <1>2, <1>3

\* A run that sets its state goes to the UPDATE with that state.
LEMMA SetStateMoves ==
    ASSUME IInv, NEW j \in Jobs, NEW s \in JobStates, SetState(j, s)
    PROVE  \E x \in Run : run' = [run EXCEPT ![j] = x] /\ x.pc = "set" /\ x.want = s
<1>1. run[j] \in Run
  BY DEF IInv, TypeOK
<1> DEFINE x == [run[j] EXCEPT !.pc = "set", !.want = s]
<1>2. x \in Run /\ x.pc = "set" /\ x.want = s
  BY <1>1 DEF Run, RunPCs
<1>3. run' = [run EXCEPT ![j] = x]
  BY DEF SetState
<1> QED BY <1>2, <1>3

\* Goto and SetState, seen from the coroutines.
LEMMA GotoAt ==
    ASSUME IInv, NEW j \in Jobs, NEW pc, Goto(j, pc)
    PROVE  /\ run'[j].pc = pc /\ run'[j].todo = run[j].todo
           /\ \A i \in Jobs \ {j} : run'[i] = run[i]
<1>1. run[j] \in Run /\ run \in [Jobs -> Run]
  BY DEF IInv, TypeOK
<1>2. run' = [run EXCEPT ![j] = [run[j] EXCEPT !.pc = pc]]
  BY DEF Goto
<1> QED BY <1>1, <1>2 DEF Run

\* Setting a state moves no other run.
LEMMA SetStateAt ==
    ASSUME IInv, NEW j \in Jobs, NEW s, SetState(j, s)
    PROVE  run'[j].pc = "set" /\ \A i \in Jobs \ {j} : run'[i] = run[i]
<1>1. run[j] \in Run /\ run \in [Jobs -> Run]
  BY DEF IInv, TypeOK
<1>2. run' = [run EXCEPT ![j] = [run[j] EXCEPT !.pc = "set", !.want = s]]
  BY DEF SetState
<1> QED BY <1>1, <1>2 DEF Run

\* A coroutine that reads, that commits or that writes goes on soundly.
LEMMA ReadStep ==
    ASSUME IInv, NEW j \in Jobs, NEW x \in Run, run' = [run EXCEPT ![j] = x],
           db' = db, disk' = disk, Others(j), RunSound(x, j, db.job[j])
    PROVE  IInv'
<1>1. TableInv' /\ SweepInv'
  BY SameTables, SweepWaits DEF Others
<1>2. RunInv' /\ run' \in [Jobs -> Run]
  BY RunMoves
<1>3. TypeOK'
  BY <1>2 DEF IInv, TypeOK, Others
<1> QED BY <1>1, <1>2, <1>3 DEF IInv

\* A step of one run that commits keeps the invariant if the run is sound after it.
LEMMA CommitStep ==
    ASSUME IInv, NEW j \in Jobs, NEW x \in Run, run' = [run EXCEPT ![j] = x],
           Commit, Others(j), RunSound(x, j, db.job[j])
    PROVE  IInv'
<1>1. db' = db /\ disk' = db
  BY DEF Commit
<1>2. TableInv' /\ SweepInv'
  <2>1. disk.linked \subseteq disk'.linked
    BY <1>1 DEF IInv, TableInv, Evolves
  <2> QED BY <2>1, CommitTables, SweepWaits DEF Others
<1>3. RunInv' /\ run' \in [Jobs -> Run]
  BY <1>1, RunMoves
<1>4. TypeOK'
  BY <1>1, <1>3 DEF IInv, TypeOK, Others
<1> QED BY <1>2, <1>3, <1>4 DEF IInv

\* So does one that writes and leaves the delivered rows alone.
LEMMA WriteStep ==
    ASSUME IInv, NEW j \in Jobs, NEW x \in Run, run' = [run EXCEPT ![j] = x],
           disk' = disk, Others(j), Evolves(db, db'), db'.delivered = db.delivered,
           CompletedLinked(db'),
           \A i \in Jobs \ {j} : db'.job[i] = db.job[i],
           RunSound(x, j, db'.job[j])
    PROVE  IInv'
<1>1. TableInv' /\ SweepInv'
  <2>1. db'.delivered \subseteq written'
    BY DEF Others, IInv, TableInv
  <2> QED BY <2>1, WriteTables, SweepWaits DEF Others
<1>2. RunInv' /\ run' \in [Jobs -> Run]
  BY RunMoves
<1>3. TypeOK'
  BY <1>2 DEF IInv, TypeOK, Others, Evolves
<1> QED BY <1>1, <1>2, <1>3 DEF IInv

\* The commits.
LEMMA RunCommits ==
    ASSUME IInv, NEW j \in Jobs,
           \/ JobCommit(j) \/ ListCommit(j) \/ SetCommit(j) \/ CreateCommit(j)
           \/ LinksCommit(j) \/ TaskCommit(j) \/ RegisterCommit(j)
    PROVE  IInv'
<1>1. Commit /\ Others(j) /\ RunSound(run[j], j, db.job[j])
  BY DEF JobCommit, ListCommit, SetCommit, CreateCommit, LinksCommit, TaskCommit,
         RegisterCommit, IInv, RunInv
<1>2. SUFFICES \E x \in Run : run' = [run EXCEPT ![j] = x] /\ RunSound(x, j, db.job[j])
  BY <1>1, CommitStep
<1>3. CASE ListCommit(j) \/ LinksCommit(j)
  <2>1. PICK s \in Set : SetState(j, s)
    BY <1>3 DEF ListCommit, LinksCommit, Set
  <2>2. PICK x \in Run : run' = [run EXCEPT ![j] = x] /\ x.pc = "set" /\ x.want = s
    BY <2>1, SetStateMoves DEF Set, JobStates
  <2>3. j \in ChannelJobs
    BY <1>1, <1>3 DEF ListCommit, LinksCommit, RunSound, ChannelPCs
  <2> QED BY <2>2, <2>3 DEF RunSound, ChannelPCs, SinglePCs, WithTodo
<1>4. CASE JobCommit(j) \/ SetCommit(j) \/ CreateCommit(j)
  <2>1. j \in ChannelJobs
    BY <1>1, <1>4 DEF JobCommit, SetCommit, CreateCommit, RunSound, ChannelPCs
  <2>2. PICK pc \in {"read", "select", "over", "link"} :
            Goto(j, pc) /\ (pc = "link" => run[j].pc = "create_commit")
    BY <1>4 DEF JobCommit, SetCommit, CreateCommit
  <2>3. PICK x \in Run : run' = [run EXCEPT ![j] = x] /\ x.pc = pc /\ x.todo = run[j].todo
    BY <2>2, GotoMoves DEF RunPCs
  <2> QED BY <1>1, <2>1, <2>2, <2>3 DEF RunSound, ChannelPCs, SinglePCs, WithTodo
<1>5. CASE TaskCommit(j) \/ RegisterCommit(j)
  <2>1. j \in SingleJobs
    BY <1>1, <1>5 DEF TaskCommit, RegisterCommit, RunSound, SinglePCs
  <2>2. PICK pc \in {"meta", "over"} : Goto(j, pc)
    BY <1>5 DEF TaskCommit, RegisterCommit
  <2>3. PICK x \in Run : run' = [run EXCEPT ![j] = x] /\ x.pc = pc
    BY <2>2, GotoMoves DEF RunPCs
  <2> QED BY <2>1, <2>2, <2>3 DEF RunSound, ChannelPCs, SinglePCs, WithTodo
<1> QED
  BY <1>3, <1>4, <1>5

\* The steps that only read.
LEMMA RunReads ==
    ASSUME IInv, NEW j \in Jobs,
           \/ ReadJob(j) \/ DiscoveryFails(j) \/ SelectToSubmit(j) \/ FetchMeta(j)
           \/ \E answered \in SUBSET Playlists : Discover(j, answered)
    PROVE  IInv'
<1>1. db' = db /\ disk' = disk /\ Others(j) /\ RunSound(run[j], j, db.job[j]) /\ run[j] \in Run
  BY DEF ReadJob, DiscoveryFails, SelectToSubmit, FetchMeta, Discover, IInv, RunInv, TypeOK
<1>2. SUFFICES \E x \in Run : run' = [run EXCEPT ![j] = x] /\ RunSound(x, j, db.job[j])
  BY <1>1, ReadStep
<1>3. CASE ReadJob(j) \/ FetchMeta(j)
  <2>1. PICK pc \in {"over", "discover", "job_row"} :
            /\ Goto(j, pc)
            /\ pc = "discover" => j \in ChannelJobs
            /\ pc = "job_row" => j \in SingleJobs
    BY <1>1, <1>3 DEF ReadJob, FetchMeta, RunSound, ChannelPCs, SinglePCs
  <2>2. PICK x \in Run : run' = [run EXCEPT ![j] = x] /\ x.pc = pc
    BY <2>1, GotoMoves DEF RunPCs
  <2> QED BY <2>1, <2>2 DEF RunSound, ChannelPCs, SinglePCs, WithTodo
<1>4. CASE DiscoveryFails(j)
  <2>1. PICK x \in Run : run' = [run EXCEPT ![j] = x] /\ x.pc = "set" /\ x.want = "failed"
    BY <1>4, SetStateMoves DEF DiscoveryFails, JobStates
  <2>2. j \in ChannelJobs
    BY <1>1, <1>4 DEF DiscoveryFails, RunSound, ChannelPCs
  <2> QED BY <2>1, <2>2 DEF RunSound, ChannelPCs, SinglePCs, WithTodo, Set
<1>5. CASE SelectToSubmit(j) \/ \E answered \in SUBSET Playlists : Discover(j, answered)
  <2>1. j \in ChannelJobs
    BY <1>1, <1>5 DEF SelectToSubmit, Discover, RunSound, ChannelPCs
  <2>2. PICK vs \in SUBSET Videos, pc \in {"list_commit", "insert", "links_commit", "create"} :
            /\ run' = [run EXCEPT ![j].pc = pc, ![j].todo = vs]
            /\ pc \in {"insert", "create"} => vs # {}
    <3>1. CASE SelectToSubmit(j)
      <4> DEFINE vs == {v \in Videos : <<j, v>> \in db.listed \ db.linked}
      <4>1. run' = [run EXCEPT ![j].pc = IF vs = {} THEN "links_commit" ELSE "create",
                               ![j].todo = vs]
        BY <3>1 DEF SelectToSubmit
      <4>2. vs \in SUBSET Videos
        OBVIOUS
      <4> HIDE DEF vs
      <4>3. CASE vs = {}
        BY <4>1, <4>2, <4>3
      <4>4. CASE vs # {}
        BY <4>1, <4>2, <4>4
      <4> QED BY <4>3, <4>4
    <3>2. ASSUME NEW answered \in SUBSET Playlists, Discover(j, answered)
          PROVE  \E vs \in SUBSET Videos, pc \in {"list_commit", "insert", "links_commit", "create"} :
                    /\ run' = [run EXCEPT ![j].pc = pc, ![j].todo = vs]
                    /\ pc \in {"insert", "create"} => vs # {}
      <4> DEFINE vs == Cut(Manifest(answered))
      <4>1. run' = [run EXCEPT ![j].pc = IF vs = {} THEN "list_commit" ELSE "insert",
                               ![j].todo = vs]
        BY <3>2 DEF Discover
      <4>2. vs \in SUBSET Videos
        <5>1. Manifest(answered) \subseteq Videos
          BY ChannelAssumption DEF Manifest
        <5> QED BY <5>1 DEF Cut
      <4> HIDE DEF vs
      <4>3. CASE vs = {}
        BY <4>1, <4>2, <4>3
      <4>4. CASE vs # {}
        BY <4>1, <4>2, <4>4
      <4> QED BY <4>3, <4>4
    <3> QED BY <1>5, <3>1, <3>2
  <2> DEFINE x == [run[j] EXCEPT !.pc = pc, !.todo = vs]
  <2>3. x \in Run /\ x.pc = pc /\ x.todo = vs
    BY <1>1 DEF Run, RunPCs
  <2>4. run' = [run EXCEPT ![j] = x]
    BY <2>2
  <2> HIDE DEF x
  <2>5. RunSound(x, j, db.job[j])
    BY <2>1, <2>2, <2>3 DEF RunSound, ChannelPCs, SinglePCs, WithTodo
  <2> QED BY <2>3, <2>4, <2>5
<1> QED
  BY <1>3, <1>4, <1>5

\* A job that enters a state beyond discovery, or that stays absent, moves on.
LEMMA StateEvolves ==
    ASSUME IInv, NEW j \in Jobs, NEW s \in JobStates,
           db' = [db EXCEPT !.job[j] = s], Phase(db.job[j]) <= Phase(s)
    PROVE  /\ Evolves(db, db') /\ db'.delivered = db.delivered /\ CompletedLinked(db')
           /\ db'.job[j] = s /\ \A i \in Jobs \ {j} : db'.job[i] = db.job[i]
<1>1. db \in Table
  BY DEF IInv, TypeOK, TableOK
<1>2. /\ db' \in Table /\ db'.listed = db.listed /\ db'.linked = db.linked
      /\ db'.delivered = db.delivered /\ db'.task = db.task
      /\ db'.job = [db.job EXCEPT ![j] = s]
  BY <1>1 DEF Table
<1>3. db'.job[j] = s /\ \A i \in Jobs \ {j} : db'.job[i] = db.job[i]
  BY <1>1, <1>2 DEF Table
<1>4. TableOK(db') /\ SingleLinked(db') /\ CompletedLinked(db')
  BY <1>2 DEF IInv, TypeOK, TableOK, TableInv, Evolves, SingleLinked, CompletedLinked
<1>5. \A i \in Jobs : Phase(db.job[i]) <= Phase(db'.job[i])
  BY <1>3, Phases
<1> QED BY <1>2, <1>3, <1>4, <1>5 DEF Evolves

\* A new task is not completed.
LEMMA TaskEvolves ==
    ASSUME IInv, NEW r \in Rows, NEW s \in TaskStates, db' = [db EXCEPT !.task[r] = s],
           s = "completed" /\ r[1] \in ChannelJobs => r \in disk.linked
    PROVE  /\ Evolves(db, db') /\ db'.delivered = db.delivered /\ CompletedLinked(db')
           /\ db'.job = db.job
<1>1. db \in Table
  BY DEF IInv, TypeOK, TableOK
<1>2. /\ db' \in Table /\ db'.listed = db.listed /\ db'.linked = db.linked
      /\ db'.delivered = db.delivered /\ db'.job = db.job
      /\ db'.task = [db.task EXCEPT ![r] = s]
  BY <1>1 DEF Table
<1>3. \A q \in Rows : db'.task[q] = IF q = r THEN s ELSE db.task[q]
  BY <1>1, <1>2 DEF Table
<1>4. CompletedLinked(db')
  BY <1>3 DEF IInv, TableInv, CompletedLinked
<1>5. TableOK(db') /\ SingleLinked(db')
  BY <1>2 DEF IInv, TypeOK, TableOK, TableInv, Evolves, SingleLinked
<1> QED BY <1>2, <1>4, <1>5, Phases DEF Evolves

\* A row that is listed, linked or both.
LEMMA RowEvolves ==
    ASSUME IInv, NEW L \in SUBSET Rows, NEW K \in SUBSET Rows, db' \in Table,
           db'.listed = db.listed \cup L, db'.linked = db.linked \cup K,
           db'.delivered = db.delivered, db'.job = db.job, db'.task = db.task,
           K \subseteq db'.listed, \A j \in SingleJobs : Single(j) \in L => Single(j) \in K
    PROVE  Evolves(db, db') /\ CompletedLinked(db')
<1>1. TableOK(db') /\ SingleLinked(db') /\ CompletedLinked(db')
  BY DEF IInv, TypeOK, TableOK, TableInv, Evolves, SingleLinked, CompletedLinked
<1> QED BY <1>1, Phases DEF Evolves

\* The steps of run_job that write.
LEMMA RunWrites ==
    ASSUME IInv, NEW j \in Jobs,
           InsertVideo(j) \/ SetUpdate(j) \/ CreateTask(j) \/ LinkTask(j)
    PROVE  IInv'
<1>1. /\ disk' = disk /\ Others(j) /\ RunSound(run[j], j, db.job[j]) /\ run[j] \in Run
      /\ db \in Table
  BY DEF InsertVideo, SetUpdate, CreateTask, LinkTask, IInv, RunInv, TypeOK, TableOK
<1>2. j \in ChannelJobs /\ j \notin SingleJobs
  BY <1>1, ChannelAssumption
     DEF InsertVideo, SetUpdate, CreateTask, LinkTask, RunSound, ChannelPCs
<1>3. run[j].pc \in WithTodo => First(run[j].todo) \in Videos /\ First(run[j].todo) \in run[j].todo
  <2>1. run[j].todo \in SUBSET Videos
    BY <1>1 DEF Run
  <2> QED BY <1>1, <2>1, FirstIn DEF RunSound
<1>4. CASE InsertVideo(j) \/ LinkTask(j)
  <2> DEFINE v == First(run[j].todo)
  <2>1. v \in Videos /\ v \in run[j].todo /\ <<j, v>> \in Rows
    BY <1>2, <1>3, <1>4, RowsCovered DEF InsertVideo, LinkTask, WithTodo
  <2>2. Evolves(db, db') /\ db'.delivered = db.delivered /\ CompletedLinked(db') /\ db'.job = db.job
    <3>1. CASE InsertVideo(j)
      <4>1. db' = [db EXCEPT !.listed = @ \cup {<<j, v>>}]
        BY <3>1 DEF InsertVideo
      <4> HIDE DEF v
      <4>2. /\ db' \in Table
            /\ db'.listed = db.listed \cup {<<j, v>>} /\ db'.linked = db.linked \cup {}
            /\ db'.delivered = db.delivered /\ db'.job = db.job /\ db'.task = db.task
        BY <1>1, <2>1, <4>1 DEF Table
      <4> DEFINE L == {<<j, v>>}
                 K == {}
      <4>3. /\ L \in SUBSET Rows /\ K \in SUBSET Rows /\ K \subseteq db'.listed
            /\ \A i \in SingleJobs : Single(i) \in L => Single(i) \in K
        BY <1>2, <2>1 DEF Single
      <4>4. db'.listed = db.listed \cup L /\ db'.linked = db.linked \cup K
        BY <4>2
      <4> HIDE DEF L, K
      <4> QED BY <4>2, <4>3, <4>4, RowEvolves
    <3>2. CASE LinkTask(j)
      <4> DEFINE K == {<<j, v>>} \cap db.listed
      <4>1. db' = [db EXCEPT !.linked = @ \cup K]
        BY <3>2 DEF LinkTask
      <4> HIDE DEF v
      <4>2. K \in SUBSET Rows /\ K \subseteq db.listed
        BY <2>1
      <4> HIDE DEF K
      <4>3. /\ db' \in Table
            /\ db'.listed = db.listed \cup {} /\ db'.linked = db.linked \cup K
            /\ db'.delivered = db.delivered /\ db'.job = db.job /\ db'.task = db.task
        BY <1>1, <4>1, <4>2 DEF Table
      <4> QED BY <4>2, <4>3, RowEvolves
    <3> QED BY <1>4, <3>1, <3>2
  <2>3. PICK pc \in {"insert", "list_commit", "create", "links_commit"} :
            /\ run' = [run EXCEPT ![j].todo = @ \ {v}, ![j].pc = pc]
            /\ pc \in {"insert", "create"} => run[j].todo # {v}
    BY <1>4 DEF InsertVideo, LinkTask
  <2> HIDE DEF v
  <2> DEFINE x == [run[j] EXCEPT !.todo = @ \ {v}, !.pc = pc]
  <2>4. x \in Run /\ x.pc = pc /\ x.todo = run[j].todo \ {v}
    BY <1>1 DEF Run, RunPCs
  <2>5. run' = [run EXCEPT ![j] = x]
    BY <2>3
  <2> HIDE DEF x
  <2>6. x.pc \in WithTodo => x.todo # {}
    BY <2>1, <2>3, <2>4 DEF WithTodo
  <2>7. RunSound(x, j, db'.job[j])
    BY <1>2, <2>3, <2>4, <2>6 DEF RunSound, ChannelPCs, SinglePCs
  <2> QED BY <1>1, <2>2, <2>4, <2>5, <2>7, WriteStep
<1>5. CASE SetUpdate(j)
  <2> DEFINE s == IF db.job[j] = "absent" THEN db.job[j] ELSE run[j].want
  <2>1. db' = [db EXCEPT !.job[j] = s]
    BY <1>5 DEF SetUpdate
  <2>2. run[j].want \in Set /\ db.job[j] \in JobStates
    BY <1>1, <1>5 DEF SetUpdate, RunSound, Table
  <2>3. s \in JobStates /\ Phase(db.job[j]) <= Phase(s)
    BY <2>2, Phases DEF Set, JobStates
  <2> HIDE DEF s
  <2>4. /\ Evolves(db, db') /\ db'.delivered = db.delivered /\ CompletedLinked(db')
        /\ \A i \in Jobs \ {j} : db'.job[i] = db.job[i]
    BY <2>1, <2>3, StateEvolves
  <2>5. PICK x \in Run : run' = [run EXCEPT ![j] = x] /\ x.pc = "set_commit" /\ x.want = run[j].want
    BY <1>5, GotoMoves DEF SetUpdate, RunPCs
  <2>6. RunSound(x, j, db'.job[j])
    BY <1>2, <2>2, <2>5 DEF RunSound, ChannelPCs, SinglePCs, WithTodo
  <2> QED BY <1>1, <2>4, <2>5, <2>6, WriteStep
<1>6. CASE CreateTask(j)
  <2> DEFINE r == <<j, First(run[j].todo)>>
  <2>1. r \in Rows /\ db' = [db EXCEPT !.task[r] = "live"]
    BY <1>2, <1>3, <1>6, RowsCovered DEF CreateTask, WithTodo
  <2> HIDE DEF r
  <2>2. /\ Evolves(db, db') /\ db'.delivered = db.delivered /\ CompletedLinked(db')
        /\ db'.job = db.job
    BY <2>1, TaskEvolves DEF TaskStates
  <2>3. PICK x \in Run : run' = [run EXCEPT ![j] = x] /\ x.pc = "create_commit" /\ x.todo = run[j].todo
    BY <1>6, GotoMoves DEF CreateTask, RunPCs
  <2>4. RunSound(x, j, db'.job[j])
    BY <1>1, <1>2, <1>6, <2>3 DEF CreateTask, RunSound, ChannelPCs, SinglePCs, WithTodo
  <2> QED BY <1>1, <2>2, <2>3, <2>4, WriteStep
<1> QED
  BY <1>4, <1>5, <1>6

\* Submissions, and the registration of a delivery.
LEMMA RegisterWrites ==
    ASSUME IInv, NEW j \in Jobs,
           SubmitChannel(j) \/ SubmitSingle(j) \/ RegisterJob(j) \/ RegisterVideo(j)
    PROVE  IInv'
<1>1. /\ disk' = disk /\ Others(j) /\ RunSound(run[j], j, db.job[j]) /\ run[j] \in Run
      /\ db \in Table
  BY DEF SubmitChannel, SubmitSingle, RegisterJob, RegisterVideo, IInv, RunInv, TypeOK, TableOK
<1>2. CASE SubmitChannel(j)
  <2>1. db.job[j] = "absent" /\ j \in ChannelJobs
    BY <1>1, <1>2 DEF SubmitChannel, Submits, RunSound
  <2>2. /\ Evolves(db, db') /\ db'.delivered = db.delivered /\ CompletedLinked(db')
        /\ \A i \in Jobs \ {j} : db'.job[i] = db.job[i]
    <3>1. db' = [db EXCEPT !.job[j] = "discovering"]
      BY <1>2 DEF SubmitChannel
    <3>2. Phase(db.job[j]) <= Phase("discovering") /\ "discovering" \in JobStates
      BY <2>1, Phases DEF JobStates
    <3> QED BY <3>1, <3>2, StateEvolves
  <2>3. PICK x \in Run : run' = [run EXCEPT ![j] = x] /\ x.pc = "job_commit"
    BY <1>2, GotoMoves DEF SubmitChannel, RunPCs
  <2>4. RunSound(x, j, db'.job[j])
    BY <2>1, <2>3 DEF RunSound, ChannelPCs, SinglePCs, WithTodo
  <2> QED BY <1>1, <2>2, <2>3, <2>4, WriteStep
<1>3. CASE SubmitSingle(j)
  <2>1. j \in SingleJobs /\ Single(j) \in Rows
    BY <1>3, RowsCovered DEF SubmitSingle
  <2>2. /\ Evolves(db, db') /\ db'.delivered = db.delivered /\ CompletedLinked(db')
        /\ db'.job = db.job
    BY <1>3, <2>1, TaskEvolves DEF SubmitSingle, TaskStates
  <2>3. PICK x \in Run : run' = [run EXCEPT ![j] = x] /\ x.pc = "task_commit"
    BY <1>3, GotoMoves DEF SubmitSingle, RunPCs
  <2>4. RunSound(x, j, db'.job[j])
    BY <2>1, <2>3 DEF RunSound, ChannelPCs, SinglePCs, WithTodo
  <2> QED BY <1>1, <2>2, <2>3, <2>4, WriteStep
<1>4. CASE RegisterJob(j)
  <2> DEFINE s == IF db.job[j] = "absent" THEN "running" ELSE db.job[j]
  <2>1. j \in SingleJobs /\ db' = [db EXCEPT !.job[j] = s]
    BY <1>1, <1>4 DEF RegisterJob, RunSound, SinglePCs
  <2>2. s \in JobStates /\ Phase(db.job[j]) <= Phase(s)
    <3>1. db.job[j] \in JobStates
      BY <1>1 DEF Table
    <3> QED BY <3>1, Phases DEF JobStates
  <2> HIDE DEF s
  <2>3. /\ Evolves(db, db') /\ db'.delivered = db.delivered /\ CompletedLinked(db')
        /\ \A i \in Jobs \ {j} : db'.job[i] = db.job[i]
    BY <2>1, <2>2, StateEvolves
  <2>4. PICK x \in Run : run' = [run EXCEPT ![j] = x] /\ x.pc = "video_row"
    BY <1>4, GotoMoves DEF RegisterJob, RunPCs
  <2>5. RunSound(x, j, db'.job[j])
    BY <2>1, <2>4 DEF RunSound, ChannelPCs, SinglePCs, WithTodo
  <2> QED BY <1>1, <2>3, <2>4, <2>5, WriteStep
<1>5. CASE RegisterVideo(j)
  <2>1. j \in SingleJobs /\ Single(j) \in Rows
    BY <1>1, <1>5, RowsCovered DEF RegisterVideo, RunSound, SinglePCs
  <2>2. /\ db' \in Table
        /\ db'.listed = db.listed \cup {Single(j)} /\ db'.linked = db.linked \cup {Single(j)}
        /\ db'.delivered = db.delivered /\ db'.job = db.job /\ db'.task = db.task
    BY <1>1, <1>5, <2>1 DEF RegisterVideo, Table
  <2>3. Evolves(db, db') /\ CompletedLinked(db')
    <3> DEFINE L == {Single(j)}
    <3>1. /\ L \in SUBSET Rows /\ L \subseteq db'.listed
          /\ db'.listed = db.listed \cup L /\ db'.linked = db.linked \cup L
      BY <2>1, <2>2
    <3> HIDE DEF L
    <3> QED BY <2>2, <3>1, RowEvolves
  <2>4. PICK x \in Run : run' = [run EXCEPT ![j] = x] /\ x.pc = "register_commit"
    BY <1>5, GotoMoves DEF RegisterVideo, RunPCs
  <2>5. RunSound(x, j, db'.job[j])
    BY <2>1, <2>4 DEF RunSound, ChannelPCs, SinglePCs, WithTodo
  <2> QED BY <1>1, <2>2, <2>3, <2>4, <2>5, WriteStep
<1> QED
  BY <1>2, <1>3, <1>4, <1>5

-----------------------------------------------------------------------------
(* Cancels, the sweep, the tasks and the other coroutines.                  *)

CancelStates == {"none", "tasks", "state", "commit", "answered", "lost"}

\* A step of another coroutine than run_job's.
LEMMA OtherStep ==
    ASSUME IInv, run' = run, TableInv', SweepInv', TableOK(disk'), sweep' \in Sweep,
           cancel' \in [Jobs -> CancelStates], written' \subseteq Rows,
           crashes' \in 0..MaxCrashes, rollbacks' \in 0..MaxRollbacks,
           \A i \in Jobs : db.job[i] = "absent" => db'.job[i] = "absent"
    PROVE  IInv'
<1>1. RunInv'
  BY RunWaits
<1>2. TypeOK'
  <2>1. run' \in [Jobs -> Run]
    BY DEF IInv, TypeOK
  <2>2. TableOK(db')
    BY DEF TableInv, Evolves
  <2> QED BY <2>1, <2>2 DEF TypeOK, CancelStates
<1> QED BY <1>1, <1>2 DEF IInv

\* The cancel of a job that exists leaves it beyond discovery.
LEMMA CancelOK ==
    ASSUME IInv, NEW j \in Jobs, CancelStart(j) \/ CancelJob(j)
    PROVE  IInv'
<1>1. /\ UNCHANGED <<run, sweep, written, crashes, rollbacks>>
      /\ cancel' \in [Jobs -> CancelStates] /\ db \in Table
  BY DEF CancelStart, CancelJob, CancelTasks, CancelState, CancelCommit, IInv, TypeOK, TableOK,
         CancelStates
<1>2. /\ TableOK(disk) /\ TableOK(db) /\ sweep \in Sweep /\ written \subseteq Rows
      /\ crashes \in 0..MaxCrashes /\ rollbacks \in 0..MaxRollbacks
  BY DEF IInv, TypeOK
<1>3. CASE CancelStart(j)
  <2>1. db' = db /\ disk' = disk
    BY <1>3 DEF CancelStart
  <2> QED BY <1>1, <1>2, <2>1, SameTables, SweepWaits, OtherStep
<1>4. CASE CancelTasks(j)
  <2> DEFINE tasks == [r \in Rows |-> IF r[1] = j /\ j \in ChannelJobs /\ db.task[r] = "live"
                                      THEN "ended" ELSE db.task[r]]
  <2>1. db' = [db EXCEPT !.task = tasks] /\ disk' = disk
    BY <1>4 DEF CancelTasks
  <2>2. tasks \in [Rows -> TaskStates]
    BY <1>1 DEF Table, TaskStates
  <2>3. \A r \in Rows : tasks[r] = "completed" => db.task[r] = "completed"
    OBVIOUS
  <2> HIDE DEF tasks
  <2>4. /\ db' \in Table /\ db'.listed = db.listed /\ db'.linked = db.linked
        /\ db'.delivered = db.delivered /\ db'.job = db.job /\ db'.task = tasks
    BY <1>1, <2>1, <2>2 DEF Table
  <2>5. TableOK(db') /\ SingleLinked(db')
    BY <2>4 DEF IInv, TypeOK, TableOK, TableInv, Evolves, SingleLinked
  <2>6. Evolves(db, db') /\ CompletedLinked(db')
    BY <2>3, <2>4, <2>5, Phases DEF Evolves, IInv, TableInv, CompletedLinked
  <2>7. TableInv' /\ SweepInv'
    BY <1>1, <2>1, <2>4, <2>6, WriteTables, SweepWaits DEF IInv, TableInv
  <2> QED BY <1>1, <1>2, <2>1, <2>4, <2>7, OtherStep
<1>5. CASE CancelState(j)
  <2> DEFINE s == IF db.job[j] = "absent" THEN db.job[j] ELSE "cancelled"
  <2>1. db' = [db EXCEPT !.job[j] = s] /\ disk' = disk
    BY <1>5 DEF CancelState
  <2>2. s \in JobStates /\ Phase(db.job[j]) <= Phase(s) /\ (db.job[j] = "absent" => s = "absent")
    <3>1. db.job[j] \in JobStates
      BY <1>1 DEF Table
    <3> QED BY <3>1, Phases DEF JobStates
  <2> HIDE DEF s
  <2>3. /\ Evolves(db, db') /\ db'.delivered = db.delivered /\ CompletedLinked(db')
        /\ \A i \in Jobs : db.job[i] = "absent" => db'.job[i] = "absent"
    BY <2>1, <2>2, StateEvolves
  <2>4. TableInv' /\ SweepInv'
    BY <1>1, <2>1, <2>3, WriteTables, SweepWaits DEF IInv, TableInv
  <2> QED BY <1>1, <1>2, <2>1, <2>3, <2>4, OtherStep
<1>6. CASE CancelCommit(j)
  <2>1. Commit /\ db' = db /\ disk' = db
    BY <1>6 DEF CancelCommit, Commit
  <2>2. disk.linked \subseteq disk'.linked
    BY <2>1 DEF IInv, TableInv, Evolves
  <2> QED BY <1>1, <1>2, <2>1, <2>2, CommitTables, SweepWaits, OtherStep
<1> QED
  BY <1>3, <1>4, <1>5, <1>6 DEF CancelJob

\* The task of a row moves; a completed one was linked first.
LEMMA TaskOK ==
    ASSUME IInv, NEW r \in Rows, Settles(r) \/ TaskDeleted(r)
    PROVE  IInv'
<1>1. PICK s \in TaskStates : TaskMoves(r, s) /\ (s = "completed" /\ r[1] \in ChannelJobs => r \in disk.linked)
  BY DEF Settles, TaskCompletes, TaskEnds, TaskDeleted, TaskStates
<1>2. db' = [db EXCEPT !.task[r] = s] /\ UNCHANGED <<disk, run, cancel, sweep, written, crashes, rollbacks>>
  BY <1>1 DEF TaskMoves
<1>3. /\ Evolves(db, db') /\ db'.delivered = db.delivered /\ CompletedLinked(db')
      /\ db'.job = db.job
  BY <1>1, <1>2, TaskEvolves
<1>4. TableInv' /\ SweepInv'
  BY <1>2, <1>3, WriteTables, SweepWaits DEF IInv, TableInv
<1> QED BY <1>2, <1>3, <1>4, OtherStep DEF IInv, TypeOK, CancelStates

\* Foreign commits and rollbacks, and restarts.
LEMMA ForeignOK ==
    ASSUME IInv, OtherCommit \/ OtherRollback \/ Restart
    PROVE  IInv'
<1>1. CASE OtherCommit
  <2>1. Commit /\ db' = db /\ disk' = db /\ UNCHANGED <<run, cancel, sweep, written, crashes, rollbacks>>
    BY <1>1 DEF OtherCommit, Commit
  <2>2. disk.linked \subseteq disk'.linked
    BY <2>1 DEF IInv, TableInv, Evolves
  <2> QED BY <2>1, <2>2, CommitTables, SweepWaits, OtherStep DEF IInv, TypeOK, CancelStates
<1>2. \A j \in Jobs : db.job[j] = "absent" => disk.job[j] = "absent"
  <2> SUFFICES ASSUME NEW j \in Jobs, db.job[j] = "absent" PROVE disk.job[j] = "absent"
    OBVIOUS
  <2>1. disk.job[j] \in JobStates /\ Phase(disk.job[j]) <= Phase(db.job[j])
    BY DEF IInv, TypeOK, TableOK, Table, TableInv, Evolves
  <2> QED BY <2>1, Phases
<1>3. CASE OtherRollback
  <2>1. db' = disk /\ UNCHANGED <<disk, run, cancel, sweep, written, crashes>> /\ rollbacks' = rollbacks + 1
    BY <1>3 DEF OtherRollback
  <2>2. rollbacks' \in 0..MaxRollbacks
    BY <1>3, <2>1, ChannelAssumption DEF OtherRollback, IInv, TypeOK
  <2> QED BY <1>2, <2>1, <2>2, RollbackTables, SweepWaits, OtherStep DEF IInv, TypeOK, CancelStates
<1>4. CASE Restart
  <2>1. db' = disk /\ UNCHANGED <<disk, written, rollbacks>> /\ sweep' = Waiting
    BY <1>4 DEF Restart
  <2>2. crashes' \in 0..MaxCrashes
    BY <1>4, ChannelAssumption DEF Restart, IInv, TypeOK
  <2>3. TableInv'
    BY <2>1, RollbackTables
  <2>4. SweepInv' /\ sweep' \in Sweep
    BY <2>1 DEF SweepInv, Waiting, Sweep, SweepPCs, JobStates
  <2>5. /\ run' \in [Jobs -> Run]
        /\ \A j \in Jobs : /\ run'[j].pc \in {"idle", "over"}
                           /\ run'[j].pc = "idle" => run[j].pc = "idle"
    BY <1>4 DEF Restart, Asleep, Run, RunPCs, JobStates
  <2>6. RunInv'
    BY <1>2, <2>1, <2>5 DEF IInv, RunInv, RunSound, ChannelPCs, SinglePCs, WithTodo
  <2>7. cancel' \in [Jobs -> CancelStates]
    BY <1>4 DEF Restart, IInv, TypeOK, CancelStates
  <2>8. TypeOK'
    BY <2>1, <2>2, <2>4, <2>5, <2>7 DEF IInv, TypeOK, CancelStates
  <2> QED BY <2>3, <2>4, <2>6, <2>8 DEF IInv
<1> QED
  BY <1>1, <1>3, <1>4

\* The sweep with a row less.
LEMMA NextRowSound ==
    ASSUME NEW s \in Sweep, NEW rows \in SUBSET s.rows, NEW count \in BOOLEAN
    PROVE  /\ NextRow(s, rows, count) \in Sweep
           /\ NextRow(s, rows, count).rows = rows /\ NextRow(s, rows, count).row = {}
           /\ NextRow(s, rows, count).pc \in {"row", "deliver_commit", "jobs"}
<1> DEFINE pc == IF rows # {} THEN "row" ELSE IF count THEN "deliver_commit" ELSE "jobs"
<1>1. pc \in {"row", "deliver_commit", "jobs"}
  OBVIOUS
<1>2. NextRow(s, rows, count) = [s EXCEPT !.rows = rows, !.row = {}, !.count = count, !.pc = pc]
  BY DEF NextRow
<1>3. rows \subseteq Rows
  BY DEF Sweep
<1> HIDE DEF pc
<1> QED BY <1>1, <1>2, <1>3 DEF Sweep, SweepPCs

\* The sweep with a job less.
LEMMA NextJobSound ==
    ASSUME NEW s, NEW jobs \in SUBSET Jobs
    PROVE  /\ NextJob(s, jobs) \in Sweep
           /\ NextJob(s, jobs).rows = {} /\ NextJob(s, jobs).row = {}
           /\ NextJob(s, jobs).jobs = jobs /\ NextJob(s, jobs).job = {}
           /\ NextJob(s, jobs).pc \in {"sleep", "count"}
<1> DEFINE pc == IF jobs = {} THEN "sleep" ELSE "count"
<1>1. pc \in {"sleep", "count"}
  OBVIOUS
<1>2. NextJob(s, jobs) = [Waiting EXCEPT !.jobs = jobs, !.pc = pc]
  BY DEF NextJob
<1> HIDE DEF pc
<1> QED BY <1>1, <1>2 DEF Waiting, Sweep, SweepPCs, JobStates

\* A step of the sweep that leaves the tables.
LEMMA SweepReads ==
    ASSUME IInv, Swept, db' = db, disk' = disk, written \subseteq written', written' \subseteq Rows,
           sweep' \in Sweep, SweepInv'
    PROVE  IInv'
BY SameTables, OtherStep DEF IInv, TypeOK, Swept, CancelStates

\* deliver_completed.
LEMMA DeliverOK ==
    ASSUME IInv, Deliver
    PROVE  IInv'
<1>1. Swept /\ sweep \in Sweep /\ written \subseteq Rows /\ db \in Table
  BY DEF Deliver, DeliverSelect, DeliverMark, DeliverCommit, DeliverSkips, DeliverWrite, IInv,
         TypeOK, TableOK
<1>2. CASE DeliverSelect
  <2> DEFINE pc == IF Deliverable = {} THEN "jobs" ELSE "row"
  <2>1. /\ sweep' = [sweep EXCEPT !.rows = Deliverable, !.count = FALSE, !.pc = pc]
        /\ db' = db /\ disk' = disk /\ written' = written
    BY <1>2 DEF DeliverSelect
  <2>2. pc \in {"jobs", "row"}
    OBVIOUS
  <2>3. Deliverable \subseteq Rows /\ \A r \in Deliverable : db.task[r] = "completed"
    BY <1>1 DEF Deliverable, Table
  <2> HIDE DEF pc
  <2>4. /\ sweep' \in Sweep /\ sweep'.rows = Deliverable /\ sweep'.row = sweep.row
        /\ sweep'.pc \in {"jobs", "row"}
    BY <1>1, <2>1, <2>2, <2>3 DEF Sweep, SweepPCs
  <2>5. SweepInv'
    BY <2>1, <2>3, <2>4 DEF IInv, SweepInv, TableInv, CompletedLinked
  <2> QED BY <1>1, <2>1, <2>4, <2>5, SweepReads
<1>3. ASSUME NEW r \in Rows, DeliverSkips(r)
      PROVE  IInv'
  <2>1. /\ sweep' = NextRow(sweep, sweep.rows \ {r}, sweep.count)
        /\ db' = db /\ disk' = disk /\ written \subseteq written' /\ written' \subseteq Rows
    BY <1>1, <1>3 DEF DeliverSkips
  <2>2. sweep.count \in BOOLEAN
    BY <1>1 DEF Sweep
  <2>3. /\ sweep' \in Sweep /\ sweep'.rows = sweep.rows \ {r} /\ sweep'.row = {}
        /\ sweep'.pc \in {"row", "deliver_commit", "jobs"}
    <3> DEFINE rows == sweep.rows \ {r}
    <3>1. rows \in SUBSET sweep.rows /\ sweep' = NextRow(sweep, rows, sweep.count)
      BY <2>1
    <3> HIDE DEF rows
    <3>2. /\ sweep' \in Sweep /\ sweep'.rows = rows /\ sweep'.row = {}
          /\ sweep'.pc \in {"row", "deliver_commit", "jobs"}
      BY <1>1, <2>2, <3>1, NextRowSound
    <3> QED BY <3>2 DEF rows
  <2>4. SweepInv'
    BY <2>1, <2>3 DEF IInv, SweepInv
  <2> QED BY <1>1, <2>1, <2>3, <2>4, SweepReads
<1>4. ASSUME NEW r \in Rows, DeliverWrite(r)
      PROVE  IInv'
  <2>1. /\ sweep' = [sweep EXCEPT !.pc = "mark", !.row = {r}, !.rows = @ \ {r}]
        /\ r \in sweep.rows
        /\ db' = db /\ disk' = disk /\ written' = written \cup {r}
    BY <1>4 DEF DeliverWrite
  <2>2. /\ sweep' \in Sweep /\ sweep'.rows = sweep.rows \ {r} /\ sweep'.row = {r}
        /\ sweep'.pc = "mark"
    BY <1>1, <2>1 DEF Sweep, SweepPCs
  <2>3. SweepInv'
    BY <2>1, <2>2 DEF IInv, SweepInv
  <2> QED BY <1>1, <2>1, <2>2, <2>3, SweepReads
<1>5. CASE DeliverMark
  <2>1. /\ db' = [db EXCEPT !.delivered = @ \cup (sweep.row \cap db.listed)]
        /\ sweep' = NextRow(sweep, sweep.rows, TRUE)
        /\ disk' = disk /\ written' = written
    BY <1>5 DEF DeliverMark
  <2>2. /\ db' \in Table /\ db'.delivered = db.delivered \cup (sweep.row \cap db.listed)
        /\ db'.listed = db.listed /\ db'.linked = db.linked /\ db'.job = db.job /\ db'.task = db.task
    BY <1>1, <2>1 DEF Table, Sweep
  <2>3. sweep.row \cap db.listed \subseteq db.linked
    <3> SUFFICES ASSUME NEW r \in sweep.row \cap db.listed PROVE r \in db.linked
      OBVIOUS
    <3>1. r \in Rows
      BY <1>1 DEF Sweep
    <3>2. CASE r[1] \in ChannelJobs
      BY <3>2 DEF IInv, SweepInv, TableInv, Evolves
    <3>3. CASE r[1] \in SingleJobs /\ r = Single(r[1])
      BY <3>3 DEF IInv, TableInv, Evolves, SingleLinked
    <3> QED BY <3>1, <3>2, <3>3, RowsCovered
  <2>4. TableOK(db') /\ SingleLinked(db')
    BY <2>2, <2>3 DEF IInv, TypeOK, TableOK, TableInv, Evolves, SingleLinked
  <2>5. Evolves(db, db') /\ CompletedLinked(db')
    BY <2>2, <2>4, Phases DEF Evolves, IInv, TableInv, CompletedLinked
  <2>6. db'.delivered \subseteq written'
    BY <1>5, <2>1, <2>2 DEF DeliverMark, IInv, TableInv, SweepInv
  <2>7. TableInv'
    BY <2>1, <2>5, <2>6, WriteTables
  <2>8. /\ sweep' \in Sweep /\ sweep'.rows = sweep.rows /\ sweep'.row = {}
        /\ sweep'.pc \in {"row", "deliver_commit", "jobs"}
    BY <1>1, <2>1, NextRowSound
  <2>9. SweepInv'
    BY <2>1, <2>8 DEF IInv, SweepInv
  <2> QED BY <1>1, <2>1, <2>2, <2>7, <2>8, <2>9, OtherStep DEF IInv, TypeOK, Swept, CancelStates
<1>6. CASE DeliverCommit
  <2>1. Commit /\ db' = db /\ disk' = db /\ written' = written /\ sweep' = [sweep EXCEPT !.pc = "jobs"]
    BY <1>6 DEF DeliverCommit, Commit
  <2>2. sweep' \in Sweep /\ sweep'.rows = sweep.rows /\ sweep'.row = sweep.row /\ sweep'.pc = "jobs"
    BY <1>1, <2>1 DEF Sweep, SweepPCs
  <2>3. SweepInv'
    BY <2>1, <2>2 DEF IInv, SweepInv, TableInv, Evolves
  <2> QED BY <1>1, <2>1, <2>2, <2>3, CommitTables, OtherStep DEF IInv, TypeOK, Swept, CancelStates
<1> QED
  BY <1>2, <1>3, <1>4, <1>5, <1>6 DEF Deliver

\* finalize_jobs.
LEMMA FinalizeOK ==
    ASSUME IInv, Finalize
    PROVE  IInv'
<1>1. Swept /\ sweep \in Sweep /\ written \subseteq Rows /\ db \in Table /\ written' = written
  BY DEF Finalize, FinalizeSelect, FinalizeCount, FinalizeUpdate, FinalizeCommit, IInv,
         TypeOK, TableOK
<1>2. CASE FinalizeSelect
  <2>1. PICK js \in SUBSET Jobs : sweep' = NextJob(sweep, js) /\ db' = db /\ disk' = disk
    BY <1>2 DEF FinalizeSelect
  <2>2. SweepInv' /\ sweep' \in Sweep
    BY <2>1, NextJobSound DEF SweepInv
  <2> QED BY <1>1, <2>1, <2>2, SweepReads
<1>3. ASSUME NEW j \in Jobs, FinalizeCount(j)
      PROVE  IInv'
  <2>1. db' = db /\ disk' = disk /\ j \in sweep.jobs /\ sweep.jobs \subseteq Jobs
    BY <1>1, <1>3 DEF FinalizeCount, Sweep
  <2>2. CASE sweep' = NextJob(sweep, sweep.jobs \ {j})
    <3>1. SweepInv' /\ sweep' \in Sweep
      BY <2>1, <2>2, NextJobSound DEF SweepInv
    <3> QED BY <1>1, <2>1, <3>1, SweepReads
  <2>3. CASE sweep' # NextJob(sweep, sweep.jobs \ {j})
    <3>1. PICK s \in {"done", "partial"} :
            sweep' = [sweep EXCEPT !.pc = "verdict", !.job = {j}, !.jobs = @ \ {j}, !.want = s]
      BY <1>3, <2>3 DEF FinalizeCount
    <3>2. /\ sweep' \in Sweep /\ sweep'.rows = sweep.rows /\ sweep'.row = sweep.row
          /\ sweep'.pc = "verdict" /\ sweep'.want = s
      BY <1>1, <2>1, <3>1 DEF Sweep, SweepPCs, JobStates
    <3>3. SweepInv'
      BY <2>1, <3>2 DEF IInv, SweepInv
    <3> QED BY <1>1, <2>1, <3>2, <3>3, SweepReads
  <2> QED BY <2>2, <2>3
<1>4. CASE FinalizeUpdate
  <2> DEFINE jobs == [j \in Jobs |-> IF j \in sweep.job /\ db.job[j] # "absent"
                                     THEN sweep.want ELSE db.job[j]]
  <2>1. /\ db' = [db EXCEPT !.job = jobs] /\ disk' = disk
        /\ sweep' = [sweep EXCEPT !.pc = "verdict_commit"]
    BY <1>4 DEF FinalizeUpdate
  <2>2. sweep.want \in {"done", "partial"}
    BY <1>4 DEF FinalizeUpdate, IInv, SweepInv
  <2>3. /\ jobs \in [Jobs -> JobStates]
        /\ \A j \in Jobs : Phase(db.job[j]) <= Phase(jobs[j])
        /\ \A j \in Jobs : db.job[j] = "absent" => jobs[j] = "absent"
    <3>1. db.job \in [Jobs -> JobStates]
      BY <1>1 DEF Table
    <3>2. ASSUME NEW j \in Jobs
          PROVE  /\ jobs[j] \in JobStates /\ Phase(db.job[j]) <= Phase(jobs[j])
                 /\ db.job[j] = "absent" => jobs[j] = "absent"
      <4>1. CASE j \in sweep.job /\ db.job[j] # "absent"
        BY <2>2, <4>1, Phases DEF JobStates
      <4>2. CASE ~(j \in sweep.job /\ db.job[j] # "absent")
        BY <3>1, <4>2, Phases
      <4> QED BY <4>1, <4>2
    <3> QED BY <3>2
  <2> HIDE DEF jobs
  <2>4. /\ db' \in Table /\ db'.listed = db.listed /\ db'.linked = db.linked
        /\ db'.delivered = db.delivered /\ db'.job = jobs /\ db'.task = db.task
    BY <1>1, <2>1, <2>3 DEF Table
  <2>5. TableOK(db') /\ SingleLinked(db')
    BY <2>4 DEF IInv, TypeOK, TableOK, TableInv, Evolves, SingleLinked
  <2>6. Evolves(db, db') /\ CompletedLinked(db')
    BY <2>3, <2>4, <2>5 DEF Evolves, IInv, TableInv, CompletedLinked
  <2>7. TableInv'
    BY <1>1, <2>1, <2>4, <2>6, WriteTables DEF IInv, TableInv
  <2>8. /\ sweep' \in Sweep /\ sweep'.rows = sweep.rows /\ sweep'.row = sweep.row
        /\ sweep'.pc = "verdict_commit" /\ sweep'.want = sweep.want
    BY <1>1, <2>1 DEF Sweep, SweepPCs
  <2>9. SweepInv'
    BY <2>1, <2>2, <2>8 DEF IInv, SweepInv
  <2> QED BY <1>1, <2>1, <2>3, <2>4, <2>7, <2>8, <2>9, OtherStep DEF IInv, TypeOK, Swept, CancelStates
<1>5. CASE FinalizeCommit
  <2>1. Commit /\ db' = db /\ disk' = db /\ sweep' = NextJob(sweep, sweep.jobs)
    BY <1>5 DEF FinalizeCommit, Commit
  <2>2. SweepInv' /\ sweep' \in Sweep
    <3>1. sweep.jobs \in SUBSET Jobs
      BY <1>1 DEF Sweep
    <3> QED BY <2>1, <3>1, NextJobSound DEF SweepInv
  <2> QED BY <1>1, <2>1, <2>2, CommitTables, OtherStep DEF IInv, TypeOK, Swept, CancelStates
<1> QED
  BY <1>2, <1>3, <1>4, <1>5 DEF Finalize

-----------------------------------------------------------------------------
(* The theorems.                                                            *)

\* The empty tables satisfy the invariant.
LEMMA InitOK == Init => IInv
<1> SUFFICES ASSUME Init PROVE IInv
  OBVIOUS
<1>1. Empty \in Table /\ Empty.listed = {} /\ Empty.linked = {} /\ Empty.delivered = {}
      /\ (\A r \in Rows : Empty.task[r] = "absent") /\ (\A j \in Jobs : Empty.job[j] = "absent")
  BY DEF Empty, Table, JobStates, TaskStates
<1>2. TableOK(Empty) /\ SingleLinked(Empty)
  BY <1>1 DEF TableOK, SingleLinked
<1>3. db = Empty /\ disk = Empty /\ written = {}
  BY DEF Init
<1>4. TableInv
  BY <1>1, <1>2, <1>3, EvolvesRefl DEF TableInv, CompletedLinked
<1>5. SweepInv /\ sweep \in Sweep
  BY DEF Init, SweepInv, Waiting, Sweep, SweepPCs, JobStates
<1>6. RunInv /\ run \in [Jobs -> Run]
  <2>1. Asleep \in Run /\ Asleep.pc = "idle"
    BY DEF Asleep, Run, RunPCs, JobStates
  <2>2. \A j \in Jobs : run[j] = Asleep
    BY DEF Init
  <2>3. run \in [Jobs -> Run]
    BY <2>1 DEF Init
  <2> QED BY <1>1, <1>3, <2>1, <2>2, <2>3 DEF RunInv, RunSound, ChannelPCs, SinglePCs, WithTodo
<1>7. TypeOK
  BY <1>2, <1>3, <1>5, <1>6, ChannelAssumption DEF Init, TypeOK
<1> QED BY <1>4, <1>5, <1>6, <1>7 DEF IInv

\* Every step keeps the invariant.
LEMMA NextOK == IInv /\ [Next]_vars => IInv'
<1> SUFFICES ASSUME IInv, [Next]_vars PROVE IInv'
  OBVIOUS
<1>1. ASSUME NEW j \in Jobs, SubmitChannel(j) \/ SubmitSingle(j) \/ CancelStart(j)
      PROVE  IInv'
  BY <1>1, RegisterWrites, CancelOK
<1>2. ASSUME NEW j \in Jobs, RunJob(j) \/ Register(j) \/ CancelJob(j)
      PROVE  IInv'
  BY <1>2, RunCommits, RunReads, RunWrites, RegisterWrites, CancelOK DEF RunJob, Register
<1>3. CASE Deliver \/ Finalize
  BY <1>3, DeliverOK, FinalizeOK
<1>4. ASSUME NEW r \in Rows, Settles(r) \/ TaskDeleted(r)
      PROVE  IInv'
  BY <1>4, TaskOK
<1>5. CASE OtherCommit \/ OtherRollback \/ Restart
  BY <1>5, ForeignOK
<1>6. CASE UNCHANGED vars
  <2>1. TableInv' /\ SweepInv' /\ RunInv'
    BY <1>6, SameTables, SweepWaits, RunWaits DEF vars
  <2> QED BY <1>6, <2>1 DEF vars, IInv, TypeOK
<1> QED
  BY <1>1, <1>2, <1>3, <1>4, <1>5, <1>6 DEF Next

\* The invariant holds in every reachable state.
THEOREM Invariance == Spec => []IInv
<1> QED
  BY InitOK, NextOK, PTL DEF Spec

\* The tables, the coroutines and the sweep keep their types.
THEOREM TypeCorrect == Spec => []TypeOK
<1>1. IInv => TypeOK
  BY DEF IInv
<1> QED
  BY <1>1, Invariance, PTL

\* A row marked delivered has its files, in what coroutines see and in what is durable.
THEOREM Delivered == Spec => []DeliveredWritten
<1>1. IInv => DeliveredWritten
  BY DEF IInv, TableInv, Evolves, DeliveredWritten
<1> QED
  BY <1>1, Invariance, PTL

\* What is durable changes by a commit, that makes durable what coroutines see.
LEMMA DiskOrDb ==
    ASSUME [Next]_vars
    PROVE  disk' = disk \/ disk' = db
BY DEF Next, RunJob, Register, CancelJob, Deliver, Finalize, Settles, vars, Commit,
   SubmitChannel, SubmitSingle, CancelStart, JobCommit, ReadJob, DiscoveryFails, InsertVideo,
   Discover, ListCommit, SetUpdate, SetCommit, SelectToSubmit, CreateTask, CreateCommit,
   LinkTask, LinksCommit, TaskCommit, FetchMeta, RegisterJob, RegisterVideo, RegisterCommit,
   CancelTasks, CancelState, CancelCommit, DeliverSelect, DeliverMark, DeliverCommit,
   DeliverSkips, DeliverWrite, FinalizeSelect, FinalizeUpdate, FinalizeCommit, FinalizeCount,
   TaskCompletes, TaskEnds, TaskDeleted, TaskMoves, OtherCommit, OtherRollback, Restart

\* So it only goes on.
LEMMA DiskMoves ==
    ASSUME IInv, [Next]_vars
    PROVE  Evolves(disk, disk')
<1>1. Evolves(disk, disk) /\ Evolves(disk, db)
  BY EvolvesRefl DEF IInv, TypeOK, TableInv
<1> QED BY <1>1, DiskOrDb

\* No crash, rollback or foreign commit takes back what the tables durably promise.
THEOREM ImplementsLedger == Spec => LedgerSpec
<1>1. Init => Ledger!Init
  <2> SUFFICES ASSUME Init PROVE Ledger!Init
    OBVIOUS
  <2>1. disk = Empty
    BY DEF Init
  <2>2. \A j \in Jobs : Phase(disk.job[j]) = 0
    BY <2>1, Phases DEF Empty
  <2>3. \A r \in Rows : Stage(r) = 0
    BY <2>1 DEF Empty, Stage
  <2> QED BY <2>2, <2>3 DEF Ledger!Init
<1>2. IInv /\ [Next]_vars => Ledger!Next
  <2> SUFFICES ASSUME IInv, [Next]_vars PROVE Ledger!Next
    OBVIOUS
  <2>1. Evolves(disk, disk') /\ TableOK(disk)
    BY DiskMoves DEF IInv, TypeOK
  <2>2. \A r \in Rows : Stage(r)' \in 0..3 /\ Stage(r) <= Stage(r)'
    BY <2>1 DEF Stage, Evolves, TableOK
  <2>3. \A j \in Jobs : Phase(disk.job[j])' \in 0..2 /\ Phase(disk.job[j]) <= Phase(disk.job[j])'
    <3>1. \A s : Phase(s)' = Phase(s')
      BY DEF Phase
    <3> QED BY <2>1, Phases DEF Evolves, Phase
  <2> QED BY <2>2, <2>3 DEF Ledger!Next
<1> QED
  BY <1>1, <1>2, Invariance, PTL DEF Spec, LedgerSpec, Ledger!Spec

-----------------------------------------------------------------------------
(* The verdict of finalize_jobs: its inductive invariant.  It stays true of *)
(* what is durable, whatever run_job, a cancel, the tasks, a restart or     *)
(* other coroutines' commits do between its count and its UPDATE, and after.*)

Verdicts == {"done", "partial"}
Listing  == {"idle", "job_commit", "read", "discover", "insert", "list_commit"}
Unlisted == {"idle", "task_commit", "meta", "job_row", "video_row"}

\* What the verdict s says of a job.
Verdict(table, j, s) ==
    /\ Listed(table, j) # {}
    /\ \A r \in RowsOf(j) : ~InFlight(table, r)
    /\ s = "done" <=> Listed(table, j) \subseteq table.delivered

VerdictTrue(table) ==
    \A j \in Jobs : table.job[j] \in Verdicts => Verdict(table, j, table.job[j])

\* The rows the sweep is delivering.
InHand == CASE sweep.pc = "row"  -> sweep.rows
            [] sweep.pc = "mark" -> sweep.rows \cup sweep.row
            [] OTHER             -> {}

\* The verdict in hand; and the jobs of the rows in hand have none.
SweepTrue ==
    /\ sweep.pc = "verdict" => \A j \in sweep.job : Verdict(db, j, sweep.want)
    /\ \A r \in InHand : db.job[r[1]] \notin Verdicts

\* A job whose rows are being listed is not looked at by finalize_jobs.
Early(j) ==
    run[j].pc \in Listing =>
        /\ db.job[j] \in {"absent", "discovering", "cancelled"}
        /\ j \notin sweep.jobs \cup sweep.job

\* The rows run_job has still to submit are listed and name no task.
ToSubmit(j) ==
    run[j].pc \in {"create", "create_commit", "link"} =>
        \A v \in run[j].todo : <<j, v>> \in db.listed \ db.linked

\* A single job's row is listed by one INSERT.
NotListed(j) == run[j].pc \in Unlisted => Single(j) \notin db.listed

RunTrueAt(j) ==
    /\ j \in ChannelJobs => Early(j) /\ ToSubmit(j)
    /\ j \in SingleJobs => NotListed(j)

RunTrue == \A j \in Jobs : RunTrueAt(j)

VInv == rollbacks = 0 => VerdictTrue(db) /\ VerdictTrue(disk) /\ SweepTrue /\ RunTrue

-----------------------------------------------------------------------------
(* What keeps a verdict.                                                    *)

\* The rows of a job are as before, and none of them is in flight again.
LEMMA VerdictKept ==
    ASSUME NEW t, NEW u, NEW j, NEW s, Verdict(t, j, s),
           \A r \in RowsOf(j) : /\ r \in u.listed <=> r \in t.listed
                                /\ r \in u.delivered <=> r \in t.delivered
                                /\ InFlight(u, r) => InFlight(t, r)
    PROVE  Verdict(u, j, s)
<1>1. Listed(u, j) = Listed(t, j)
  BY DEF Listed
<1>2. Listed(u, j) \subseteq u.delivered <=> Listed(t, j) \subseteq t.delivered
  BY <1>1 DEF Listed
<1> QED BY <1>1, <1>2 DEF Verdict

\* An UPDATE that lists, delivers and puts in flight no row, and makes no verdict.
Harmless(t, u) ==
    /\ \A r \in Rows : /\ r \in u.listed <=> r \in t.listed
                       /\ r \in u.delivered <=> r \in t.delivered
                       /\ InFlight(u, r) => InFlight(t, r)
    /\ \A j \in Jobs : u.job[j] \in Verdicts => u.job[j] = t.job[j]

\* Verdicts, also the one in hand, survive a harmless UPDATE.
LEMMA HarmlessOK ==
    ASSUME IInv, VerdictTrue(db), SweepTrue, Harmless(db, db'), sweep' = sweep
    PROVE  VerdictTrue(db') /\ SweepTrue'
<1>1. \A j \in Jobs : RowsOf(j) \subseteq Rows
  BY DEF RowsOf
<1>2. \A j \in Jobs, s \in JobStates : Verdict(db, j, s) => Verdict(db', j, s)
  BY <1>1, VerdictKept DEF Harmless
<1>3. VerdictTrue(db')
  <2> SUFFICES ASSUME NEW j \in Jobs, db'.job[j] \in Verdicts
               PROVE  Verdict(db', j, db'.job[j])
    BY DEF VerdictTrue
  <2>1. db'.job[j] = db.job[j]
    BY DEF Harmless
  <2> QED BY <1>2, <2>1 DEF VerdictTrue, Verdicts, JobStates
<1>4. SweepTrue'
  <2>1. sweep \in Sweep
    BY DEF IInv, TypeOK
  <2>2. sweep.pc = "verdict" => \A j \in sweep.job : Verdict(db', j, sweep.want)
    BY <1>2, <2>1 DEF SweepTrue, Sweep
  <2>3. InHand' = InHand /\ \A r \in InHand : r[1] \in Jobs
    BY <2>1, RowsCovered DEF InHand, Sweep
  <2>4. \A r \in InHand : db'.job[r[1]] \notin Verdicts
    BY <2>3 DEF SweepTrue, Harmless
  <2> QED BY <2>2, <2>3, <2>4 DEF SweepTrue
<1> QED BY <1>3, <1>4

\* Nothing of what the coroutines see changes.
LEMMA HarmlessSame == Harmless(db, db)
BY DEF Harmless

-----------------------------------------------------------------------------
(* What the steps of one job touch.                                         *)

\* The other jobs, their rows and the sweep are as before.
Alone(j) ==
    /\ sweep' = sweep
    /\ \A i \in Jobs \ {j} :
        /\ run'[i] = run[i] /\ db'.job[i] = db.job[i]
        /\ \A r \in RowsOf(i) : /\ r \in db'.listed <=> r \in db.listed
                                /\ r \in db'.linked <=> r \in db.linked

\* A step of one job concerns no other.
LEMMA AloneOK ==
    ASSUME IInv, RunTrue, NEW j \in Jobs, Alone(j), RunTrueAt(j)'
    PROVE  RunTrue'
<1> SUFFICES ASSUME NEW i \in Jobs, i # j PROVE RunTrueAt(i)'
  BY DEF RunTrue
<1>1. RunTrueAt(i) /\ run'[i] = run[i] /\ db'.job[i] = db.job[i] /\ sweep' = sweep
  BY DEF RunTrue, Alone
<1>2. i \in ChannelJobs => Early(i)'
  BY <1>1 DEF RunTrueAt, Early
<1>3. i \in ChannelJobs => ToSubmit(i)'
  <2> SUFFICES ASSUME i \in ChannelJobs, run[i].pc \in {"create", "create_commit", "link"},
                      NEW v \in run[i].todo
               PROVE  <<i, v>> \in db'.listed \ db'.linked
    BY <1>1 DEF ToSubmit
  <2>1. <<i, v>> \in db.listed \ db.linked
    BY <1>1 DEF RunTrueAt, ToSubmit
  <2>2. v \in Videos
    BY DEF IInv, TypeOK, Run
  <2>3. <<i, v>> \in RowsOf(i)
    BY <2>2, RowsCovered DEF RowsOf
  <2> QED BY <2>1, <2>3 DEF Alone
<1>4. i \in SingleJobs => NotListed(i)'
  <2>1. i \in SingleJobs => Single(i) \in RowsOf(i)
    BY RowsCovered DEF RowsOf
  <2> QED BY <1>1, <2>1 DEF RunTrueAt, NotListed, Alone
<1> QED BY <1>2, <1>3, <1>4 DEF RunTrueAt

\* A step of one coroutine that changes nothing the others look at.
LEMMA AloneSame ==
    ASSUME IInv, NEW j \in Jobs, NEW x, run' = [run EXCEPT ![j] = x],
           db' = db, sweep' = sweep
    PROVE  Alone(j) /\ run'[j] = x
BY DEF Alone, IInv, TypeOK

-----------------------------------------------------------------------------
(* The steps of run_job and of _register_delivery.                          *)

Holds == VerdictTrue(db) /\ SweepTrue /\ RunTrue

\* The pcs of a job are those of its kind.
LEMMA KindOf ==
    ASSUME IInv, NEW j \in Jobs
    PROVE  /\ run[j].pc \in ChannelPCs => j \in ChannelJobs /\ j \notin SingleJobs
           /\ run[j].pc \in SinglePCs => j \in SingleJobs /\ j \notin ChannelJobs
BY ChannelAssumption DEF IInv, RunInv, RunSound

\* The steps that change no table.
LEMMA QuietRun ==
    ASSUME IInv, Holds, NEW j \in Jobs, db' = db, sweep' = sweep,
           \A i \in Jobs \ {j} : run'[i] = run[i], RunTrueAt(j)'
    PROVE  Holds'
<1>1. Alone(j)
  BY DEF Alone
<1>2. VerdictTrue(db') /\ SweepTrue'
  BY HarmlessSame, HarmlessOK DEF Holds
<1> QED BY <1>1, <1>2, AloneOK DEF Holds

\* Reads and commits of run_job leave the verdicts as they are.
LEMMA QuietRunOK ==
    ASSUME IInv, Holds, NEW j \in Jobs,
           \/ JobCommit(j) \/ ListCommit(j) \/ SetCommit(j) \/ CreateCommit(j)
           \/ LinksCommit(j) \/ TaskCommit(j) \/ RegisterCommit(j)
           \/ ReadJob(j) \/ DiscoveryFails(j) \/ SelectToSubmit(j) \/ FetchMeta(j)
           \/ \E answered \in SUBSET Playlists : Discover(j, answered)
    PROVE  Holds'
<1>1. db' = db /\ sweep' = sweep
  BY DEF JobCommit, ListCommit, SetCommit, CreateCommit, LinksCommit, TaskCommit,
         RegisterCommit, ReadJob, DiscoveryFails, SelectToSubmit, FetchMeta, Discover, Commit, Others
<1>2. RunTrueAt(j) /\ run[j] \in Run /\ run \in [Jobs -> Run]
  BY DEF Holds, RunTrue, IInv, TypeOK
<1>3. SUFFICES RunTrueAt(j)' /\ \A i \in Jobs \ {j} : run'[i] = run[i]
  BY <1>1, QuietRun
<1>4. CASE ListCommit(j) \/ LinksCommit(j) \/ DiscoveryFails(j)
  <2>1. run'[j].pc = "set" /\ \A i \in Jobs \ {j} : run'[i] = run[i]
    BY <1>4, SetStateAt DEF ListCommit, LinksCommit, DiscoveryFails
  <2> QED BY <2>1 DEF RunTrueAt, Early, ToSubmit, NotListed, Listing, Unlisted
<1>5. CASE JobCommit(j) \/ ReadJob(j)
  <2>1. PICK pc \in {"read", "over", "discover"} : Goto(j, pc)
    BY <1>5 DEF JobCommit, ReadJob
  <2>2. run[j].pc \in {"job_commit", "read"} /\ j \in ChannelJobs /\ j \notin SingleJobs
    BY <1>5, KindOf DEF JobCommit, ReadJob, ChannelPCs
  <2>3. run'[j].pc = pc /\ \A i \in Jobs \ {j} : run'[i] = run[i]
    BY <2>1, GotoAt
  <2> QED BY <1>1, <1>2, <2>2, <2>3 DEF RunTrueAt, Early, ToSubmit, Listing
<1>6. CASE SetCommit(j) \/ RegisterCommit(j)
  <2>1. PICK pc \in {"select", "over"} : Goto(j, pc)
    BY <1>6 DEF SetCommit, RegisterCommit
  <2>2. run'[j].pc = pc /\ \A i \in Jobs \ {j} : run'[i] = run[i]
    BY <2>1, GotoAt
  <2> QED BY <2>2 DEF RunTrueAt, Early, ToSubmit, NotListed, Listing, Unlisted
<1>7. CASE CreateCommit(j)
  <2>1. run[j].pc = "create_commit" /\ run'[j].pc = "link" /\ run'[j].todo = run[j].todo
        /\ \A i \in Jobs \ {j} : run'[i] = run[i]
    BY <1>7, GotoAt DEF CreateCommit
  <2> QED BY <1>1, <1>2, <2>1 DEF RunTrueAt, Early, ToSubmit, NotListed, Listing, Unlisted
<1>8. CASE TaskCommit(j) \/ FetchMeta(j)
  <2>1. PICK pc \in {"meta", "job_row"} : Goto(j, pc)
    BY <1>8 DEF TaskCommit, FetchMeta
  <2>2. run[j].pc \in {"task_commit", "meta"} /\ run'[j].pc = pc
        /\ \A i \in Jobs \ {j} : run'[i] = run[i]
    BY <1>8, <2>1, GotoAt DEF TaskCommit, FetchMeta
  <2> QED BY <1>1, <1>2, <2>2 DEF RunTrueAt, Early, ToSubmit, NotListed, Listing, Unlisted
<1>9. CASE SelectToSubmit(j)
  <2> DEFINE vs == {v \in Videos : <<j, v>> \in db.listed \ db.linked}
             pc == IF vs = {} THEN "links_commit" ELSE "create"
             x  == [run[j] EXCEPT !.pc = pc, !.todo = vs]
  <2>1. run' = [run EXCEPT ![j] = x]
    BY <1>9 DEF SelectToSubmit
  <2>2. run'[j].pc = pc /\ run'[j].todo = vs /\ \A i \in Jobs \ {j} : run'[i] = run[i]
    BY <1>2, <2>1 DEF Run
  <2>3. pc \in {"links_commit", "create"}
    OBVIOUS
  <2>4. \A v \in vs : <<j, v>> \in db.listed \ db.linked
    OBVIOUS
  <2> HIDE DEF vs, pc, x
  <2> QED BY <1>1, <2>2, <2>3, <2>4 DEF RunTrueAt, Early, ToSubmit, NotListed, Listing, Unlisted
<1>10. ASSUME NEW answered \in SUBSET Playlists, Discover(j, answered)
       PROVE  RunTrueAt(j)' /\ \A i \in Jobs \ {j} : run'[i] = run[i]
  <2> DEFINE vs == Cut(Manifest(answered))
             pc == IF vs = {} THEN "list_commit" ELSE "insert"
             x  == [run[j] EXCEPT !.pc = pc, !.todo = vs]
  <2>1. run' = [run EXCEPT ![j] = x]
    BY <1>10 DEF Discover
  <2>2. run'[j].pc = pc /\ \A i \in Jobs \ {j} : run'[i] = run[i]
    BY <1>2, <2>1 DEF Run
  <2>3. pc \in {"list_commit", "insert"}
    OBVIOUS
  <2> HIDE DEF vs, pc, x
  <2>4. run[j].pc = "discover" /\ j \in ChannelJobs /\ j \notin SingleJobs
    BY <1>10, KindOf DEF Discover, ChannelPCs
  <2> QED BY <1>1, <1>2, <2>2, <2>3, <2>4 DEF RunTrueAt, Early, ToSubmit, Listing
<1> QED
  BY <1>4, <1>5, <1>6, <1>7, <1>8, <1>9, <1>10

\* A new state of a job that is no verdict.
LEMMA StateHarmless ==
    ASSUME IInv, NEW j \in Jobs, NEW s, db' = [db EXCEPT !.job[j] = s],
           s \in Verdicts => s = db.job[j]
    PROVE  /\ Harmless(db, db') /\ db'.job[j] = s
           /\ db'.listed = db.listed /\ db'.linked = db.linked
           /\ \A i \in Jobs \ {j} : db'.job[i] = db.job[i]
<1>1. db \in Table
  BY DEF IInv, TypeOK, TableOK
<1>2. /\ db'.listed = db.listed /\ db'.linked = db.linked
      /\ db'.delivered = db.delivered /\ db'.task = db.task
      /\ db'.job = [db.job EXCEPT ![j] = s]
  BY <1>1 DEF Table
<1>3. \A i \in Jobs : db'.job[i] = IF i = j THEN s ELSE db.job[i]
  BY <1>1, <1>2 DEF Table
<1>4. Harmless(db, db')
  BY <1>2, <1>3 DEF Harmless, InFlight
<1> QED BY <1>2, <1>3, <1>4

\* A task that becomes live is the task of a row that names none; one that completes
\* was live.
LEMMA TaskHarmless ==
    ASSUME IInv, NEW r \in Rows, NEW s, db' = [db EXCEPT !.task[r] = s],
           s = "live" => r \notin db.listed \/ r \notin db.linked,
           s = "completed" => db.task[r] = "live"
    PROVE  /\ Harmless(db, db') /\ db'.job = db.job
           /\ db'.listed = db.listed /\ db'.linked = db.linked
<1>1. db \in Table
  BY DEF IInv, TypeOK, TableOK
<1>2. /\ db'.listed = db.listed /\ db'.linked = db.linked
      /\ db'.delivered = db.delivered /\ db'.job = db.job
      /\ db'.task = [db.task EXCEPT ![r] = s]
  BY <1>1 DEF Table
<1>3. \A q \in Rows : db'.task[q] = IF q = r THEN s ELSE db.task[q]
  BY <1>1, <1>2 DEF Table
<1>4. Harmless(db, db')
  BY <1>2, <1>3 DEF Harmless, InFlight
<1> QED BY <1>2, <1>4

\* The steps of run_job that write.
LEMMA RunWritesTrue ==
    ASSUME IInv, Holds, NEW j \in Jobs,
           \/ SubmitChannel(j) \/ SetUpdate(j) \/ RegisterJob(j)
           \/ CreateTask(j) \/ SubmitSingle(j) \/ LinkTask(j)
    PROVE  Holds'
<1>1. RunTrueAt(j) /\ run[j] \in Run /\ run \in [Jobs -> Run] /\ sweep' = sweep /\ db \in Table
      /\ RunSound(run[j], j, db.job[j])
  BY DEF Holds, RunTrue, IInv, RunInv, TypeOK, TableOK, SubmitChannel, SetUpdate, RegisterJob,
     CreateTask, SubmitSingle, LinkTask, Others
<1>2. SUFFICES Harmless(db, db') /\ Alone(j) /\ RunTrueAt(j)'
  BY <1>1, HarmlessOK, AloneOK DEF Holds
<1>3. CASE SubmitChannel(j) \/ SetUpdate(j) \/ RegisterJob(j)
  <2>1. PICK pc \in {"job_commit", "set_commit", "video_row"} : \E s \in JobStates :
          /\ db' = [db EXCEPT !.job[j] = s] /\ Goto(j, pc)
          /\ s \in Verdicts => s = db.job[j]
          /\ pc = "job_commit" => s = "discovering"
    <3>1. CASE SubmitChannel(j)
      BY <3>1 DEF SubmitChannel, Verdicts, JobStates
    <3>2. CASE SetUpdate(j)
      <4> DEFINE s == IF db.job[j] = "absent" THEN db.job[j] ELSE run[j].want
      <4>1. db' = [db EXCEPT !.job[j] = s] /\ Goto(j, "set_commit")
        BY <3>2 DEF SetUpdate
      <4>2. s \in Verdicts => s = db.job[j]
        BY <1>1, <3>2 DEF SetUpdate, RunSound, Set, Verdicts
      <4>3. s \in JobStates
        BY <1>1 DEF Table, Run
      <4> HIDE DEF s
      <4> QED BY <4>1, <4>2, <4>3
    <3>3. CASE RegisterJob(j)
      <4> DEFINE s == IF db.job[j] = "absent" THEN "running" ELSE db.job[j]
      <4>1. db' = [db EXCEPT !.job[j] = s] /\ Goto(j, "video_row")
        BY <3>3 DEF RegisterJob
      <4>2. s \in Verdicts => s = db.job[j]
        BY DEF Verdicts
      <4>3. s \in JobStates
        BY <1>1 DEF Table, JobStates
      <4> HIDE DEF s
      <4> QED BY <4>1, <4>2, <4>3
    <3> QED BY <1>3, <3>1, <3>2, <3>3
  <2> PICK s \in JobStates :
          /\ db' = [db EXCEPT !.job[j] = s] /\ Goto(j, pc)
          /\ s \in Verdicts => s = db.job[j]
          /\ pc = "job_commit" => s = "discovering"
    BY <2>1
  <2>2. /\ Harmless(db, db') /\ db'.job[j] = s
        /\ db'.listed = db.listed /\ db'.linked = db.linked
        /\ \A i \in Jobs \ {j} : db'.job[i] = db.job[i]
    BY StateHarmless
  <2>3. run'[j].pc = pc /\ \A i \in Jobs \ {j} : run'[i] = run[i]
    BY GotoAt
  <2>4. Alone(j)
    BY <1>1, <2>2, <2>3 DEF Alone
  <2>5. RunTrueAt(j)'
    <3>1. CASE SubmitChannel(j)
      <4>1. run[j].pc = "idle" /\ pc = "job_commit" /\ j \in ChannelJobs /\ j \notin SingleJobs
        <5>1. run'[j].pc = "job_commit"
          BY <3>1, GotoAt DEF SubmitChannel
        <5> QED BY <2>3, <3>1, <5>1, ChannelAssumption DEF SubmitChannel, Submits
      <4> QED BY <1>1, <2>2, <2>3, <4>1 DEF RunTrueAt, Early, ToSubmit, Listing
    <3>2. CASE SetUpdate(j)
      <4>1. run'[j].pc = "set_commit"
        BY <3>2, GotoAt DEF SetUpdate
      <4> QED BY <4>1 DEF RunTrueAt, Early, ToSubmit, NotListed, Listing, Unlisted
    <3>3. CASE RegisterJob(j)
      <4>1. run'[j].pc = "video_row" /\ run[j].pc = "job_row"
        BY <3>3, GotoAt DEF RegisterJob
      <4> QED BY <1>1, <2>2, <4>1 DEF RunTrueAt, Early, ToSubmit, NotListed, Listing, Unlisted
    <3> QED BY <1>3, <3>1, <3>2, <3>3
  <2> QED BY <2>2, <2>4, <2>5
<1>4. CASE CreateTask(j)
  <2> DEFINE v == First(run[j].todo)
  <2>1. j \in ChannelJobs /\ j \notin SingleJobs /\ v \in Videos /\ v \in run[j].todo
    <3>1. run[j].todo \in SUBSET Videos /\ run[j].todo # {}
      BY <1>1, <1>4 DEF Run, CreateTask, RunSound, WithTodo
    <3> QED BY <1>4, <3>1, KindOf, FirstIn DEF CreateTask, ChannelPCs
  <2>2. /\ db' = [db EXCEPT !.task[<<j, v>>] = "live"] /\ run[j].pc = "create"
        /\ Goto(j, "create_commit")
    BY <1>4 DEF CreateTask
  <2> HIDE DEF v
  <2>3. <<j, v>> \in Rows /\ <<j, v>> \notin db.linked
    BY <1>1, <2>1, <2>2, RowsCovered DEF RunTrueAt, ToSubmit
  <2>4. /\ Harmless(db, db') /\ db'.job = db.job
        /\ db'.listed = db.listed /\ db'.linked = db.linked
    BY <2>2, <2>3, TaskHarmless
  <2>5. /\ run'[j].pc = "create_commit" /\ run'[j].todo = run[j].todo
        /\ \A i \in Jobs \ {j} : run'[i] = run[i]
    BY <2>2, GotoAt
  <2>6. Alone(j)
    BY <1>1, <2>4, <2>5 DEF Alone
  <2>7. RunTrueAt(j)'
    BY <1>1, <2>1, <2>2, <2>4, <2>5 DEF RunTrueAt, Early, ToSubmit, Listing
  <2> QED BY <2>4, <2>6, <2>7
<1>5. CASE SubmitSingle(j)
  <2>1. /\ db' = [db EXCEPT !.task[Single(j)] = "live"] /\ run[j].pc = "idle"
        /\ Goto(j, "task_commit") /\ j \in SingleJobs /\ j \notin ChannelJobs
    BY <1>5, ChannelAssumption DEF SubmitSingle, Submits
  <2>2. Single(j) \in Rows /\ Single(j) \notin db.listed
    BY <1>1, <2>1, RowsCovered DEF RunTrueAt, NotListed, Unlisted
  <2>3. /\ Harmless(db, db') /\ db'.job = db.job
        /\ db'.listed = db.listed /\ db'.linked = db.linked
    BY <2>1, <2>2, TaskHarmless
  <2>4. run'[j].pc = "task_commit" /\ \A i \in Jobs \ {j} : run'[i] = run[i]
    BY <2>1, GotoAt
  <2>5. Alone(j)
    BY <1>1, <2>3, <2>4 DEF Alone
  <2>6. RunTrueAt(j)'
    BY <2>1, <2>2, <2>3 DEF RunTrueAt, NotListed
  <2> QED BY <2>3, <2>5, <2>6
<1>6. CASE LinkTask(j)
  <2> DEFINE v == First(run[j].todo)
             K == {<<j, v>>} \cap db.listed
             pc == IF run[j].todo = {v} THEN "links_commit" ELSE "create"
             x == [run[j] EXCEPT !.todo = @ \ {v}, !.pc = pc]
  <2>1. j \in ChannelJobs /\ j \notin SingleJobs
    BY <1>6, KindOf DEF LinkTask, ChannelPCs
  <2>2. db' = [db EXCEPT !.linked = @ \cup K] /\ run' = [run EXCEPT ![j] = x]
        /\ run[j].pc = "link"
    BY <1>6 DEF LinkTask
  <2>3. pc \in {"links_commit", "create"} /\ K \subseteq {<<j, v>>}
    OBVIOUS
  <2> HIDE DEF v, K, pc
  <2>4. /\ run'[j].pc = pc /\ run'[j].todo = run[j].todo \ {v}
        /\ \A i \in Jobs \ {j} : run'[i] = run[i]
    BY <1>1, <2>2 DEF Run
  <2> HIDE DEF x
  <2>5. /\ db'.listed = db.listed /\ db'.linked = db.linked \cup K
        /\ db'.delivered = db.delivered /\ db'.job = db.job /\ db'.task = db.task
    BY <1>1, <2>2 DEF Table
  <2>6. Harmless(db, db')
    BY <2>5 DEF Harmless, InFlight
  <2>7. \A i \in Jobs \ {j} : \A r \in RowsOf(i) : r \in db'.linked <=> r \in db.linked
    BY <2>3, <2>5 DEF RowsOf
  <2>8. Alone(j)
    BY <1>1, <2>4, <2>5, <2>7 DEF Alone
  <2>9. ToSubmit(j)'
    BY <1>1, <2>1, <2>2, <2>3, <2>4, <2>5 DEF RunTrueAt, ToSubmit
  <2>10. RunTrueAt(j)'
    BY <2>1, <2>3, <2>4, <2>9 DEF RunTrueAt, Early, Listing
  <2> QED BY <2>6, <2>8, <2>10
<1> QED
  BY <1>3, <1>4, <1>5, <1>6

\* Rows of a job without a verdict change.
LEMMA OthersKeep ==
    ASSUME IInv, Holds, NEW j \in Jobs, sweep' = sweep, db'.job = db.job,
           db.job[j] \notin Verdicts, sweep.pc = "verdict" => j \notin sweep.job,
           \A i \in Jobs \ {j} : \A r \in RowsOf(i) :
                /\ r \in db'.listed <=> r \in db.listed
                /\ r \in db'.delivered <=> r \in db.delivered
                /\ InFlight(db', r) => InFlight(db, r)
    PROVE  VerdictTrue(db') /\ SweepTrue'
<1>1. \A i \in Jobs \ {j}, s \in JobStates : Verdict(db, i, s) => Verdict(db', i, s)
  BY VerdictKept
<1>2. VerdictTrue(db')
  <2> SUFFICES ASSUME NEW i \in Jobs, db'.job[i] \in Verdicts
               PROVE  Verdict(db', i, db'.job[i])
    BY DEF VerdictTrue
  <2>1. i # j
    OBVIOUS
  <2> QED BY <1>1, <2>1 DEF Holds, VerdictTrue, Verdicts, JobStates
<1>3. SweepTrue'
  <2>1. sweep \in Sweep
    BY DEF IInv, TypeOK
  <2>2. sweep.pc = "verdict" => \A i \in sweep.job : Verdict(db', i, sweep.want)
    BY <1>1, <2>1 DEF Holds, SweepTrue, Sweep
  <2>3. InHand' = InHand
    BY DEF InHand
  <2> QED BY <2>2, <2>3 DEF Holds, SweepTrue
<1> QED BY <1>2, <1>3

\* A job whose videos are being listed has no verdict, in hand or written.
LEMMA RunListsTrue ==
    ASSUME IInv, Holds, NEW j \in Jobs, InsertVideo(j) \/ RegisterVideo(j)
    PROVE  Holds'
<1>1. RunTrueAt(j) /\ run[j] \in Run /\ run \in [Jobs -> Run] /\ sweep' = sweep /\ db \in Table
      /\ RunSound(run[j], j, db.job[j]) /\ sweep \in Sweep
  BY DEF Holds, RunTrue, IInv, RunInv, TypeOK, TableOK, InsertVideo, RegisterVideo, Others
<1>2. CASE InsertVideo(j)
  <2> DEFINE v == First(run[j].todo)
             pc == IF run[j].todo = {v} THEN "list_commit" ELSE "insert"
             x == [run[j] EXCEPT !.todo = @ \ {v}, !.pc = pc]
  <2>1. j \in ChannelJobs /\ j \notin SingleJobs
    BY <1>2, KindOf DEF InsertVideo, ChannelPCs
  <2>2. db' = [db EXCEPT !.listed = @ \cup {<<j, v>>}] /\ run' = [run EXCEPT ![j] = x]
        /\ run[j].pc = "insert"
    BY <1>2 DEF InsertVideo
  <2>3. pc \in {"list_commit", "insert"}
    OBVIOUS
  <2> HIDE DEF v, pc
  <2>4. run'[j].pc = pc /\ \A i \in Jobs \ {j} : run'[i] = run[i]
    BY <1>1, <2>2 DEF Run
  <2> HIDE DEF x
  <2>5. /\ db'.listed = db.listed \cup {<<j, v>>} /\ db'.linked = db.linked
        /\ db'.delivered = db.delivered /\ db'.job = db.job /\ db'.task = db.task
    BY <1>1, <2>2 DEF Table
  <2>6. db.job[j] \in {"absent", "discovering", "cancelled"} /\ j \notin sweep.jobs \cup sweep.job
    BY <1>1, <2>1, <2>2 DEF RunTrueAt, Early, Listing
  <2>7. \A i \in Jobs \ {j} : \A r \in RowsOf(i) :
            /\ r \in db'.listed <=> r \in db.listed
            /\ InFlight(db', r) => InFlight(db, r)
    BY <2>5 DEF RowsOf, InFlight
  <2>8. VerdictTrue(db') /\ SweepTrue'
    BY <1>1, <2>5, <2>6, <2>7, OthersKeep DEF Verdicts
  <2>9. Alone(j)
    BY <1>1, <2>4, <2>5, <2>7 DEF Alone
  <2>10. RunTrueAt(j)'
    BY <1>1, <2>1, <2>3, <2>4, <2>5, <2>6 DEF RunTrueAt, Early, ToSubmit
  <2> QED BY <2>8, <2>9, <2>10, AloneOK DEF Holds
<1>3. CASE RegisterVideo(j)
  <2>1. /\ db' = [db EXCEPT !.listed = @ \cup {Single(j)}, !.linked = @ \cup {Single(j)}]
        /\ Goto(j, "register_commit") /\ run[j].pc = "video_row"
        /\ j \in SingleJobs /\ j \notin ChannelJobs
    BY <1>3, KindOf DEF RegisterVideo, SinglePCs
  <2>2. /\ db'.listed = db.listed \cup {Single(j)} /\ db'.linked = db.linked \cup {Single(j)}
        /\ db'.delivered = db.delivered /\ db'.job = db.job /\ db'.task = db.task
    BY <1>1, <2>1 DEF Table
  <2>3. Listed(db, j) = {}
    <3>1. Single(j) \notin db.listed
      BY <1>1, <2>1 DEF RunTrueAt, NotListed, Unlisted
    <3>2. \A r \in RowsOf(j) : r = Single(j)
      BY <2>1, RowsCovered DEF RowsOf
    <3> QED BY <3>1, <3>2 DEF Listed
  <2>4. db.job[j] \notin Verdicts /\ (sweep.pc = "verdict" => j \notin sweep.job)
    BY <2>3 DEF Holds, VerdictTrue, SweepTrue, Verdict
  <2>5. \A i \in Jobs \ {j} : Single(j) \notin RowsOf(i)
    BY DEF RowsOf, Single
  <2>6. \A i \in Jobs \ {j} : \A r \in RowsOf(i) :
            /\ r \in db'.listed <=> r \in db.listed
            /\ r \in db'.linked <=> r \in db.linked
            /\ InFlight(db', r) => InFlight(db, r)
    BY <2>2, <2>5 DEF InFlight
  <2>7. VerdictTrue(db') /\ SweepTrue'
    BY <1>1, <2>2, <2>4, <2>6, OthersKeep
  <2>8. run'[j].pc = "register_commit" /\ \A i \in Jobs \ {j} : run'[i] = run[i]
    BY <2>1, GotoAt
  <2>9. Alone(j)
    BY <1>1, <2>2, <2>6, <2>8 DEF Alone
  <2>10. RunTrueAt(j)'
    BY <2>1, <2>8 DEF RunTrueAt, NotListed, Unlisted
  <2> QED BY <2>7, <2>9, <2>10, AloneOK DEF Holds
<1> QED
  BY <1>2, <1>3

-----------------------------------------------------------------------------
(* Cancels and tasks.                                                       *)

\* No coroutine of run_job moves: a cancel is the only change of a state.
LEMMA RunRests ==
    ASSUME IInv, RunTrue, run' = run, db'.listed = db.listed, db'.linked = db.linked,
           \A j \in ChannelJobs : run[j].pc \in Listing =>
                /\ db'.job[j] \in {db.job[j], "cancelled"}
                /\ j \notin sweep'.jobs \cup sweep'.job
    PROVE  RunTrue'
<1> SUFFICES ASSUME NEW j \in Jobs PROVE RunTrueAt(j)'
  BY DEF RunTrue
<1>1. RunTrueAt(j)
  BY DEF RunTrue
<1>2. j \in ChannelJobs => Early(j)'
  BY <1>1 DEF RunTrueAt, Early
<1>3. ToSubmit(j) => ToSubmit(j)'
  BY DEF ToSubmit
<1>4. NotListed(j) => NotListed(j)'
  BY DEF NotListed
<1> QED BY <1>1, <1>2, <1>3, <1>4 DEF RunTrueAt

\* Nothing but the tables changes, and harmlessly.
LEMMA HarmlessRests ==
    ASSUME IInv, Holds, Harmless(db, db'), run' = run, sweep' = sweep,
           db'.listed = db.listed, db'.linked = db.linked,
           \A j \in Jobs : db'.job[j] \in {db.job[j], "cancelled"}
    PROVE  Holds'
<1>1. \A j \in ChannelJobs : run[j].pc \in Listing => j \notin sweep.jobs \cup sweep.job
  BY DEF Holds, RunTrue, RunTrueAt, Early, Jobs
<1>2. RunTrue'
  BY <1>1, RunRests DEF Holds, Jobs
<1> QED BY <1>2, HarmlessOK DEF Holds

\* A cancellation ends tasks only, and no verdict is undone by that.
LEMMA CancelTrue ==
    ASSUME IInv, Holds, NEW j \in Jobs, CancelStart(j) \/ CancelJob(j)
    PROVE  Holds'
<1>1. run' = run /\ sweep' = sweep /\ db \in Table
  BY DEF CancelStart, CancelJob, CancelTasks, CancelState, CancelCommit, IInv, TypeOK, TableOK
<1>2. CASE CancelStart(j) \/ CancelCommit(j)
  <2>1. db' = db
    BY <1>2 DEF CancelStart, CancelCommit, Commit
  <2> QED BY <1>1, <2>1, HarmlessSame, HarmlessRests
<1>3. CASE CancelTasks(j)
  <2> DEFINE tasks == [r \in Rows |-> IF r[1] = j /\ j \in ChannelJobs /\ db.task[r] = "live"
                                      THEN "ended" ELSE db.task[r]]
  <2>1. db' = [db EXCEPT !.task = tasks]
    BY <1>3 DEF CancelTasks
  <2>2. \A r \in Rows : tasks[r] = db.task[r] \/ tasks[r] = "ended"
    OBVIOUS
  <2> HIDE DEF tasks
  <2>3. /\ db'.listed = db.listed /\ db'.linked = db.linked
        /\ db'.delivered = db.delivered /\ db'.job = db.job /\ db'.task = tasks
    BY <1>1, <2>1 DEF Table
  <2>4. Harmless(db, db')
    BY <2>2, <2>3 DEF Harmless, InFlight
  <2> QED BY <1>1, <2>3, <2>4, HarmlessRests
<1>4. CASE CancelState(j)
  <2> DEFINE s == IF db.job[j] = "absent" THEN db.job[j] ELSE "cancelled"
  <2>1. db' = [db EXCEPT !.job[j] = s]
    BY <1>4 DEF CancelState
  <2>2. s \in {db.job[j], "cancelled"}
    OBVIOUS
  <2> HIDE DEF s
  <2>3. /\ Harmless(db, db') /\ db'.job[j] = s
        /\ db'.listed = db.listed /\ db'.linked = db.linked
        /\ \A i \in Jobs \ {j} : db'.job[i] = db.job[i]
    BY <2>1, <2>2, StateHarmless DEF Verdicts
  <2> QED BY <1>1, <2>2, <2>3, HarmlessRests
<1> QED
  BY <1>2, <1>3, <1>4 DEF CancelJob

\* A task that comes to its end, or is deleted, undoes no verdict.
LEMMA TaskTrue ==
    ASSUME IInv, Holds, NEW r \in Rows, Settles(r) \/ TaskDeleted(r)
    PROVE  Holds'
<1>1. PICK s \in {"completed", "ended", "gone"} :
        TaskMoves(r, s) /\ (s = "completed" => db.task[r] = "live")
  BY DEF Settles, TaskCompletes, TaskEnds, TaskDeleted
<1>2. db' = [db EXCEPT !.task[r] = s] /\ run' = run /\ sweep' = sweep
  BY <1>1 DEF TaskMoves
<1>3. /\ Harmless(db, db') /\ db'.job = db.job
      /\ db'.listed = db.listed /\ db'.linked = db.linked
  BY <1>1, <1>2, TaskHarmless
<1> QED BY <1>2, <1>3, HarmlessRests

-----------------------------------------------------------------------------
(* The sweep.                                                               *)

\* The sweep moves among the same jobs, and no verdict is in hand.
LEMMA DeliverRests ==
    ASSUME IInv, Holds, run' = run, db' = db, sweep'.jobs = sweep.jobs, sweep'.job = sweep.job,
           sweep'.pc # "verdict", \A r \in InHand' : db.job[r[1]] \notin Verdicts
    PROVE  Holds'
<1>1. \A j \in ChannelJobs : run[j].pc \in Listing => j \notin sweep.jobs \cup sweep.job
  BY DEF Holds, RunTrue, RunTrueAt, Early, Jobs
<1>2. RunTrue'
  BY <1>1, RunRests DEF Holds
<1>3. SweepTrue'
  BY DEF SweepTrue
<1>4. VerdictTrue(db')
  BY DEF Holds
<1> QED BY <1>2, <1>3, <1>4 DEF Holds

\* deliver_completed: a row to deliver is in flight, so its job has no verdict.
LEMMA DeliverTrue ==
    ASSUME IInv, Holds, Deliver
    PROVE  Holds'
<1>1. run' = run /\ sweep \in Sweep /\ db \in Table /\ db.linked \subseteq db.listed
  BY DEF Deliver, DeliverSelect, DeliverMark, DeliverCommit, DeliverSkips, DeliverWrite, Swept,
         IInv, TypeOK, TableOK
<1>2. \A r \in InHand : db.job[r[1]] \notin Verdicts
  BY DEF Holds, SweepTrue
<1>3. CASE DeliverSelect
  <2> DEFINE pc == IF Deliverable = {} THEN "jobs" ELSE "row"
  <2>1. /\ sweep' = [sweep EXCEPT !.rows = Deliverable, !.count = FALSE, !.pc = pc]
        /\ db' = db
    BY <1>3 DEF DeliverSelect
  <2>2. pc \in {"jobs", "row"}
    OBVIOUS
  <2> HIDE DEF pc
  <2>3. /\ sweep'.rows = Deliverable /\ sweep'.pc = pc
        /\ sweep'.jobs = sweep.jobs /\ sweep'.job = sweep.job
    BY <1>1, <2>1 DEF Sweep
  <2>4. \A r \in Deliverable : db.job[r[1]] \notin Verdicts
    <3> SUFFICES ASSUME NEW r \in Deliverable, db.job[r[1]] \in Verdicts PROVE FALSE
      OBVIOUS
    <3>1. r \in Rows /\ InFlight(db, r)
      BY <1>1 DEF Deliverable, InFlight, Table
    <3>2. r \in RowsOf(r[1]) /\ r[1] \in Jobs
      BY <3>1, RowsCovered DEF RowsOf
    <3> QED BY <3>1, <3>2 DEF Holds, VerdictTrue, Verdict
  <2>5. InHand' \subseteq Deliverable
    BY <2>2, <2>3 DEF InHand
  <2> QED BY <1>1, <2>1, <2>2, <2>3, <2>4, <2>5, DeliverRests
<1>4. ASSUME NEW r \in Rows, DeliverSkips(r)
      PROVE  Holds'
  <2> DEFINE rows == sweep.rows \ {r}
             pc == IF rows # {} THEN "row" ELSE IF sweep.count THEN "deliver_commit" ELSE "jobs"
  <2>1. /\ sweep' = [sweep EXCEPT !.rows = rows, !.row = {}, !.count = sweep.count, !.pc = pc]
        /\ db' = db /\ sweep.pc = "row"
    BY <1>4 DEF DeliverSkips, NextRow
  <2>2. pc \in {"row", "deliver_commit", "jobs"} /\ rows \subseteq sweep.rows
    OBVIOUS
  <2> HIDE DEF pc, rows
  <2>3. /\ sweep'.rows = rows /\ sweep'.pc = pc
        /\ sweep'.jobs = sweep.jobs /\ sweep'.job = sweep.job
    BY <1>1, <2>1 DEF Sweep
  <2>4. InHand' \subseteq InHand
    BY <2>1, <2>2, <2>3 DEF InHand
  <2> QED BY <1>1, <1>2, <2>1, <2>2, <2>3, <2>4, DeliverRests
<1>5. ASSUME NEW r \in Rows, DeliverWrite(r)
      PROVE  Holds'
  <2>1. /\ sweep' = [sweep EXCEPT !.pc = "mark", !.row = {r}, !.rows = @ \ {r}]
        /\ db' = db /\ sweep.pc = "row" /\ r \in sweep.rows
    BY <1>5 DEF DeliverWrite
  <2>2. /\ sweep'.rows = sweep.rows \ {r} /\ sweep'.row = {r} /\ sweep'.pc = "mark"
        /\ sweep'.jobs = sweep.jobs /\ sweep'.job = sweep.job
    BY <1>1, <2>1 DEF Sweep
  <2>3. InHand' \subseteq InHand
    BY <2>1, <2>2 DEF InHand
  <2> QED BY <1>1, <1>2, <2>1, <2>2, <2>3, DeliverRests
<1>6. CASE DeliverMark
  <2> DEFINE pc == IF sweep.rows # {} THEN "row" ELSE IF TRUE THEN "deliver_commit" ELSE "jobs"
  <2>1. /\ sweep' = [sweep EXCEPT !.rows = sweep.rows, !.row = {}, !.count = TRUE, !.pc = pc]
        /\ db' = [db EXCEPT !.delivered = @ \cup (sweep.row \cap db.listed)]
        /\ sweep.pc = "mark"
    BY <1>6 DEF DeliverMark, NextRow
  <2>2. pc \in {"row", "deliver_commit"}
    OBVIOUS
  <2> HIDE DEF pc
  <2>3. /\ sweep'.rows = sweep.rows /\ sweep'.pc = pc
        /\ sweep'.jobs = sweep.jobs /\ sweep'.job = sweep.job
    BY <1>1, <2>1 DEF Sweep
  <2>4. /\ db'.delivered = db.delivered \cup (sweep.row \cap db.listed)
        /\ db'.listed = db.listed /\ db'.linked = db.linked
        /\ db'.job = db.job /\ db'.task = db.task
    BY <1>1, <2>1 DEF Table
  <2>5. VerdictTrue(db')
    <3> SUFFICES ASSUME NEW j \in Jobs, db.job[j] \in Verdicts
                 PROVE  Verdict(db', j, db.job[j])
      BY <2>4 DEF VerdictTrue
    <3>1. \A r \in RowsOf(j) : r \notin sweep.row
      BY <1>2, <2>1 DEF InHand, RowsOf
    <3>2. Verdict(db, j, db.job[j])
      BY DEF Holds, VerdictTrue
    <3>3. \A r \in RowsOf(j) :
            /\ r \in db'.listed <=> r \in db.listed
            /\ r \in db'.delivered <=> r \in db.delivered
            /\ InFlight(db', r) => InFlight(db, r)
      BY <2>4, <3>1 DEF InFlight
    <3> QED BY <3>2, <3>3, VerdictKept
  <2>6. InHand' \subseteq InHand
    BY <2>1, <2>2, <2>3 DEF InHand
  <2>7. SweepTrue'
    BY <1>2, <2>2, <2>3, <2>4, <2>6 DEF SweepTrue
  <2>8. RunTrue'
    <3>1. \A j \in ChannelJobs : run[j].pc \in Listing => j \notin sweep.jobs \cup sweep.job
      BY DEF Holds, RunTrue, RunTrueAt, Early, Jobs
    <3> QED BY <1>1, <2>3, <2>4, <3>1, RunRests DEF Holds
  <2> QED BY <2>5, <2>7, <2>8 DEF Holds
<1>7. CASE DeliverCommit
  <2>1. sweep' = [sweep EXCEPT !.pc = "jobs"] /\ db' = db
    BY <1>7 DEF DeliverCommit, Commit
  <2>2. sweep'.jobs = sweep.jobs /\ sweep'.job = sweep.job /\ sweep'.pc = "jobs"
    BY <1>1, <2>1 DEF Sweep
  <2>3. InHand' = {}
    BY <2>2 DEF InHand
  <2> QED BY <1>1, <2>1, <2>2, <2>3, DeliverRests
<1> QED
  BY <1>3, <1>4, <1>5, <1>6, <1>7 DEF Deliver

\* finalize_jobs: what is counted stays so until the verdict is written, and after.
LEMMA FinalizeTrue ==
    ASSUME IInv, Holds, Finalize
    PROVE  Holds'
<1>1. run' = run /\ sweep \in Sweep /\ db \in Table
  BY DEF Finalize, FinalizeSelect, FinalizeCount, FinalizeUpdate, FinalizeCommit, Swept,
         IInv, TypeOK, TableOK
<1>2. \A j \in ChannelJobs : run[j].pc \in Listing =>
        /\ j \notin sweep.jobs \cup sweep.job
        /\ db.job[j] \in {"absent", "discovering", "cancelled"}
  BY DEF Holds, RunTrue, RunTrueAt, Early, Jobs
<1>3. CASE FinalizeSelect
  <2> DEFINE js == {j \in Jobs : db.job[j] \in {"running", "submitting"}}
  <2>1. sweep' = NextJob(sweep, js) /\ db' = db
    BY <1>3 DEF FinalizeSelect
  <2>2. js \in SUBSET Jobs /\ \A j \in js : db.job[j] \in {"running", "submitting"}
    OBVIOUS
  <2> HIDE DEF js
  <2>3. sweep'.jobs = js /\ sweep'.job = {} /\ sweep'.pc \in {"sleep", "count"}
    BY <2>1, <2>2, NextJobSound
  <2>4. SweepTrue'
    BY <2>3 DEF SweepTrue, InHand
  <2>5. RunTrue'
    BY <1>1, <1>2, <2>1, <2>2, <2>3, RunRests DEF Holds
  <2> QED BY <2>1, <2>4, <2>5 DEF Holds
<1>4. ASSUME NEW j \in Jobs, FinalizeCount(j)
      PROVE  Holds'
  <2>1. db' = db /\ j \in sweep.jobs /\ sweep.jobs \subseteq Jobs
    BY <1>1, <1>4 DEF FinalizeCount, Sweep
  <2>2. CASE Listed(db, j) = {} \/ \E r \in RowsOf(j) : InFlight(db, r)
    <3> DEFINE js == sweep.jobs \ {j}
    <3>1. sweep' = NextJob(sweep, js)
      BY <1>4, <2>2 DEF FinalizeCount
    <3>2. js \in SUBSET Jobs /\ js \subseteq sweep.jobs
      BY <2>1
    <3> HIDE DEF js
    <3>3. sweep'.jobs = js /\ sweep'.job = {} /\ sweep'.pc \in {"sleep", "count"}
      BY <3>1, <3>2, NextJobSound
    <3>4. SweepTrue'
      BY <3>3 DEF SweepTrue, InHand
    <3>5. RunTrue'
      BY <1>1, <1>2, <2>1, <3>2, <3>3, RunRests DEF Holds
    <3> QED BY <2>1, <3>4, <3>5 DEF Holds
  <2>3. CASE ~(Listed(db, j) = {} \/ \E r \in RowsOf(j) : InFlight(db, r))
    <3> DEFINE s == IF Listed(db, j) \subseteq db.delivered THEN "done" ELSE "partial"
    <3>1. sweep' = [sweep EXCEPT !.pc = "verdict", !.job = {j}, !.jobs = @ \ {j}, !.want = s]
      BY <1>4, <2>3 DEF FinalizeCount
    <3>2. Verdict(db, j, s)
      BY <2>3 DEF Verdict
    <3> HIDE DEF s
    <3>3. /\ sweep'.pc = "verdict" /\ sweep'.want = s /\ sweep'.job = {j}
          /\ sweep'.jobs = sweep.jobs \ {j}
      BY <1>1, <3>1 DEF Sweep
    <3>4. SweepTrue'
      BY <2>1, <3>2, <3>3 DEF SweepTrue, InHand
    <3>5. RunTrue'
      BY <1>1, <1>2, <2>1, <3>3, RunRests DEF Holds
    <3> QED BY <2>1, <3>4, <3>5 DEF Holds
  <2> QED BY <2>2, <2>3
<1>5. CASE FinalizeUpdate
  <2> DEFINE jobs == [j \in Jobs |-> IF j \in sweep.job /\ db.job[j] # "absent"
                                     THEN sweep.want ELSE db.job[j]]
  <2>1. /\ db' = [db EXCEPT !.job = jobs] /\ sweep.pc = "verdict"
        /\ sweep' = [sweep EXCEPT !.pc = "verdict_commit"]
    BY <1>5 DEF FinalizeUpdate
  <2>2. \A j \in Jobs : /\ j \in sweep.job => jobs[j] \in {sweep.want, db.job[j]}
                        /\ j \notin sweep.job => jobs[j] = db.job[j]
                        /\ jobs[j] # db.job[j] => jobs[j] = sweep.want /\ j \in sweep.job
    OBVIOUS
  <2> HIDE DEF jobs
  <2>3. /\ db'.listed = db.listed /\ db'.linked = db.linked
        /\ db'.delivered = db.delivered /\ db'.job = jobs /\ db'.task = db.task
    BY <1>1, <2>1 DEF Table
  <2>4. sweep'.pc = "verdict_commit" /\ sweep'.job = sweep.job /\ sweep'.jobs = sweep.jobs
    BY <1>1, <2>1 DEF Sweep
  <2>5. VerdictTrue(db')
    <3> SUFFICES ASSUME NEW j \in Jobs, jobs[j] \in Verdicts
                 PROVE  Verdict(db', j, jobs[j])
      BY <2>3 DEF VerdictTrue
    <3>1. Verdict(db, j, jobs[j])
      BY <2>1, <2>2 DEF Holds, VerdictTrue, SweepTrue
    <3> QED BY <2>3, <3>1, VerdictKept DEF InFlight
  <2>6. SweepTrue'
    BY <2>4 DEF SweepTrue, InHand
  <2>7. RunTrue'
    <3>1. \A j \in ChannelJobs : run[j].pc \in Listing =>
            jobs[j] = db.job[j] /\ j \notin sweep.jobs \cup sweep.job
      BY <1>2, <2>2 DEF Jobs
    <3> QED BY <1>1, <2>3, <2>4, <3>1, RunRests DEF Holds
  <2> QED BY <2>5, <2>6, <2>7 DEF Holds
<1>6. CASE FinalizeCommit
  <2>1. db' = db /\ sweep' = NextJob(sweep, sweep.jobs) /\ sweep.jobs \in SUBSET Jobs
    BY <1>1, <1>6 DEF FinalizeCommit, Commit, Sweep
  <2>2. sweep'.jobs = sweep.jobs /\ sweep'.job = {} /\ sweep'.pc \in {"sleep", "count"}
    BY <2>1, NextJobSound
  <2>3. SweepTrue'
    BY <2>2 DEF SweepTrue, InHand
  <2>4. RunTrue'
    BY <1>1, <1>2, <2>1, <2>2, RunRests DEF Holds
  <2> QED BY <2>1, <2>3, <2>4 DEF Holds
<1> QED
  BY <1>3, <1>4, <1>5, <1>6 DEF Finalize

-----------------------------------------------------------------------------
(* Restarts, and the theorem.                                               *)

\* After a restart the durable verdicts are those that count.
LEMMA RestartTrue ==
    ASSUME IInv, Holds, VerdictTrue(disk), Restart
    PROVE  Holds'
<1>1. db' = disk /\ sweep' = Waiting
  BY DEF Restart
<1>2. \A j \in Jobs : /\ run'[j].pc \in {"idle", "over"}
                      /\ run'[j].pc = "idle" => run[j].pc = "idle"
  BY DEF Restart, Asleep
<1>3. SweepTrue'
  BY <1>1 DEF SweepTrue, InHand, Waiting
<1>4. RunTrue'
  <2> SUFFICES ASSUME NEW j \in Jobs PROVE RunTrueAt(j)'
    BY DEF RunTrue
  <2>1. disk.listed \subseteq db.listed /\ disk.job[j] \in JobStates
        /\ Phase(disk.job[j]) <= Phase(db.job[j])
    BY DEF IInv, TypeOK, TableOK, Table, TableInv, Evolves
  <2>2. run[j].pc = "idle" => disk.job[j] = "absent"
    BY <2>1, Phases DEF IInv, RunInv, RunSound
  <2>3. RunTrueAt(j)
    BY DEF Holds, RunTrue
  <2>4. j \in ChannelJobs => Early(j)' /\ ToSubmit(j)'
    BY <1>1, <1>2, <2>2 DEF Early, ToSubmit, Listing, Waiting
  <2>5. j \in SingleJobs => NotListed(j)'
    BY <1>1, <1>2, <2>1, <2>3 DEF RunTrueAt, NotListed, Unlisted
  <2> QED BY <2>4, <2>5 DEF RunTrueAt
<1> QED BY <1>1, <1>3, <1>4 DEF Holds

\* The invariant of the verdicts, as long as no rollback took writes back.
LEMMA VerdictInvariance == Spec => [](IInv /\ VInv)
<1>1. Init => VInv
  <2> SUFFICES ASSUME Init PROVE VInv
    OBVIOUS
  <2>1. db = Empty /\ disk = Empty /\ sweep = Waiting /\ \A j \in Jobs : run[j] = Asleep
    BY DEF Init
  <2>2. VerdictTrue(db) /\ VerdictTrue(disk)
    BY <2>1 DEF VerdictTrue, Verdicts, Empty
  <2>3. SweepTrue
    BY <2>1 DEF SweepTrue, InHand, Waiting
  <2>4. RunTrue
    BY <2>1 DEF RunTrue, RunTrueAt, Early, ToSubmit, NotListed, Asleep, Empty, Waiting
  <2> QED BY <2>2, <2>3, <2>4 DEF VInv
<1>2. IInv /\ VInv /\ [Next]_vars => VInv'
  <2> SUFFICES ASSUME IInv, VInv, [Next]_vars, rollbacks' = 0
               PROVE  Holds' /\ VerdictTrue(disk')
    BY DEF VInv, Holds
  <2>1. rollbacks \in Nat /\ ~OtherRollback
    BY DEF IInv, TypeOK, OtherRollback
  <2>2. rollbacks = 0
    <3>1. rollbacks' = rollbacks
      BY <2>1 DEF Next, RunJob, Register, CancelJob, Deliver, Finalize, Settles, vars, Others,
         Swept, SubmitChannel, SubmitSingle, CancelStart, JobCommit, ReadJob, DiscoveryFails,
         InsertVideo, Discover, ListCommit, SetUpdate, SetCommit, SelectToSubmit, CreateTask,
         CreateCommit, LinkTask, LinksCommit, TaskCommit, FetchMeta, RegisterJob, RegisterVideo,
         RegisterCommit, CancelTasks, CancelState, CancelCommit, DeliverSelect, DeliverMark,
         DeliverCommit, DeliverSkips, DeliverWrite, FinalizeSelect, FinalizeUpdate,
         FinalizeCommit, FinalizeCount, TaskCompletes, TaskEnds, TaskDeleted, TaskMoves,
         OtherCommit, Restart
    <3> QED BY <3>1
  <2>3. Holds /\ VerdictTrue(disk)
    BY <2>2 DEF VInv, Holds
  <2>4. VerdictTrue(disk')
    BY <2>3, DiskOrDb DEF Holds
  <2>5. Holds'
    <3>1. ASSUME NEW j \in Jobs, SubmitChannel(j) \/ SubmitSingle(j) \/ CancelStart(j)
          PROVE  Holds'
      BY <2>3, <3>1, RunWritesTrue, CancelTrue
    <3>2. ASSUME NEW j \in Jobs, RunJob(j) \/ Register(j) \/ CancelJob(j)
          PROVE  Holds'
      BY <2>3, <3>2, QuietRunOK, RunWritesTrue, RunListsTrue, CancelTrue DEF RunJob, Register
    <3>3. CASE Deliver \/ Finalize
      BY <2>3, <3>3, DeliverTrue, FinalizeTrue
    <3>4. ASSUME NEW r \in Rows, Settles(r) \/ TaskDeleted(r)
          PROVE  Holds'
      BY <2>3, <3>4, TaskTrue
    <3>5. CASE OtherCommit \/ UNCHANGED vars
      <4>1. db' = db /\ run' = run /\ sweep' = sweep
        BY <3>5 DEF OtherCommit, Commit, vars
      <4> QED BY <2>3, <4>1, HarmlessSame, HarmlessRests
    <3>6. CASE Restart
      BY <2>3, <3>6, RestartTrue
    <3> QED BY <2>1, <3>1, <3>2, <3>3, <3>4, <3>5, <3>6 DEF Next
  <2> QED BY <2>4, <2>5
<1> QED
  BY <1>1, <1>2, Invariance, PTL DEF Spec

\* Once it is durable a verdict is true, and stays so, of however many jobs and videos.
THEOREM VerdictsHold == Spec => []VerdictHolds
<1>1. VInv => VerdictHolds
  BY DEF VInv, VerdictTrue, Verdict, Verdicts, VerdictHolds
<1> QED
  BY <1>1, VerdictInvariance, PTL

-----------------------------------------------------------------------------
(* What restarts and rollbacks cost: the inductive invariant.  The tasks no *)
(* video names and the names of no task are counted by the rollbacks, and   *)
(* one more for the task whose id was on its way to a commit at a restart.  *)

\* The row whose task has been inserted and whose id is not yet written.
Hand(j) ==
    IF run[j].pc \in {"create_commit", "link"} THEN {<<j, First(run[j].todo)>>}
    ELSE IF run[j].pc \in {"task_commit", "meta", "job_row", "video_row"} THEN {Single(j)}
    ELSE {}

\* The names of no task, and the name that would be one.
Void(j) == Dangling(db, j) \cup {r \in Hand(j) : db.task[r] = "absent"}

DanglingAt(j) ==
    /\ Cardinality(Dangling(disk, j)) <= rollbacks
    /\ Cardinality(Void(j)) <= rollbacks

OrphanAt(j) ==
    /\ Cardinality(Orphans(disk, j)) <= 1 + rollbacks
    /\ Cardinality(Orphans(db, j)) <= 1 + rollbacks
    /\ run[j].pc \notin {"idle", "over"} => Cardinality(Orphans(db, j) \ Hand(j)) <= rollbacks
    /\ run[j].pc = "idle" =>
        \A r \in RowsOf(j) : db.task[r] = "absent" /\ disk.task[r] = "absent"

\* What run_job submits was durably listed before.
ListedAt(j) ==
    /\ run[j].pc \notin {"insert", "list_commit"} => Listed(db, j) \subseteq disk.listed
    /\ run[j].pc \in {"create", "create_commit", "link"} =>
        \A v \in run[j].todo : <<j, v>> \in disk.listed

LossAt(j) == DanglingAt(j) /\ (j \in ChannelJobs => OrphanAt(j) /\ ListedAt(j))

LInv == \A j \in Jobs : LossAt(j)

-----------------------------------------------------------------------------
(* Counting.                                                                *)

\* A job has finitely many rows.
LEMMA FiniteRows ==
    ASSUME NEW j \in Jobs
    PROVE  \A S \in SUBSET RowsOf(j) : IsFiniteSet(S) /\ Cardinality(S) \in Nat
<1>1. CASE j \in ChannelJobs
  <2>1. RowsOf(j) \subseteq {j} \X Videos
    BY <1>1, ChannelAssumption DEF RowsOf, Rows, Single
  <2>2. IsFiniteSet({j} \X Videos)
    BY FS_Singleton, FS_Product, ChannelAssumption
  <2> QED BY <2>1, <2>2, FS_Subset, FS_CardinalityType
<1>2. CASE j \in SingleJobs
  <2>1. RowsOf(j) \subseteq {Single(j)}
    BY <1>2, ChannelAssumption DEF RowsOf, Rows, Single
  <2> QED BY <2>1, FS_Singleton, FS_Subset, FS_CardinalityType
<1> QED BY <1>1, <1>2 DEF Jobs

\* A part counts no more, and one row counts for one.
LEMMA Counts ==
    ASSUME NEW j \in Jobs, NEW S \in SUBSET RowsOf(j)
    PROVE  /\ IsFiniteSet(S) /\ Cardinality(S) \in Nat
           /\ \A T \in SUBSET S : Cardinality(T) <= Cardinality(S)
           /\ \A T \in SUBSET RowsOf(j) : \A r :
                T \subseteq S \cup {r} => Cardinality(T) <= Cardinality(S) + 1
<1>1. IsFiniteSet(S) /\ Cardinality(S) \in Nat
  BY FiniteRows
<1>2. \A T \in SUBSET S : Cardinality(T) <= Cardinality(S)
  BY <1>1, FS_Subset
<1>3. ASSUME NEW T \in SUBSET RowsOf(j), NEW r, T \subseteq S \cup {r}
      PROVE  Cardinality(T) <= Cardinality(S) + 1
  <2>1. /\ IsFiniteSet(S \cup {r})
        /\ Cardinality(S \cup {r}) = IF r \in S THEN Cardinality(S) ELSE Cardinality(S) + 1
    BY <1>1, FS_AddElement
  <2>2. Cardinality(T) <= Cardinality(S \cup {r}) /\ Cardinality(T) \in Nat
    BY <1>3, <2>1, FS_Subset, FiniteRows
  <2> QED BY <1>1, <2>1, <2>2
<1> QED BY <1>1, <1>2, <1>3

\* The row in hand is one of the job's, and at most one.
LEMMA HandIn ==
    ASSUME IInv, NEW j \in Jobs
    PROVE  Hand(j) \subseteq RowsOf(j) /\ \E r : Hand(j) \subseteq {r}
<1>1. RunSound(run[j], j, db.job[j]) /\ run[j].todo \in SUBSET Videos
  BY DEF IInv, RunInv, TypeOK, Run
<1>2. CASE run[j].pc \in {"create_commit", "link"}
  <2>1. j \in ChannelJobs /\ First(run[j].todo) \in Videos
    BY <1>1, <1>2, FirstIn DEF RunSound, ChannelPCs, WithTodo
  <2> QED BY <1>2, <2>1, RowsCovered DEF Hand, RowsOf
<1>3. CASE run[j].pc \in {"task_commit", "meta", "job_row", "video_row"}
  <2>1. j \in SingleJobs
    BY <1>1, <1>3 DEF RunSound, SinglePCs
  <2> QED BY <1>3, <2>1, RowsCovered DEF Hand, RowsOf
<1>4. CASE run[j].pc \notin {"create_commit", "link", "task_commit", "meta", "job_row", "video_row"}
  BY <1>4 DEF Hand
<1> QED BY <1>2, <1>3, <1>4

\* The sets that are counted are sets of rows of the job.
LEMMA Counted ==
    ASSUME IInv, NEW j \in Jobs
    PROVE  /\ Dangling(db, j) \in SUBSET RowsOf(j) /\ Dangling(disk, j) \in SUBSET RowsOf(j)
           /\ Orphans(db, j) \in SUBSET RowsOf(j) /\ Orphans(disk, j) \in SUBSET RowsOf(j)
           /\ Void(j) \in SUBSET RowsOf(j)
           /\ rollbacks \in Nat
BY HandIn DEF Dangling, Orphans, Void, IInv, TypeOK

-----------------------------------------------------------------------------
(* What loses nothing.                                                      *)

\* No name and no task is lost, and what is durable is as before or was committed.
LEMMA LossKept ==
    ASSUME IInv, IInv', NEW j \in Jobs, LossAt(j), rollbacks' = rollbacks,
           disk' = disk \/ disk' = db,
           Void(j)' \subseteq Void(j),
           j \in ChannelJobs => ListedAt(j)',
           j \in ChannelJobs =>
              /\ \/ Orphans(db', j) \subseteq Orphans(db, j)
                 \/ /\ Orphans(db', j) \subseteq (Orphans(db, j) \ Hand(j)) \cup Hand(j)'
                    /\ run[j].pc \notin {"idle", "over"}
              /\ run'[j].pc \notin {"idle", "over"} =>
                    \/ run[j].pc = "idle" /\ Orphans(db', j) \subseteq Orphans(db, j)
                    \/ /\ run[j].pc \notin {"idle", "over"}
                       /\ Orphans(db', j) \ Hand(j)' \subseteq Orphans(db, j) \ Hand(j)
              /\ run'[j].pc = "idle" =>
                    /\ run[j].pc = "idle"
                    /\ \A r \in RowsOf(j) : db.task[r] = "absent" => db'.task[r] = "absent"
    PROVE  LossAt(j)'
<1> USE Counted
<1>1. DanglingAt(j)'
  <2>1. Dangling(disk', j) = Dangling(disk, j) \/ Dangling(disk', j) \subseteq Void(j)
    BY DEF Void
  <2>2. Cardinality(Dangling(disk', j)) <= rollbacks
    BY <2>1, Counts DEF LossAt, DanglingAt
  <2>3. Cardinality(Void(j)') <= rollbacks
    BY Counts DEF LossAt, DanglingAt
  <2> QED BY <2>2, <2>3 DEF DanglingAt
<1>2. ASSUME j \in ChannelJobs PROVE OrphanAt(j)'
  <2>1. Cardinality(Orphans(disk', j)) <= 1 + rollbacks
    BY <1>2 DEF LossAt, OrphanAt
  <2>2. Cardinality(Orphans(db', j)) <= 1 + rollbacks
    <3>1. CASE Orphans(db', j) \subseteq Orphans(db, j)
      BY <1>2, <3>1, Counts DEF LossAt, OrphanAt
    <3>2. CASE /\ Orphans(db', j) \subseteq (Orphans(db, j) \ Hand(j)) \cup Hand(j)'
               /\ run[j].pc \notin {"idle", "over"}
      <4>1. Cardinality(Orphans(db, j) \ Hand(j)) <= rollbacks
        BY <1>2, <3>2 DEF LossAt, OrphanAt
      <4>2. PICK r : Hand(j)' \subseteq {r}
        BY DEF Hand
      <4>3. Orphans(db', j) \subseteq (Orphans(db, j) \ Hand(j)) \cup {r}
        BY <3>2, <4>2
      <4>4. Orphans(db', j) \in SUBSET RowsOf(j)
        BY DEF Orphans
      <4>5. Cardinality(Orphans(db', j)) <= Cardinality(Orphans(db, j) \ Hand(j)) + 1
        BY <4>3, <4>4, Counts
      <4>6. /\ Cardinality(Orphans(db, j) \ Hand(j)) \in Nat
            /\ Cardinality(Orphans(db', j)) \in Nat
        BY <4>4, FiniteRows
      <4> QED BY <4>1, <4>5, <4>6
    <3> QED BY <1>2, <3>1, <3>2
  <2>3. ASSUME run'[j].pc \notin {"idle", "over"}
        PROVE  Cardinality(Orphans(db', j) \ Hand(j)') <= rollbacks
    <3>1. CASE run[j].pc = "idle" /\ Orphans(db', j) \subseteq Orphans(db, j)
      <4>1. Orphans(db, j) = {}
        BY <1>2, <3>1 DEF LossAt, OrphanAt, Orphans
      <4>2. Orphans(db', j) \ Hand(j)' = {}
        BY <3>1, <4>1
      <4> QED BY <4>2, FS_EmptySet
    <3>2. CASE /\ run[j].pc \notin {"idle", "over"}
               /\ Orphans(db', j) \ Hand(j)' \subseteq Orphans(db, j) \ Hand(j)
      <4>1. Cardinality(Orphans(db, j) \ Hand(j)) <= rollbacks
        BY <1>2, <3>2 DEF LossAt, OrphanAt
      <4>2. Cardinality(Orphans(db', j) \ Hand(j)') <= Cardinality(Orphans(db, j) \ Hand(j))
        BY <3>2, Counts
      <4>3. /\ Cardinality(Orphans(db, j) \ Hand(j)) \in Nat
            /\ Cardinality(Orphans(db', j) \ Hand(j)') \in Nat
        <5>1. Orphans(db', j) \in SUBSET RowsOf(j)
          BY DEF Orphans
        <5> QED BY <5>1, FiniteRows
      <4> QED BY <4>1, <4>2, <4>3
    <3> QED BY <1>2, <2>3, <3>1, <3>2
  <2>4. ASSUME run'[j].pc = "idle"
        PROVE  \A r \in RowsOf(j) : db'.task[r] = "absent" /\ disk'.task[r] = "absent"
    BY <1>2, <2>4 DEF LossAt, OrphanAt
  <2> QED BY <2>1, <2>2, <2>3, <2>4 DEF OrphanAt
<1> QED BY <1>1, <1>2 DEF LossAt

\* Nothing of a job changes that is counted.
Tame(j) ==
    /\ run'[j] = run[j]
    /\ \A r \in RowsOf(j) :
        /\ r \in db'.listed <=> r \in db.listed
        /\ r \in db'.linked <=> r \in db.linked
        /\ db'.task[r] = "absent" <=> db.task[r] = "absent"

\* A tame step loses nothing of its job.
LEMMA TameOK ==
    ASSUME IInv, IInv', NEW j \in Jobs, LossAt(j), rollbacks' = rollbacks,
           disk' = disk \/ disk' = db, Tame(j)
    PROVE  LossAt(j)'
<1>1. Hand(j)' = Hand(j)
  BY DEF Tame, Hand
<1>2. Hand(j) \subseteq RowsOf(j)
  BY HandIn
<1>3. Void(j)' \subseteq Void(j) /\ Orphans(db', j) = Orphans(db, j) /\ Listed(db', j) = Listed(db, j)
  BY <1>1, <1>2 DEF Tame, Void, Dangling, Orphans, Listed
<1>4. ASSUME j \in ChannelJobs PROVE ListedAt(j)'
  <2>1. ListedAt(j) /\ disk.listed \subseteq db.listed /\ Listed(db, j) \subseteq db.listed
    BY <1>4 DEF LossAt, IInv, TableInv, Evolves, Listed
  <2>2. Listed(db, j)' = Listed(db', j)
    BY DEF Listed
  <2> QED BY <1>3, <2>1, <2>2 DEF ListedAt, Tame
<1> QED BY <1>1, <1>3, <1>4, LossKept DEF Tame

\* A step in which all jobs are tame.
LEMMA AllTame ==
    ASSUME IInv, IInv', LInv, rollbacks' = rollbacks, disk' = disk \/ disk' = db,
           \A j \in Jobs : Tame(j)
    PROVE  LInv'
BY TameOK DEF LInv

\* A step of a job that leaves the others tame.
LEMMA OneMoves ==
    ASSUME IInv, IInv', LInv, NEW j \in Jobs, rollbacks' = rollbacks, disk' = disk \/ disk' = db,
           \A i \in Jobs \ {j} : Tame(i),
           LossAt(j)'
    PROVE  LInv'
BY TameOK DEF LInv

-----------------------------------------------------------------------------
(* The steps of run_job and of _register_delivery.                          *)

Handed   == {"create_commit", "link", "task_commit", "meta", "job_row", "video_row"}
Handless == RunPCs \ Handed

\* A step from and to pcs without a row in hand, that inserts and links nothing.
LEMMA HandlessStep ==
    ASSUME IInv, IInv', NEW j \in Jobs, LossAt(j), rollbacks' = rollbacks,
           disk' = disk \/ disk' = db,
           run[j].pc \in Handless \ {"over"}, run'[j].pc \in Handless \ {"idle"},
           db'.linked = db.linked, db'.task = db.task,
           j \in ChannelJobs => ListedAt(j)'
    PROVE  LossAt(j)'
<1>1. Hand(j) = {} /\ Hand(j)' = {}
  BY DEF Hand, Handless, Handed
<1>2. Void(j)' \subseteq Void(j) /\ Orphans(db', j) = Orphans(db, j)
  BY <1>1 DEF Void, Dangling, Orphans
<1> QED BY <1>1, <1>2, LossKept

\* A step that keeps the row in hand.
LEMMA HandedStep ==
    ASSUME IInv, IInv', NEW j \in Jobs, LossAt(j), rollbacks' = rollbacks,
           disk' = disk \/ disk' = db,
           run[j].pc \in Handed, run'[j].pc \in Handed, Hand(j)' = Hand(j),
           db'.linked = db.linked, db'.task = db.task,
           j \in ChannelJobs => ListedAt(j)'
    PROVE  LossAt(j)'
<1>1. Void(j)' \subseteq Void(j) /\ Orphans(db', j) = Orphans(db, j)
  BY DEF Void, Dangling, Orphans
<1> QED BY <1>1, LossKept DEF Handed

\* The listed rows are durable, unless run_job is listing them.
LEMMA ListedKept ==
    ASSUME IInv, NEW j \in ChannelJobs, ListedAt(j), disk' = disk \/ disk' = db,
           db'.listed = db.listed,
           run[j].pc \notin {"insert", "list_commit"} \/ disk' = db,
           run'[j].pc \notin {"create", "create_commit", "link"}
    PROVE  ListedAt(j)'
<1>1. Listed(db, j) \subseteq db.listed /\ Listed(db, j)' = Listed(db, j)
  BY DEF Listed
<1> QED BY <1>1 DEF ListedAt

\* Reads and commits of run_job lose nothing.
LEMMA RunQuietLoss ==
    ASSUME IInv, IInv', LInv, NEW j \in Jobs,
           \/ JobCommit(j) \/ ListCommit(j) \/ SetCommit(j) \/ CreateCommit(j)
           \/ LinksCommit(j) \/ TaskCommit(j) \/ RegisterCommit(j)
           \/ ReadJob(j) \/ DiscoveryFails(j) \/ SelectToSubmit(j) \/ FetchMeta(j)
           \/ \E answered \in SUBSET Playlists : Discover(j, answered)
    PROVE  LInv'
<1>1. db' = db /\ (disk' = disk \/ disk' = db) /\ rollbacks' = rollbacks
  BY DEF JobCommit, ListCommit, SetCommit, CreateCommit, LinksCommit, TaskCommit,
         RegisterCommit, ReadJob, DiscoveryFails, SelectToSubmit, FetchMeta, Discover, Commit, Others
<1>2. LossAt(j) /\ (j \in ChannelJobs => ListedAt(j)) /\ run[j] \in Run /\ run \in [Jobs -> Run]
  BY DEF LInv, LossAt, IInv, TypeOK
<1>3. SUFFICES LossAt(j)' /\ \A i \in Jobs \ {j} : run'[i] = run[i]
  BY <1>1, OneMoves DEF Tame
<1>4. CASE ListCommit(j) \/ LinksCommit(j) \/ DiscoveryFails(j)
  <2>1. /\ run[j].pc \in {"list_commit", "links_commit", "discover"}
        /\ run[j].pc = "list_commit" => disk' = db
        /\ run'[j].pc = "set" /\ \A i \in Jobs \ {j} : run'[i] = run[i]
    BY <1>4, SetStateAt DEF ListCommit, LinksCommit, DiscoveryFails, Commit
  <2> QED BY <1>1, <1>2, <2>1, HandlessStep, ListedKept DEF Handless, Handed, RunPCs
<1>5. CASE JobCommit(j) \/ ReadJob(j) \/ SetCommit(j) \/ RegisterCommit(j)
  <2>1. PICK pc \in {"read", "over", "discover", "select"} : Goto(j, pc)
    BY <1>5 DEF JobCommit, ReadJob, SetCommit, RegisterCommit
  <2>2. /\ run[j].pc \in {"job_commit", "read", "set_commit", "register_commit"}
        /\ run'[j].pc = pc /\ \A i \in Jobs \ {j} : run'[i] = run[i]
    BY <1>5, <2>1, GotoAt DEF JobCommit, ReadJob, SetCommit, RegisterCommit
  <2> QED BY <1>1, <1>2, <2>2, HandlessStep, ListedKept DEF Handless, Handed, RunPCs
<1>6. CASE CreateCommit(j)
  <2>1. /\ run[j].pc = "create_commit" /\ run'[j].pc = "link" /\ run'[j].todo = run[j].todo
        /\ disk' = db /\ \A i \in Jobs \ {j} : run'[i] = run[i]
    BY <1>6, GotoAt DEF CreateCommit, Commit
  <2>2. Hand(j)' = Hand(j)
    BY <2>1 DEF Hand
  <2>3. j \in ChannelJobs => ListedAt(j)'
    <3>1. disk.listed \subseteq db.listed /\ Listed(db, j)' \subseteq db.listed
      BY <1>1 DEF IInv, TableInv, Evolves, Listed
    <3> QED BY <1>1, <1>2, <2>1, <3>1 DEF ListedAt
  <2> QED BY <1>1, <1>2, <2>1, <2>2, <2>3, HandedStep DEF Handed
<1>7. CASE TaskCommit(j) \/ FetchMeta(j)
  <2>1. PICK pc \in {"meta", "job_row"} : Goto(j, pc)
    BY <1>7 DEF TaskCommit, FetchMeta
  <2>2. run[j].pc \in {"task_commit", "meta"} /\ run'[j].pc = pc
        /\ \A i \in Jobs \ {j} : run'[i] = run[i]
    BY <1>7, <2>1, GotoAt DEF TaskCommit, FetchMeta
  <2>3. Hand(j)' = Hand(j) /\ j \notin ChannelJobs
    BY <2>2, ChannelAssumption DEF Hand, IInv, RunInv, RunSound, SinglePCs
  <2> QED BY <1>1, <1>2, <2>2, <2>3, HandedStep DEF Handed
<1>8. CASE SelectToSubmit(j)
  <2> DEFINE vs == {v \in Videos : <<j, v>> \in db.listed \ db.linked}
             pc == IF vs = {} THEN "links_commit" ELSE "create"
             x  == [run[j] EXCEPT !.pc = pc, !.todo = vs]
  <2>1. run' = [run EXCEPT ![j] = x] /\ run[j].pc = "select"
    BY <1>8 DEF SelectToSubmit
  <2>2. run'[j].pc = pc /\ run'[j].todo = vs /\ \A i \in Jobs \ {j} : run'[i] = run[i]
    BY <1>2, <2>1 DEF Run
  <2>3. pc \in {"links_commit", "create"}
    OBVIOUS
  <2>4. ASSUME j \in ChannelJobs
        PROVE  ListedAt(j)'
    <3>1. Listed(db, j) \subseteq disk.listed /\ Listed(db, j)' = Listed(db, j)
      BY <1>1, <1>2, <2>1, <2>4 DEF ListedAt, Listed
    <3>2. \A v \in vs : <<j, v>> \in Listed(db, j)
      BY <2>4, RowsCovered DEF Listed, RowsOf
    <3>3. disk' = disk
      BY <1>8 DEF SelectToSubmit
    <3> HIDE DEF vs, pc, x
    <3> QED BY <2>2, <2>3, <3>1, <3>2, <3>3 DEF ListedAt
  <2> HIDE DEF vs, pc, x
  <2>5. LossAt(j)'
    BY <1>1, <1>2, <2>1, <2>2, <2>3, <2>4, HandlessStep DEF Handless, Handed, RunPCs
  <2> QED BY <2>2, <2>5
<1>9. ASSUME NEW answered \in SUBSET Playlists, Discover(j, answered)
      PROVE  LossAt(j)' /\ \A i \in Jobs \ {j} : run'[i] = run[i]
  <2> DEFINE vs == Cut(Manifest(answered))
             pc == IF vs = {} THEN "list_commit" ELSE "insert"
             x  == [run[j] EXCEPT !.pc = pc, !.todo = vs]
  <2>1. run' = [run EXCEPT ![j] = x] /\ run[j].pc = "discover"
    BY <1>9 DEF Discover
  <2>2. run'[j].pc = pc /\ \A i \in Jobs \ {j} : run'[i] = run[i]
    BY <1>2, <2>1 DEF Run
  <2>3. pc \in {"list_commit", "insert"}
    OBVIOUS
  <2> HIDE DEF vs, pc, x
  <2>4. LossAt(j)'
    BY <1>1, <1>2, <2>1, <2>2, <2>3, HandlessStep DEF Handless, Handed, RunPCs, ListedAt
  <2> QED BY <2>2, <2>4
<1> QED
  BY <1>4, <1>5, <1>6, <1>7, <1>8, <1>9

\* The writes that insert and link no task.
LEMMA RunStatesLoss ==
    ASSUME IInv, IInv', LInv, NEW j \in Jobs,
           SubmitChannel(j) \/ SetUpdate(j) \/ RegisterJob(j) \/ InsertVideo(j)
    PROVE  LInv'
<1>1. disk' = disk /\ rollbacks' = rollbacks /\ db \in Table
  BY DEF SubmitChannel, SetUpdate, RegisterJob, InsertVideo, Others, IInv, TypeOK, TableOK
<1>2. LossAt(j) /\ (j \in ChannelJobs => ListedAt(j)) /\ run[j] \in Run /\ run \in [Jobs -> Run]
  BY DEF LInv, LossAt, IInv, TypeOK
<1>3. SUFFICES /\ LossAt(j)'
               /\ \A i \in Jobs \ {j} : run'[i] = run[i]
               /\ db'.linked = db.linked /\ db'.task = db.task
               /\ \A i \in Jobs \ {j} : \A r \in RowsOf(i) : r \in db'.listed <=> r \in db.listed
  BY <1>1, OneMoves DEF Tame
<1>4. CASE SubmitChannel(j) \/ SetUpdate(j) \/ RegisterJob(j)
  <2>1. db'.listed = db.listed /\ db'.linked = db.linked /\ db'.task = db.task
    BY <1>1, <1>4 DEF SubmitChannel, SetUpdate, RegisterJob, Table
  <2>2. CASE SubmitChannel(j) \/ SetUpdate(j)
    <3>1. PICK pc \in {"job_commit", "set_commit"} : Goto(j, pc)
      BY <2>2 DEF SubmitChannel, SetUpdate
    <3>2. /\ run[j].pc \in {"idle", "set"}
          /\ run'[j].pc = pc /\ \A i \in Jobs \ {j} : run'[i] = run[i]
      BY <2>2, <3>1, GotoAt DEF SubmitChannel, Submits, SetUpdate
    <3> QED BY <1>1, <1>2, <2>1, <3>2, HandlessStep, ListedKept DEF Handless, Handed, RunPCs
  <2>3. CASE RegisterJob(j)
    <3>1. /\ run[j].pc = "job_row" /\ run'[j].pc = "video_row"
          /\ \A i \in Jobs \ {j} : run'[i] = run[i]
      BY <2>3, GotoAt DEF RegisterJob
    <3>2. Hand(j)' = Hand(j) /\ j \notin ChannelJobs
      BY <3>1, ChannelAssumption DEF Hand, IInv, RunInv, RunSound, SinglePCs
    <3> QED BY <1>1, <1>2, <2>1, <3>1, <3>2, HandedStep DEF Handed
  <2> QED BY <1>4, <2>2, <2>3
<1>5. CASE InsertVideo(j)
  <2> DEFINE v == First(run[j].todo)
             pc == IF run[j].todo = {v} THEN "list_commit" ELSE "insert"
             x == [run[j] EXCEPT !.todo = @ \ {v}, !.pc = pc]
  <2>1. db' = [db EXCEPT !.listed = @ \cup {<<j, v>>}] /\ run' = [run EXCEPT ![j] = x]
        /\ run[j].pc = "insert"
    BY <1>5 DEF InsertVideo
  <2>2. pc \in {"list_commit", "insert"}
    OBVIOUS
  <2> HIDE DEF v, pc
  <2>3. run'[j].pc = pc /\ \A i \in Jobs \ {j} : run'[i] = run[i]
    BY <1>2, <2>1 DEF Run
  <2> HIDE DEF x
  <2>4. /\ db'.listed = db.listed \cup {<<j, v>>} /\ db'.linked = db.linked /\ db'.task = db.task
    BY <1>1, <2>1 DEF Table
  <2>5. LossAt(j)'
    BY <1>1, <1>2, <2>1, <2>2, <2>3, <2>4, HandlessStep DEF Handless, Handed, RunPCs, ListedAt
  <2> QED BY <2>3, <2>4, <2>5 DEF RowsOf
<1> QED
  BY <1>4, <1>5

\* The task of run_job: inserted, then named.
LEMMA CreateTaskLoss ==
    ASSUME IInv, IInv', LInv, NEW j \in Jobs, CreateTask(j)
    PROVE  LInv'
<1>1. disk' = disk /\ rollbacks' = rollbacks /\ db \in Table
  BY DEF CreateTask, Others, IInv, TypeOK, TableOK
<1>2. LossAt(j) /\ run[j].pc = "create" /\ j \in ChannelJobs
  BY DEF LInv, CreateTask, IInv, RunInv, RunSound, ChannelPCs
<1> DEFINE r == <<j, First(run[j].todo)>>
<1>3. db' = [db EXCEPT !.task[r] = "live"] /\ Goto(j, "create_commit")
  BY DEF CreateTask
<1>4. /\ run'[j].pc = "create_commit" /\ run'[j].todo = run[j].todo
      /\ \A i \in Jobs \ {j} : run'[i] = run[i]
  BY <1>3, GotoAt
<1>5. Hand(j) = {} /\ Hand(j)' = {r}
  BY <1>2, <1>4 DEF Hand
<1>6. r[1] = j
  OBVIOUS
<1> HIDE DEF r
<1>7. /\ db'.listed = db.listed /\ db'.linked = db.linked
      /\ db'.task = [db.task EXCEPT ![r] = "live"]
  BY <1>1, <1>3 DEF Table
<1>8. \A q \in Rows : db'.task[q] = IF q = r THEN "live" ELSE db.task[q]
  BY <1>1, <1>7 DEF Table
<1>9. \A i \in Jobs \ {j} : Tame(i)
  BY <1>4, <1>6, <1>7, <1>8 DEF Tame, RowsOf
<1>10. Void(j)' \subseteq Void(j)
  <2>1. r \in Rows => db'.task[r] # "absent"
    BY <1>8
  <2>2. Hand(j)' \subseteq RowsOf(j)
    <3>1. First(run[j].todo) \in Videos
      <4>1. run[j].todo \in SUBSET Videos /\ run[j].todo # {}
        BY <1>2 DEF IInv, TypeOK, Run, RunInv, RunSound, WithTodo
      <4> QED BY <4>1, FirstIn
    <3>2. r \in Rows
      BY <1>2, <3>1, RowsCovered DEF r
    <3> QED BY <1>5, <1>6, <3>2 DEF RowsOf
  <2>3. Dangling(db', j) \subseteq Dangling(db, j)
    BY <1>7, <1>8 DEF Dangling, RowsOf
  <2>4. Void(j)' = Dangling(db', j) \cup {q \in Hand(j)' : db'.task[q] = "absent"}
    BY DEF Void, Dangling
  <2>5. {q \in Hand(j)' : db'.task[q] = "absent"} = {}
    BY <1>5, <2>1, <2>2 DEF RowsOf
  <2> QED BY <2>3, <2>4, <2>5 DEF Void
<1>11. Orphans(db', j) \subseteq Orphans(db, j) \cup {r}
  BY <1>7, <1>8 DEF Orphans, RowsOf
<1>12. ListedAt(j)'
  <2>1. ListedAt(j)
    BY <1>2 DEF LossAt
  <2>2. Listed(db, j)' = Listed(db, j)
    BY <1>7 DEF Listed
  <2> QED BY <1>1, <1>2, <1>4, <2>1, <2>2 DEF ListedAt
<1>13. LossAt(j)'
  BY <1>1, <1>2, <1>4, <1>5, <1>10, <1>11, <1>12, LossKept
<1> QED
  BY <1>1, <1>9, <1>13, OneMoves

\* The link takes the task in hand off the books: it is named now.
LEMMA LinkTaskLoss ==
    ASSUME IInv, IInv', LInv, NEW j \in Jobs, LinkTask(j)
    PROVE  LInv'
<1>1. disk' = disk /\ rollbacks' = rollbacks /\ db \in Table
  BY DEF LinkTask, Others, IInv, TypeOK, TableOK
<1>2. LossAt(j) /\ run[j].pc = "link" /\ j \in ChannelJobs /\ run[j] \in Run /\ run \in [Jobs -> Run]
  BY DEF LInv, LinkTask, IInv, RunInv, RunSound, ChannelPCs, TypeOK
<1> DEFINE v == First(run[j].todo)
           K == {<<j, v>>} \cap db.listed
           pc == IF run[j].todo = {v} THEN "links_commit" ELSE "create"
           x == [run[j] EXCEPT !.todo = @ \ {v}, !.pc = pc]
<1>3. db' = [db EXCEPT !.linked = @ \cup K] /\ run' = [run EXCEPT ![j] = x]
  BY DEF LinkTask
<1>4. pc \in {"links_commit", "create"}
  OBVIOUS
<1>5. v \in run[j].todo
  <2>1. run[j].todo \in SUBSET Videos /\ run[j].todo # {}
    BY <1>2 DEF IInv, TypeOK, Run, RunInv, RunSound, WithTodo
  <2> QED BY <2>1, FirstIn
<1>6. Hand(j) = {<<j, v>>}
  BY <1>2 DEF Hand
<1> HIDE DEF v, pc, K
<1>7. /\ run'[j].pc = pc /\ run'[j].todo = run[j].todo \ {v}
      /\ \A i \in Jobs \ {j} : run'[i] = run[i]
  BY <1>2, <1>3 DEF Run
<1> HIDE DEF x
<1>8. /\ db'.listed = db.listed /\ db'.linked = db.linked \cup K /\ db'.task = db.task
  BY <1>1, <1>3 DEF Table
<1>9. K = {<<j, v>>}
  <2>1. <<j, v>> \in disk.listed /\ disk.listed \subseteq db.listed
    BY <1>2, <1>5 DEF LossAt, ListedAt, IInv, TableInv, Evolves
  <2> QED BY <2>1 DEF K
<1>10. \A i \in Jobs \ {j} : Tame(i)
  BY <1>7, <1>8, <1>9 DEF Tame, RowsOf
<1>11. Hand(j)' = {}
  BY <1>4, <1>7 DEF Hand
<1>12. Void(j)' \subseteq Void(j)
  <2>1. Void(j)' = Dangling(db', j)
    BY <1>11 DEF Void, Dangling
  <2>2. Dangling(db', j) \subseteq Dangling(db, j) \cup {q \in Hand(j) : db.task[q] = "absent"}
    BY <1>6, <1>8, <1>9 DEF Dangling
  <2> QED BY <2>1, <2>2 DEF Void
<1>13. Orphans(db', j) \subseteq Orphans(db, j) \ Hand(j)
  BY <1>6, <1>8, <1>9 DEF Orphans
<1>14. ListedAt(j)'
  <2>1. ListedAt(j)
    BY <1>2 DEF LossAt
  <2>2. Listed(db, j)' = Listed(db, j)
    BY <1>8 DEF Listed
  <2> QED BY <1>1, <1>2, <1>4, <1>7, <2>1, <2>2 DEF ListedAt
<1>15. LossAt(j)'
  BY <1>1, <1>2, <1>4, <1>7, <1>12, <1>13, <1>14, LossKept
<1> QED
  BY <1>1, <1>10, <1>15, OneMoves

\* The task of a single job: inserted, then listed and named by one INSERT.
LEMMA SingleLoss ==
    ASSUME IInv, IInv', LInv, NEW j \in Jobs, SubmitSingle(j) \/ RegisterVideo(j)
    PROVE  LInv'
<1>1. disk' = disk /\ rollbacks' = rollbacks /\ db \in Table
  BY DEF SubmitSingle, RegisterVideo, Others, IInv, TypeOK, TableOK
<1>2. LossAt(j) /\ j \in SingleJobs /\ j \notin ChannelJobs
  BY ChannelAssumption DEF LInv, SubmitSingle, RegisterVideo, IInv, RunInv, RunSound, SinglePCs
<1>3. Single(j) \in Rows /\ \A i \in Jobs \ {j} : Single(j) \notin RowsOf(i)
  BY <1>2, RowsCovered DEF RowsOf
<1>4. CASE SubmitSingle(j)
  <2>1. /\ db' = [db EXCEPT !.task[Single(j)] = "live"]
        /\ run[j].pc = "idle" /\ run'[j].pc = "task_commit"
        /\ \A i \in Jobs \ {j} : run'[i] = run[i]
    BY <1>4, GotoAt DEF SubmitSingle, Submits
  <2>2. /\ db'.listed = db.listed /\ db'.linked = db.linked
        /\ db'.task = [db.task EXCEPT ![Single(j)] = "live"]
    BY <1>1, <2>1 DEF Table
  <2>3. \A q \in Rows : db'.task[q] = IF q = Single(j) THEN "live" ELSE db.task[q]
    BY <1>1, <2>2 DEF Table
  <2>4. \A i \in Jobs \ {j} : Tame(i)
    BY <1>3, <2>1, <2>2, <2>3 DEF Tame, RowsOf
  <2>5. Hand(j)' = {Single(j)}
    BY <2>1 DEF Hand
  <2>6. Void(j)' \subseteq Void(j)
    <3>1. Dangling(db', j) \subseteq Dangling(db, j)
      BY <2>2, <2>3 DEF Dangling, RowsOf
    <3>2. {q \in Hand(j)' : db'.task[q] = "absent"} = {}
      BY <1>3, <2>3, <2>5
    <3>3. Void(j)' = Dangling(db', j) \cup {q \in Hand(j)' : db'.task[q] = "absent"}
      BY DEF Void, Dangling
    <3> QED BY <3>1, <3>2, <3>3 DEF Void
  <2> QED BY <1>1, <1>2, <2>4, <2>6, LossKept, OneMoves
<1>5. CASE RegisterVideo(j)
  <2>1. /\ db' = [db EXCEPT !.listed = @ \cup {Single(j)}, !.linked = @ \cup {Single(j)}]
        /\ run[j].pc = "video_row" /\ run'[j].pc = "register_commit"
        /\ \A i \in Jobs \ {j} : run'[i] = run[i]
    BY <1>5, GotoAt DEF RegisterVideo
  <2>2. /\ db'.listed = db.listed \cup {Single(j)} /\ db'.linked = db.linked \cup {Single(j)}
        /\ db'.task = db.task
    BY <1>1, <2>1 DEF Table
  <2>3. \A i \in Jobs \ {j} : Tame(i)
    BY <1>3, <2>1, <2>2 DEF Tame
  <2>4. Hand(j) = {Single(j)} /\ Hand(j)' = {}
    BY <2>1 DEF Hand
  <2>5. Void(j)' \subseteq Void(j)
    <3>1. Void(j)' = Dangling(db', j)
      BY <2>4 DEF Void, Dangling
    <3>2. Dangling(db', j) \subseteq Dangling(db, j) \cup {q \in Hand(j) : db.task[q] = "absent"}
      BY <2>2, <2>4 DEF Dangling
    <3> QED BY <3>1, <3>2 DEF Void
  <2> QED BY <1>1, <1>2, <2>3, <2>5, LossKept, OneMoves
<1> QED
  BY <1>4, <1>5

-----------------------------------------------------------------------------
(* Cancels, the sweep, the tasks and the other coroutines.                  *)

\* None of them inserts, lists or names a task.
LEMMA BystandersTame ==
    ASSUME IInv,
           \/ \E j \in Jobs : CancelStart(j) \/ CancelJob(j)
           \/ Deliver \/ Finalize \/ OtherCommit \/ UNCHANGED vars
           \/ \E r \in Rows : Settles(r) \/ TaskDeleted(r)
    PROVE  \A j \in Jobs : Tame(j)
<1>1. run' = run
  BY DEF CancelStart, CancelJob, CancelTasks, CancelState, CancelCommit, Deliver, DeliverSelect,
         DeliverMark, DeliverCommit, DeliverSkips, DeliverWrite, Finalize, FinalizeSelect,
         FinalizeCount, FinalizeUpdate, FinalizeCommit, Swept, OtherCommit, vars, Settles,
         TaskCompletes, TaskEnds, TaskDeleted, TaskMoves
<1>2. db \in Table
  BY DEF IInv, TypeOK, TableOK
<1>3. SUFFICES /\ db'.listed = db.listed /\ db'.linked = db.linked
               /\ \A r \in Rows : db'.task[r] = "absent" <=> db.task[r] = "absent"
  BY <1>1 DEF Tame, RowsOf
<1>4. CASE Deliver \/ Finalize \/ OtherCommit \/ UNCHANGED vars
  <2>1. db'.listed = db.listed /\ db'.linked = db.linked /\ db'.task = db.task
    BY <1>2, <1>4 DEF Deliver, DeliverSelect, DeliverMark, DeliverCommit, DeliverSkips,
       DeliverWrite, Finalize, FinalizeSelect, FinalizeCount, FinalizeUpdate, FinalizeCommit,
       OtherCommit, Commit, vars, Table
  <2> QED BY <2>1
<1>5. ASSUME NEW j \in Jobs, CancelStart(j) \/ CancelJob(j)
      PROVE  /\ db'.listed = db.listed /\ db'.linked = db.linked
             /\ \A r \in Rows : db'.task[r] = "absent" <=> db.task[r] = "absent"
  <2>1. CASE CancelTasks(j)
    <3> DEFINE tasks == [r \in Rows |-> IF r[1] = j /\ j \in ChannelJobs /\ db.task[r] = "live"
                                        THEN "ended" ELSE db.task[r]]
    <3>1. db' = [db EXCEPT !.task = tasks]
      BY <2>1 DEF CancelTasks
    <3>2. \A r \in Rows : tasks[r] = "absent" <=> db.task[r] = "absent"
      OBVIOUS
    <3> HIDE DEF tasks
    <3> QED BY <1>2, <3>1, <3>2 DEF Table
  <2>2. CASE ~CancelTasks(j)
    <3>1. db'.listed = db.listed /\ db'.linked = db.linked /\ db'.task = db.task
      BY <1>2, <1>5, <2>2 DEF CancelStart, CancelJob, CancelState, CancelCommit, Commit, Table
    <3> QED BY <3>1
  <2> QED BY <2>1, <2>2
<1>6. ASSUME NEW r \in Rows, Settles(r) \/ TaskDeleted(r)
      PROVE  /\ db'.listed = db.listed /\ db'.linked = db.linked
             /\ \A q \in Rows : db'.task[q] = "absent" <=> db.task[q] = "absent"
  <2>1. PICK s \in {"completed", "ended", "gone"} : TaskMoves(r, s) /\ db.task[r] # "absent"
    BY <1>6 DEF Settles, TaskCompletes, TaskEnds, TaskDeleted
  <2>2. /\ db'.listed = db.listed /\ db'.linked = db.linked
        /\ db'.task = [db.task EXCEPT ![r] = s]
    BY <1>2, <2>1 DEF TaskMoves, Table
  <2>3. \A q \in Rows : db'.task[q] = IF q = r THEN s ELSE db.task[q]
    BY <1>2, <2>2 DEF Table
  <2> QED BY <2>1, <2>2, <2>3
<1> QED
  BY <1>4, <1>5, <1>6

\* A rollback may cost each job the row in hand.
LEMMA RollbackLoss ==
    ASSUME IInv, LInv, OtherRollback
    PROVE  LInv'
<1> SUFFICES ASSUME NEW j \in Jobs PROVE LossAt(j)'
  BY DEF LInv
<1> USE Counted
<1>1. db' = disk /\ disk' = disk /\ rollbacks' = rollbacks + 1 /\ run' = run
  BY DEF OtherRollback
<1>2. LossAt(j)
  BY DEF LInv
<1>3. DanglingAt(j)'
  <2>1. Hand(j)' = Hand(j) /\ Hand(j) \subseteq RowsOf(j)
    BY <1>1, HandIn DEF Hand
  <2>2. PICK r : Hand(j) \subseteq {r}
    BY HandIn
  <2>3. Void(j)' \in SUBSET RowsOf(j) /\ Void(j)' \subseteq Dangling(disk, j) \cup {r}
    BY <1>1, <2>1, <2>2 DEF Void, Dangling
  <2>4. Cardinality(Void(j)') <= Cardinality(Dangling(disk, j)) + 1
    BY <2>3, Counts
  <2>5. Cardinality(Dangling(disk, j)) <= rollbacks
    BY <1>2 DEF LossAt, DanglingAt
  <2>6. Cardinality(Dangling(disk, j)) \in Nat /\ Cardinality(Void(j)') \in Nat
    BY <2>3, FiniteRows
  <2>7. Cardinality(Void(j)') <= rollbacks'
    BY <1>1, <2>4, <2>5, <2>6
  <2>8. Cardinality(Dangling(disk', j)) <= rollbacks'
    BY <1>1, <2>5, <2>6
  <2> QED BY <2>7, <2>8 DEF DanglingAt
<1>4. ASSUME j \in ChannelJobs PROVE OrphanAt(j)'
  <2>1. Cardinality(Orphans(disk, j)) <= 1 + rollbacks /\ Cardinality(Orphans(disk, j)) \in Nat
    BY <1>2, <1>4, FiniteRows DEF LossAt, OrphanAt
  <2>2. Cardinality(Orphans(disk, j) \ Hand(j)) <= Cardinality(Orphans(disk, j))
    BY Counts
  <2>3. Cardinality(Orphans(disk, j) \ Hand(j)) \in Nat
    BY FiniteRows
  <2>4. Cardinality(Orphans(disk', j)) <= 1 + rollbacks' /\ Cardinality(Orphans(db', j)) <= 1 + rollbacks'
    BY <1>1, <2>1
  <2>5. Cardinality(Orphans(db', j) \ Hand(j)') <= rollbacks'
    <3>1. Hand(j)' = Hand(j)
      BY <1>1 DEF Hand
    <3> QED BY <1>1, <2>1, <2>2, <2>3, <3>1
  <2>6. run'[j].pc = "idle" =>
          \A r \in RowsOf(j) : db'.task[r] = "absent" /\ disk'.task[r] = "absent"
    BY <1>1, <1>2, <1>4 DEF LossAt, OrphanAt
  <2> QED BY <2>4, <2>5, <2>6 DEF OrphanAt
<1>5. ASSUME j \in ChannelJobs PROVE ListedAt(j)'
  BY <1>1, <1>2, <1>5 DEF LossAt, ListedAt, Listed
<1> QED BY <1>3, <1>4, <1>5 DEF LossAt

\* A restart costs run_job the task whose id was not committed yet.
LEMMA RestartLoss ==
    ASSUME IInv, LInv, Restart
    PROVE  LInv'
<1> SUFFICES ASSUME NEW j \in Jobs PROVE LossAt(j)'
  BY DEF LInv
<1>1. /\ db' = disk /\ disk' = disk /\ rollbacks' = rollbacks
      /\ run'[j].pc \in {"idle", "over"} /\ (run'[j].pc = "idle" => run[j].pc = "idle")
  BY DEF Restart, Asleep
<1>2. LossAt(j)
  BY DEF LInv
<1>3. DanglingAt(j)'
  <2>1. Hand(j)' = {}
    BY <1>1 DEF Hand
  <2>2. Void(j)' = Dangling(disk, j) /\ Dangling(disk', j) = Dangling(disk, j)
    BY <1>1, <2>1 DEF Void, Dangling
  <2> QED BY <1>1, <1>2, <2>2 DEF LossAt, DanglingAt
<1>4. ASSUME j \in ChannelJobs PROVE OrphanAt(j)'
  BY <1>1, <1>2, <1>4 DEF LossAt, OrphanAt
<1>5. ASSUME j \in ChannelJobs PROVE ListedAt(j)'
  BY <1>1 DEF ListedAt, Listed
<1> QED BY <1>3, <1>4, <1>5 DEF LossAt

-----------------------------------------------------------------------------
(* The theorem.                                                             *)

\* The losses stay accounted for in every reachable state.
LEMMA LossInvariance == Spec => [](IInv /\ LInv)
<1>1. Init => LInv
  <2> SUFFICES ASSUME Init, NEW j \in Jobs PROVE LossAt(j)
    BY DEF LInv
  <2>1. db = Empty /\ disk = Empty /\ run[j] = Asleep /\ rollbacks = 0
    BY DEF Init
  <2>2. Dangling(disk, j) = {} /\ Void(j) = {} /\ Orphans(disk, j) = {} /\ Orphans(db, j) = {}
        /\ Listed(db, j) = {}
    BY <2>1 DEF Dangling, Void, Hand, Orphans, Listed, Empty, Asleep, RowsOf
  <2>3. \A r \in RowsOf(j) : db.task[r] = "absent" /\ disk.task[r] = "absent"
    BY <2>1 DEF Empty, RowsOf
  <2>4. Cardinality({}) = 0
    BY FS_EmptySet
  <2> QED BY <2>1, <2>2, <2>3, <2>4 DEF LossAt, DanglingAt, OrphanAt, ListedAt, Asleep
<1>2. IInv /\ IInv' /\ LInv /\ [Next]_vars => LInv'
  <2> SUFFICES ASSUME IInv, IInv', LInv, [Next]_vars PROVE LInv'
    OBVIOUS
  <2>1. disk' = disk \/ disk' = db
    BY DiskOrDb
  <2>2. ASSUME NEW j \in Jobs, SubmitChannel(j) \/ SubmitSingle(j) \/ RunJob(j) \/ Register(j)
        PROVE  LInv'
    BY <2>2, RunQuietLoss, RunStatesLoss, CreateTaskLoss, LinkTaskLoss, SingleLoss
       DEF RunJob, Register
  <2>3. CASE \/ \E j \in Jobs : CancelStart(j) \/ CancelJob(j)
             \/ Deliver \/ Finalize \/ OtherCommit \/ UNCHANGED vars
             \/ \E r \in Rows : Settles(r) \/ TaskDeleted(r)
    <3>1. rollbacks' = rollbacks
      BY <2>3 DEF CancelStart, CancelJob, CancelTasks, CancelState, CancelCommit, Deliver,
         DeliverSelect, DeliverMark, DeliverCommit, DeliverSkips, DeliverWrite, Finalize,
         FinalizeSelect, FinalizeCount, FinalizeUpdate, FinalizeCommit, Swept, OtherCommit, vars,
         Settles, TaskCompletes, TaskEnds, TaskDeleted, TaskMoves
    <3> QED BY <2>1, <2>3, <3>1, BystandersTame, AllTame
  <2>4. CASE OtherRollback \/ Restart
    BY <2>4, RollbackLoss, RestartLoss
  <2> QED BY <2>2, <2>3, <2>4 DEF Next
<1> QED
  BY <1>1, <1>2, Invariance, PTL DEF Spec

\* A restart costs a channel job at most one task, and each rollback one more video.
THEOREM FewAreLost == Spec => []FewLost
<1>1. LInv => FewLost
  BY DEF LInv, LossAt, DanglingAt, OrphanAt, FewLost, Jobs
<1> QED
  BY <1>1, LossInvariance, PTL
==============================================================================
