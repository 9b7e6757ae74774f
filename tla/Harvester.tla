------------------------------ MODULE Harvester ------------------------------
(***************************************************************************)
(* The harvester: every 15 s it refreshes what it knows of the accounts,    *)
(* cleans up, compares the queue with the workers it counts and launches    *)
(* workers, one per account at most and all at the same time.  Kaggle       *)
(* kernels and Modal sandboxes are launched and forgotten when they end; a  *)
(* Hugging Face Space is deployed once and woken when it sleeps.            *)
(*                                                                          *)
(* What the platforms hold (`slot`, `space`) differs from what the          *)
(* coordinator counts (`tracked`, `active`): calls fail, answers are lost,  *)
(* a restart forgets.  Quotas are abstracted to who is below MIN_QUOTA_PCT  *)
(* when they are compared, and the order of the candidates, by quota, to    *)
(* any order.                                                               *)
(***************************************************************************)
EXTENDS Naturals, FiniteSets, Functions, FiniteSetsExt

CONSTANTS
    Kaggle, Modal, HF,   \* the enabled accounts; the Spaces of HF have no GPU, nor a quota
    Solvent,             \* those of them whose quota stays above MIN_QUOTA_PCT
    Slots,               \* bound: workers of an account
    MaxWorkers,          \* bound: workers on all the accounts
    MaxPerAccount,       \* max_concurrent
    MaxConcurrent,       \* MAX_CONCURRENT of the Modal provider
    Cooldown,            \* COOLDOWN_SEC, in ticks
    Throttle,            \* HEALTH_CHECK_INTERVAL_SEC, in ticks
    MaxQueue,            \* bound: queued tasks of a kind
    MaxFaults            \* bound: lost answers, failed listings, restarts

Accounts  == Kaggle \cup Modal \cup HF
Ephemeral == Kaggle \cup Modal
Workers   == Ephemeral \X Slots

ASSUME HarvesterAssumption ==
    /\ IsFiniteSet(Kaggle) /\ IsFiniteSet(Modal) /\ IsFiniteSet(HF) /\ IsFiniteSet(Slots)
    /\ Kaggle \cap Modal = {} /\ Kaggle \cap HF = {} /\ Modal \cap HF = {}
    /\ Solvent \subseteq Ephemeral
    /\ MaxPerAccount \in Nat /\ MaxConcurrent \in Nat /\ Cooldown \in Nat
    /\ Throttle \in Nat /\ MaxQueue \in Nat /\ MaxFaults \in Nat /\ MaxWorkers \in Nat

VARIABLES
    pc, launching, demand,  \* _tick: its step, the launches under way, count_queued()
    active,     \* workers_active of the registry, kept until the tick has used it
    tracked,    \* _kernel_refs and _sandbox_ids
    cool,       \* ticks until an account's cooldown ends
    wait,       \* ticks until the next check of a Space
    deployed,   \* the Spaces known to be deployed
    slot,       \* slot[w]: the worker on its platform
    space,      \* space[h]: the Space on its platform
    queue,      \* queued tasks, those that need a GPU and the others
    faults

registry == <<active, tracked, cool, wait, deployed>>
world    == <<slot, space, queue>>
vars     == <<pc, launching, demand, registry, world, faults>>

States == {"none", "starting", "up", "over"}
Stages == {"absent", "building", "up", "sleeping", "error"}
Alive  == {"starting", "up"}
Empty  == [gpu |-> 0, any |-> 0]
NoneActive == [a \in Accounts |-> 0]

Init ==
    /\ pc = "sleep" /\ launching = {} /\ demand = 0
    /\ active = NoneActive /\ tracked = {}
    /\ cool = [a \in Ephemeral |-> 0] /\ wait = [a \in HF |-> 0]
    /\ deployed = {}
    /\ slot = [w \in Workers |-> "none"]
    /\ space \in [HF -> Stages \ {"building"}]
    /\ queue = Empty
    /\ faults = 0

Of(provider) == {w \in tracked : w[1] \in provider}
Fault        == faults < MaxFaults /\ faults' = faults + 1
Minus1(n)    == IF n = 0 THEN 0 ELSE n - 1

-----------------------------------------------------------------------------
(* 1. and 2. of _tick: refresh, then cleanup_stale, of every provider.      *)

\* A Space counts while its worker polls or sends heartbeats.
Counted(a) == IF a \in HF THEN (IF space[a] = "up" THEN 1 ELSE 0)
              ELSE Cardinality(Of({a}))

Refresh ==
    /\ pc = "sleep"
    /\ pc' = "cleanup"
    /\ active' = [a \in Accounts |-> Counted(a)]
    /\ cool' = [a \in Ephemeral |-> Minus1(cool[a])]
    /\ wait' = [a \in HF |-> Minus1(wait[a])]
    /\ UNCHANGED <<launching, demand, tracked, deployed, world, faults>>

\* variant: a sandbox that is still starting is not listed
ListedUp(failed) ==
    {w \in Workers : w[1] \in {v[1] : v \in Of(Modal)} \ failed /\ slot[w] = "up"}

\* The sandboxes found on the accounts that have any and whose listing succeeds.
Listed(failed) ==
    {w \in Workers : w[1] \in {v[1] : v \in Of(Modal)} \ failed /\ slot[w] \in Alive}

CleanModal ==
    /\ pc = "cleanup"
    /\ \E failed \in SUBSET Modal :
        /\ tracked' = Of(Kaggle) \cup (Of(Modal) \cap Listed(failed))
        /\ IF failed \cap {v[1] : v \in Of(Modal)} = {} THEN UNCHANGED faults ELSE Fault
    /\ pc' = "kaggle"
    /\ UNCHANGED <<launching, demand, active, cool, wait, deployed, world>>

\* Kernels that have ended, or run, maybe for over an hour.
Dead == {w \in Workers : w[1] \in Kaggle /\ slot[w] \in {"up", "over"}}

\* variant: the references of the kernels deleted are kept
ForgetNothing(gone, lost) == tracked' = tracked

\* The reference goes with the kernel, if the answer to its deletion arrives.
Forget(gone, lost) == tracked' = tracked \ (gone \ lost)

\* At most every five minutes, and listing a kernel, its status or its deletion may
\* fail: none, some or all are deleted.  The answer to a deletion may be lost.
CleanKaggle ==
    /\ pc = "kaggle"
    /\ pc' = "count"
    /\ \E gone \in SUBSET Dead : \E lost \in SUBSET gone :
            /\ slot' = [w \in Workers |-> IF w \in gone THEN "none" ELSE slot[w]]
            /\ Forget(gone, lost)
            /\ IF lost = {} THEN UNCHANGED faults ELSE Fault
    /\ UNCHANGED <<launching, demand, active, cool, wait, deployed, space, queue>>

-----------------------------------------------------------------------------
(* 3. and 4.: the workers needed, and their launch.                         *)

CountQueued ==
    /\ pc = "count"
    /\ demand' = queue.gpu + queue.any
    /\ IF demand' = 0 THEN pc' = "sleep" /\ active' = NoneActive
                      ELSE pc' = "decide" /\ UNCHANGED active
    /\ UNCHANGED <<launching, tracked, cool, wait, deployed, world, faults>>

CanLaunch(a) == a \in Ephemeral => active[a] < MaxPerAccount

\* variant: the limit of the provider is not compared
AdmitsAny(a) == a \in Ephemeral => cool[a] = 0

\* What the provider looks at before it starts: every launch of this tick does so
\* before any of them has created anything.
Admits(a) == /\ a \in Ephemeral => cool[a] = 0
             /\ a \in Modal => Cardinality(Of(Modal)) < MaxConcurrent
             /\ a \in HF => a \notin deployed \/ wait[a] = 0

\* variant: the launches that gather waits for are not noted
StartUnnoted(chosen) == launching' = chosen /\ pc' = "sleep"

Start(chosen) == launching' = chosen /\ pc' = IF chosen = {} THEN "sleep" ELSE "launch"

\* The accounts whose quota may be found below MIN_QUOTA_PCT.
Quotas == SUBSET (Ephemeral \ Solvent)

\* The queue is read again, to see whether all of it needs a GPU.
Decide ==
    LET gpuOnly    == queue.gpu > 0 /\ queue.any = 0
        suitable   == IF gpuOnly THEN Ephemeral ELSE Accounts
        busy       == MapThenSumSet(LAMBDA a : active[a], suitable)
        candidates == {a \in suitable : CanLaunch(a)}
        needed     == IF demand > busy THEN demand - busy ELSE 0
    IN
    /\ pc = "decide"
    /\ \E low \in Quotas :
        \E chosen \in SUBSET (candidates \ low) :
            /\ \/ Cardinality(chosen) = needed
               \/ chosen = candidates \ low /\ Cardinality(chosen) < needed
            /\ Start({a \in chosen : Admits(a)})
    /\ demand' = 0 /\ active' = NoneActive
    /\ UNCHANGED <<tracked, cool, wait, deployed, world, faults>>

\* The launch of a is over; gather waits for the last.
Launched(a) == /\ a \in launching
               /\ launching' = launching \ {a}
               /\ pc' = IF launching' = {} THEN "sleep" ELSE "launch"
               /\ UNCHANGED <<demand, active, queue>>

Free(a) == {w \in Workers : /\ w[1] = a /\ slot[w] = "none" /\ w \notin tracked
                            /\ Cardinality({v \in Workers : slot[v] # "none"}) < MaxWorkers}

\* A sandbox or a kernel that the platform has accepted.
Created(w) == slot' = [slot EXCEPT ![w] = "starting"] /\ tracked' = tracked \cup {w}

LaunchEphemeral(a) ==
    /\ Launched(a) /\ a \in Ephemeral
    /\ \E w \in Free(a) : Created(w)
    /\ cool' = [cool EXCEPT ![a] = Cooldown]
    /\ UNCHANGED <<wait, deployed, space, faults>>

\* The worker was started all the same, or not.
LaunchFails(a) ==
    /\ Launched(a)
    /\ \/ UNCHANGED <<slot, faults>>
       \/ /\ a \in Ephemeral /\ Fault
          /\ \E w \in Free(a) : slot' = [slot EXCEPT ![w] = "starting"]
    /\ wait' = IF a \in deployed THEN [wait EXCEPT ![a] = Throttle] ELSE wait
    /\ UNCHANGED <<tracked, cool, deployed, space>>

\* _first_deploy: a Space that exists is left as it is, else it is deployed.
FirstDeploy(h) ==
    /\ Launched(h) /\ h \in HF \ deployed
    /\ deployed' = deployed \cup {h}
    /\ wait' = [wait EXCEPT ![h] = Throttle]
    /\ \/ /\ space' = IF space[h] \in {"absent", "error"}
                      THEN [space EXCEPT ![h] = "building"] ELSE space
          /\ UNCHANGED faults
       \/ /\ Fault                      \* it could not be looked at
          /\ space' = [space EXCEPT ![h] = "building"]
    /\ UNCHANGED <<tracked, cool, slot>>

\* _wake_space: a sleeping Space is woken, a broken one restarted.
Woken(stage) == IF stage \in {"sleeping", "error"} THEN "building" ELSE stage

\* ensure_running.
EnsureRunning(h) ==
    /\ Launched(h) /\ h \in deployed
    /\ wait' = [wait EXCEPT ![h] = Throttle]
    /\ space' = [space EXCEPT ![h] = Woken(@)]
    /\ UNCHANGED <<tracked, cool, deployed, slot, faults>>

-----------------------------------------------------------------------------
(* The workers, on their platforms, and the queue.                          *)

Outside == UNCHANGED <<pc, launching, demand, registry, faults>>

Starts(w) ==
    /\ slot[w] = "starting"
    /\ slot' = [slot EXCEPT ![w] = "up"]
    /\ UNCHANGED <<space, queue>> /\ Outside

Takes(kind) == queue[kind] > 0 /\ queue' = [queue EXCEPT ![kind] = @ - 1]

\* A worker that is up is between two tasks at any time.
Pull == /\ \/ \E w \in Workers : slot[w] = "up" /\ \E kind \in {"gpu", "any"} : Takes(kind)
           \/ \E h \in HF : space[h] = "up" /\ Takes("any")
        /\ UNCHANGED <<slot, space>> /\ Outside

\* It is idle for too long, or ended by its platform at any time; a sandbox that is
\* over is gone, a kernel stays until it is deleted.
WorkerEnds(w) ==
    /\ slot[w] \in Alive
    /\ slot' = [slot EXCEPT ![w] = IF w[1] \in Kaggle THEN "over" ELSE "none"]
    /\ UNCHANGED <<space, queue>> /\ Outside

SpaceMoves(h, from, to) == /\ space[h] \in from
                           /\ space' = [space EXCEPT ![h] = to]
                           /\ UNCHANGED <<slot, queue>> /\ Outside

SpaceStarts(h) == SpaceMoves(h, {"building"}, "up")
SpaceSleeps(h) == SpaceMoves(h, {"up"}, "sleeping")
SpaceFails(h)  == SpaceMoves(h, {"building", "up"}, "error")

\* A submission, or a task whose worker has gone.
TaskQueued(kind) ==
    /\ queue[kind] < MaxQueue
    /\ queue' = [queue EXCEPT ![kind] = @ + 1]
    /\ UNCHANGED <<slot, space>> /\ Outside

TaskCancelled(kind) == Takes(kind) /\ UNCHANGED <<slot, space>> /\ Outside

\* The coordinator restarts and knows of no worker; launches under way are lost.
Restart ==
    /\ Fault
    /\ pc' = "sleep" /\ launching' = {} /\ demand' = 0
    /\ active' = NoneActive /\ tracked' = {}
    /\ cool' = [a \in Ephemeral |-> 0] /\ wait' = [a \in HF |-> 0]
    /\ deployed' = {}
    /\ UNCHANGED world

-----------------------------------------------------------------------------
Launch(a) == LaunchEphemeral(a) \/ FirstDeploy(a) \/ EnsureRunning(a)

Tick == \/ Refresh \/ CleanModal \/ CleanKaggle \/ CountQueued \/ Decide
        \/ \E a \in Accounts : Launch(a) \/ LaunchFails(a)

Next ==
    \/ Tick \/ Restart
    \/ \E w \in Workers : Starts(w) \/ WorkerEnds(w)
    \/ \E h \in HF : SpaceStarts(h) \/ SpaceSleeps(h) \/ SpaceFails(h)
    \/ Pull
    \/ \E kind \in {"gpu", "any"} : TaskQueued(kind) \/ TaskCancelled(kind)

Spec == Init /\ [][Next]_vars
=============================================================================
