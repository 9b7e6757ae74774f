-------------------------- MODULE Harvester_proofs --------------------------
(***************************************************************************)
(* The harvester keeps its types, forgets no live worker while nothing      *)
(* fails, and exceeds the limit of the Modal provider by less than one      *)
(* sandbox per account, however many accounts and workers there are.        *)
(***************************************************************************)
EXTENDS HarvesterProperties, FiniteSetTheorems, TLAPS

\* The launches under way count with the sandboxes: all of them were admitted
\* before the first one was created.
LimitInv ==
    Cardinality(Of(Modal)) + Cardinality(launching \cap Modal) + 1
        <= MaxConcurrent + Cardinality(Modal)

IInv == TypeOK /\ LimitInv /\ LiveCounted

-----------------------------------------------------------------------------
(* Counting.                                                                *)

\* The workers there may be are finitely many.
LEMMA FiniteWorkers ==
    /\ IsFiniteSet(Workers)
    /\ Cardinality(Modal) \in Nat
    /\ Cardinality(Slots) \in Nat
<1>1. IsFiniteSet(Ephemeral)
  BY HarvesterAssumption, FS_Union DEF Ephemeral
<1>2. IsFiniteSet(Workers)
  BY <1>1, HarvesterAssumption, FS_Product DEF Workers
<1> QED
  BY <1>2, HarvesterAssumption, FS_CardinalityType

\* A part of the workers, or of the Modal accounts, is counted by a number.
LEMMA Parts ==
    /\ \A S \in SUBSET Workers : IsFiniteSet(S) /\ Cardinality(S) \in Nat
    /\ \A S \in SUBSET Modal :
        IsFiniteSet(S) /\ Cardinality(S) \in Nat /\ Cardinality(S) <= Cardinality(Modal)
<1>1. \A S \in SUBSET Workers : IsFiniteSet(S)
  BY FiniteWorkers, FS_Subset
<1>2. \A S \in SUBSET Modal : IsFiniteSet(S) /\ Cardinality(S) <= Cardinality(Modal)
  BY HarvesterAssumption, FS_Subset
<1> QED
  BY <1>1, <1>2, FS_CardinalityType

\* An account has no more workers than slots.
LEMMA AccountBound ==
    ASSUME tracked \subseteq Workers, NEW a
    PROVE  Cardinality(Of({a})) \in 0..Cardinality(Slots)
<1>1. Of({a}) \subseteq {a} \X Slots
  BY DEF Of, Workers
<1>2. IsFiniteSet({a}) /\ Cardinality({a}) = 1
  BY FS_Singleton
<1>3. IsFiniteSet({a} \X Slots) /\ Cardinality({a} \X Slots) = Cardinality({a}) * Cardinality(Slots)
  BY <1>2, HarvesterAssumption, FS_Product
<1>4. Cardinality({a} \X Slots) = Cardinality(Slots)
  BY <1>2, <1>3, FiniteWorkers
<1>5. Cardinality(Of({a})) <= Cardinality(Slots)
  BY <1>1, <1>3, <1>4, FS_Subset
<1>6. Cardinality(Of({a})) \in Nat
  BY Parts DEF Of
<1> QED BY <1>5, <1>6, FiniteWorkers

\* If no sandbox and no launch is added, the limit stays kept.
LEMMA LimitKept ==
    ASSUME tracked \subseteq Workers, launching \subseteq Accounts, LimitInv,
           Of(Modal)' \subseteq Of(Modal), launching' \subseteq launching
    PROVE  LimitInv'
<1>1. Of(Modal) \in SUBSET Workers /\ launching \cap Modal \in SUBSET Modal
  BY DEF Of
<1>2. Cardinality(Of(Modal)') <= Cardinality(Of(Modal))
  BY <1>1, Parts, FS_Subset
<1>3. launching' \cap Modal \subseteq launching \cap Modal
  OBVIOUS
<1>4. Cardinality(launching' \cap Modal) <= Cardinality(launching \cap Modal)
  BY <1>1, <1>3, Parts, FS_Subset
<1>5. /\ Cardinality(Of(Modal)) \in Nat /\ Cardinality(Of(Modal)') \in Nat
      /\ Cardinality(launching \cap Modal) \in Nat /\ Cardinality(launching' \cap Modal) \in Nat
  BY <1>1, <1>3, Parts
<1> QED
  BY <1>2, <1>4, <1>5, FiniteWorkers, HarvesterAssumption DEF LimitInv

-----------------------------------------------------------------------------
(* The tick.                                                                *)

\* The workers that are counted are those remembered.
LEMMA RefreshOK ==
    ASSUME IInv, Refresh
    PROVE  IInv'
<1>1. \A a \in Accounts : Counted(a) \in 0..(Cardinality(Slots) + 1)
  <2> SUFFICES ASSUME NEW a \in Accounts PROVE Counted(a) \in 0..(Cardinality(Slots) + 1)
    OBVIOUS
  <2>1. Cardinality(Of({a})) \in 0..Cardinality(Slots)
    BY AccountBound DEF IInv, TypeOK
  <2> QED BY <2>1, FiniteWorkers DEF Counted
<1>2. active' \in [Accounts -> 0..(Cardinality(Slots) + 1)]
  BY <1>1 DEF Refresh
<1>3. cool' \in [Ephemeral -> 0..Cooldown] /\ wait' \in [HF -> 0..Throttle]
  BY HarvesterAssumption DEF Refresh, IInv, TypeOK, Minus1
<1>4. TypeOK'
  BY <1>2, <1>3 DEF Refresh, IInv, TypeOK, world
<1>5. LimitInv' /\ LiveCounted'
  BY DEF Refresh, IInv, LimitInv, LiveCounted, Of, world
<1> QED BY <1>4, <1>5 DEF IInv

\* A listing that succeeds has every sandbox that is alive.
LEMMA CleanModalOK ==
    ASSUME IInv, CleanModal
    PROVE  IInv'
<1> PICK failed \in SUBSET Modal :
        /\ tracked' = Of(Kaggle) \cup (Of(Modal) \cap Listed(failed))
        /\ IF failed \cap {v[1] : v \in Of(Modal)} = {} THEN UNCHANGED faults ELSE Fault
  BY DEF CleanModal
<1>1. tracked' \subseteq tracked /\ tracked \subseteq Workers
  BY DEF IInv, TypeOK, Of
<1>2. TypeOK'
  <2>1. faults' \in 0..MaxFaults
    BY HarvesterAssumption DEF IInv, TypeOK, Fault
  <2>2. tracked' \subseteq Workers
    BY <1>1
  <2> QED BY <2>1, <2>2 DEF CleanModal, IInv, TypeOK, world
<1>3. LimitInv'
  BY <1>1, LimitKept DEF CleanModal, IInv, TypeOK, Of
<1>4. LiveCounted'
  <2> SUFFICES ASSUME faults' = 0, NEW w \in Workers, slot'[w] \in Alive
               PROVE  w \in tracked'
    BY DEF LiveCounted
  <2>1. faults \in Nat /\ faults = 0 /\ failed \cap {v[1] : v \in Of(Modal)} = {}
    BY DEF IInv, TypeOK, Fault
  <2>2. slot' = slot
    BY DEF CleanModal, world
  <2>3. w \in tracked
    BY <2>1, <2>2 DEF IInv, LiveCounted
  <2>4. w[1] \in Kaggle \/ w[1] \in Modal
    BY DEF Workers, Ephemeral
  <2>5. CASE w[1] \in Kaggle
    BY <2>3, <2>5 DEF Of
  <2>6. CASE w[1] \in Modal
    <3>1. w \in Of(Modal)
      BY <2>3, <2>6 DEF Of
    <3>2. w[1] \in {v[1] : v \in Of(Modal)} \ failed
      BY <2>1, <3>1
    <3> QED BY <2>2, <3>1, <3>2 DEF Listed
  <2> QED BY <2>4, <2>5, <2>6
<1> QED BY <1>2, <1>3, <1>4 DEF IInv

\* Only kernels that are deleted are forgotten.
LEMMA CleanKaggleOK ==
    ASSUME IInv, CleanKaggle
    PROVE  IInv'
<1> PICK gone \in SUBSET Dead : \E lost \in SUBSET gone :
        /\ slot' = [w \in Workers |-> IF w \in gone THEN "none" ELSE slot[w]]
        /\ Forget(gone, lost)
        /\ IF lost = {} THEN UNCHANGED faults ELSE Fault
  BY DEF CleanKaggle
<1> PICK lost \in SUBSET gone :
        /\ slot' = [w \in Workers |-> IF w \in gone THEN "none" ELSE slot[w]]
        /\ Forget(gone, lost)
        /\ IF lost = {} THEN UNCHANGED faults ELSE Fault
  OBVIOUS
<1>1. tracked' = tracked \ (gone \ lost) /\ tracked \subseteq Workers
  BY DEF Forget, IInv, TypeOK
<1>2. slot' \in [Workers -> States]
  BY DEF IInv, TypeOK, States
<1>3. TypeOK'
  <2>1. faults' \in 0..MaxFaults
    BY HarvesterAssumption DEF IInv, TypeOK, Fault
  <2>2. tracked' \subseteq Workers
    BY <1>1
  <2> QED BY <1>2, <2>1, <2>2 DEF CleanKaggle, IInv, TypeOK
<1>4. LimitInv'
  BY <1>1, LimitKept DEF CleanKaggle, IInv, TypeOK, Of
<1>5. LiveCounted'
  <2> SUFFICES ASSUME faults' = 0, NEW w \in Workers, slot'[w] \in Alive
               PROVE  w \in tracked'
    BY DEF LiveCounted
  <2>1. faults \in Nat /\ faults = 0 /\ lost = {}
    BY DEF IInv, TypeOK, Fault
  <2>2. w \notin gone /\ slot'[w] = slot[w]
    BY DEF Alive
  <2> QED BY <1>1, <2>1, <2>2 DEF IInv, LiveCounted
<1> QED BY <1>3, <1>4, <1>5 DEF IInv

\* The count of the queue.
LEMMA CountQueuedOK ==
    ASSUME IInv, CountQueued
    PROVE  IInv'
<1>1. queue.gpu + queue.any \in 0..(2 * MaxQueue)
  BY HarvesterAssumption DEF IInv, TypeOK
<1>2. NoneActive \in [Accounts -> 0..(Cardinality(Slots) + 1)]
  BY FiniteWorkers DEF NoneActive
<1>3. active' \in [Accounts -> 0..(Cardinality(Slots) + 1)] /\ pc' \in {"sleep", "decide"}
  BY <1>2 DEF CountQueued, IInv, TypeOK
<1>4. TypeOK'
  BY <1>1, <1>3 DEF CountQueued, IInv, TypeOK, world
<1>5. LimitInv' /\ LiveCounted'
  BY DEF CountQueued, IInv, LimitInv, LiveCounted, Of, world
<1> QED BY <1>4, <1>5 DEF IInv

\* The launches of one tick: at most one per account, none if the limit is reached.
LEMMA DecideOK ==
    ASSUME IInv, Decide
    PROVE  IInv'
<1>1. PICK chosen \in SUBSET Accounts : Start({a \in chosen : Admits(a)})
  BY DEF Decide, Accounts, Ephemeral
<1> DEFINE admitted == {a \in chosen : Admits(a)}
<1>2. launching' = admitted /\ pc' = IF admitted = {} THEN "sleep" ELSE "launch"
  BY <1>1 DEF Start
<1>3. launching = {}
  BY DEF Decide, IInv, TypeOK
<1>4. NoneActive \in [Accounts -> 0..(Cardinality(Slots) + 1)]
  BY FiniteWorkers DEF NoneActive
<1>5. TypeOK'
  BY <1>2, <1>4, HarvesterAssumption DEF Decide, IInv, TypeOK, world
<1>6. LiveCounted'
  BY DEF Decide, IInv, LiveCounted, world
<1>7. LimitInv'
  <2>1. tracked' = tracked /\ Of(Modal)' = Of(Modal)
    BY DEF Decide, Of
  <2>2. CASE admitted \cap Modal = {}
    <3>1. launching' \cap Modal = launching \cap Modal
      BY <1>2, <1>3, <2>2
    <3> QED BY <2>1, <3>1 DEF IInv, LimitInv
  <2>3. CASE admitted \cap Modal # {}
    <3>1. Cardinality(Of(Modal)) < MaxConcurrent
      BY <2>3 DEF Admits
    <3>2. /\ Cardinality(launching' \cap Modal) \in Nat
          /\ Cardinality(launching' \cap Modal) <= Cardinality(Modal)
      BY Parts
    <3>3. Cardinality(Of(Modal)) \in Nat
      BY Parts DEF IInv, TypeOK, Of
    <3> QED BY <2>1, <3>1, <3>2, <3>3, FiniteWorkers, HarvesterAssumption DEF LimitInv
  <2> QED BY <2>2, <2>3
<1> QED BY <1>5, <1>6, <1>7 DEF IInv

-----------------------------------------------------------------------------
(* The launches.                                                            *)

\* What every end of a launch keeps.
LEMMA LaunchedTypes ==
    ASSUME IInv, NEW a \in Accounts, Launched(a)
    PROVE  /\ launching' = launching \ {a} /\ launching' \subseteq Accounts
           /\ pc' \in {"sleep", "launch"} /\ (pc' = "launch" <=> launching' # {})
           /\ demand' = demand /\ active' = active /\ queue' = queue
BY DEF Launched, IInv, TypeOK

\* A new sandbox takes the place of its launch.
LEMMA LaunchEphemeralOK ==
    ASSUME IInv, NEW a \in Accounts, LaunchEphemeral(a)
    PROVE  IInv'
<1>1. PICK w \in Free(a) : Created(w)
  BY DEF LaunchEphemeral
<1>2. w \in Workers /\ w[1] = a
  BY DEF Free
<1>3. slot' = [slot EXCEPT ![w] = "starting"] /\ tracked' = tracked \cup {w}
  BY <1>1 DEF Created
<1>4. Launched(a) /\ a \in launching /\ faults' = faults
  BY DEF LaunchEphemeral, Launched
<1>5. slot' \in [Workers -> States] /\ tracked' \subseteq Workers
  BY <1>2, <1>3 DEF IInv, TypeOK, States
<1>6. cool' \in [Ephemeral -> 0..Cooldown]
  BY HarvesterAssumption DEF LaunchEphemeral, IInv, TypeOK
<1>7. TypeOK'
  BY <1>4, <1>5, <1>6, LaunchedTypes DEF LaunchEphemeral, IInv, TypeOK
<1>8. LiveCounted'
  BY <1>2, <1>3, <1>4 DEF IInv, TypeOK, LiveCounted
<1>9. LimitInv'
  <2>1. launching' = launching \ {a}
    BY <1>4, LaunchedTypes
  <2>2. CASE a \notin Modal
    <3>1. Of(Modal)' = Of(Modal)
      BY <1>2, <1>3, <2>2 DEF Of
    <3>2. tracked \subseteq Workers /\ launching \subseteq Accounts
      BY DEF IInv, TypeOK
    <3> QED BY <2>1, <3>1, <3>2, LimitKept DEF IInv
  <2>3. CASE a \in Modal
    <3>1. Of(Modal)' = Of(Modal) \cup {w}
      BY <1>2, <1>3, <2>3 DEF Of
    <3>2. Of(Modal) \in SUBSET Workers /\ Of(Modal)' \in SUBSET Workers
      BY <1>2, <3>1 DEF IInv, TypeOK, Of
    <3>3. /\ IsFiniteSet(Of(Modal))
          /\ Cardinality(Of(Modal)) \in Nat /\ Cardinality(Of(Modal)') \in Nat
      BY <3>2, Parts
    <3>4. Cardinality(Of(Modal)') <= Cardinality(Of(Modal)) + 1
      <4> DEFINE S == Of(Modal)
      <4>1. Cardinality(S \cup {w}) = IF w \in S THEN Cardinality(S) ELSE Cardinality(S) + 1
        BY <3>3, FS_AddElement
      <4>2. Cardinality(Of(Modal)') = Cardinality(S \cup {w})
        BY <3>1
      <4> QED BY <3>3, <4>1, <4>2
    <3>5. launching' \cap Modal = (launching \cap Modal) \ {a} /\ a \in launching \cap Modal
      BY <1>4, <2>1, <2>3
    <3>6. IsFiniteSet(launching \cap Modal) /\ Cardinality(launching \cap Modal) \in Nat
      BY Parts
    <3>7. Cardinality(launching' \cap Modal) = Cardinality(launching \cap Modal) - 1
      BY <3>5, <3>6, FS_RemoveElement
    <3> QED BY <3>3, <3>4, <3>6, <3>7, FiniteWorkers, HarvesterAssumption DEF IInv, LimitInv
  <2> QED BY <2>2, <2>3
<1> QED BY <1>7, <1>8, <1>9 DEF IInv

\* A launch that fails leaves a worker unknown only if that is a fault.
LEMMA LaunchFailsOK ==
    ASSUME IInv, NEW a \in Accounts, LaunchFails(a)
    PROVE  IInv'
<1>1. Launched(a)
  BY DEF LaunchFails
<1>2. \/ slot' = slot /\ faults' = faults
      \/ /\ faults' = faults + 1 /\ faults < MaxFaults
         /\ \E w \in Workers : slot' = [slot EXCEPT ![w] = "starting"]
  BY DEF LaunchFails, Fault, Free
<1>3. slot' \in [Workers -> States] /\ faults' \in 0..MaxFaults
  BY <1>2, HarvesterAssumption DEF IInv, TypeOK, States
<1>4. wait' \in [HF -> 0..Throttle]
  BY HarvesterAssumption DEF LaunchFails, IInv, TypeOK
<1>5. TypeOK'
  BY <1>1, <1>3, <1>4, LaunchedTypes DEF LaunchFails, IInv, TypeOK
<1>6. LimitInv'
  <2>1. Of(Modal)' = Of(Modal) /\ launching' \subseteq launching
    BY <1>1, LaunchedTypes DEF LaunchFails, Of
  <2> QED BY <2>1, LimitKept DEF IInv, TypeOK
<1>7. LiveCounted'
  BY <1>2 DEF LaunchFails, IInv, TypeOK, LiveCounted
<1> QED BY <1>5, <1>6, <1>7 DEF IInv

\* A Space has no part in the limit nor in the count of workers.
LEMMA SpaceLaunchOK ==
    ASSUME IInv, NEW h \in Accounts, FirstDeploy(h) \/ EnsureRunning(h)
    PROVE  IInv'
<1>1. h \in HF /\ Launched(h) /\ tracked' = tracked /\ slot' = slot /\ cool' = cool
  BY DEF FirstDeploy, EnsureRunning, IInv, TypeOK
<1>2. wait' \in [HF -> 0..Throttle] /\ deployed' \subseteq HF
  BY <1>1, HarvesterAssumption DEF FirstDeploy, EnsureRunning, IInv, TypeOK
<1>3. space' \in [HF -> Stages]
  BY <1>1 DEF FirstDeploy, EnsureRunning, Woken, IInv, TypeOK, Stages
<1>4. faults' \in 0..MaxFaults /\ (faults' = 0 => faults = 0)
  BY HarvesterAssumption DEF FirstDeploy, EnsureRunning, Fault, IInv, TypeOK
<1>5. TypeOK'
  BY <1>1, <1>2, <1>3, <1>4, LaunchedTypes DEF IInv, TypeOK
<1>6. LimitInv'
  <2>1. Of(Modal)' = Of(Modal) /\ launching' \subseteq launching
    BY <1>1, LaunchedTypes DEF Of
  <2> QED BY <2>1, LimitKept DEF IInv, TypeOK
<1>7. LiveCounted'
  BY <1>1, <1>4 DEF IInv, LiveCounted
<1> QED BY <1>5, <1>6, <1>7 DEF IInv

-----------------------------------------------------------------------------
(* The platforms, the queue and a restart.                                  *)

\* No worker comes to life on its own.
LEMMA OutsideOK ==
    ASSUME IInv, Outside, slot' \in [Workers -> States], space' \in [HF -> Stages],
           queue' \in [gpu : 0..MaxQueue, any : 0..MaxQueue],
           \A w \in Workers : slot'[w] \in Alive => slot[w] \in Alive
    PROVE  IInv'
<1>1. TypeOK'
  BY DEF Outside, registry, IInv, TypeOK
<1>2. LimitInv' /\ LiveCounted'
  BY DEF Outside, registry, IInv, LimitInv, LiveCounted, Of
<1> QED BY <1>1, <1>2 DEF IInv

\* The steps of the workers.
LEMMA WorkerOK ==
    ASSUME IInv, NEW w \in Workers, Starts(w) \/ WorkerEnds(w)
    PROVE  IInv'
<1>1. Outside /\ space' = space /\ queue' = queue
  BY DEF Starts, WorkerEnds
<1>2. slot' \in [Workers -> States] /\ \A v \in Workers : slot'[v] \in Alive => slot[v] \in Alive
  BY DEF Starts, WorkerEnds, IInv, TypeOK, States, Alive
<1> QED BY <1>1, <1>2, OutsideOK DEF IInv, TypeOK

\* The steps of the Spaces.
LEMMA SpaceOK ==
    ASSUME IInv, NEW h \in HF, SpaceStarts(h) \/ SpaceSleeps(h) \/ SpaceFails(h)
    PROVE  IInv'
<1>1. Outside /\ slot' = slot /\ queue' = queue /\ space' \in [HF -> Stages]
  BY DEF SpaceStarts, SpaceSleeps, SpaceFails, SpaceMoves, IInv, TypeOK, Stages
<1> QED BY <1>1, OutsideOK DEF IInv, TypeOK

\* The steps of the queue.
LEMMA QueueOK ==
    ASSUME IInv, \/ Pull
                 \/ \E kind \in {"gpu", "any"} : TaskQueued(kind) \/ TaskCancelled(kind)
    PROVE  IInv'
<1>1. Outside /\ slot' = slot /\ space' = space
  BY DEF Pull, TaskQueued, TaskCancelled
<1>2. PICK kind \in {"gpu", "any"} :
        \/ Takes(kind)
        \/ queue[kind] < MaxQueue /\ queue' = [queue EXCEPT ![kind] = @ + 1]
  BY DEF Pull, TaskQueued, TaskCancelled
<1>3. queue' \in [gpu : 0..MaxQueue, any : 0..MaxQueue]
  BY <1>2, HarvesterAssumption DEF Takes, IInv, TypeOK
<1> QED BY <1>1, <1>3, OutsideOK DEF IInv, TypeOK

\* A restart forgets all workers: that is a fault.
LEMMA RestartOK ==
    ASSUME IInv, Restart, MaxConcurrent > 0
    PROVE  IInv'
<1>1. NoneActive \in [Accounts -> 0..(Cardinality(Slots) + 1)]
  BY FiniteWorkers DEF NoneActive
<1>2. TypeOK'
  BY <1>1, HarvesterAssumption DEF Restart, Fault, IInv, TypeOK, world
<1>3. LiveCounted'
  BY DEF Restart, Fault, IInv, TypeOK, LiveCounted
<1>4. Of(Modal)' = {} /\ launching' \cap Modal = {}
  BY DEF Restart, Of
<1>5. LimitInv'
  BY <1>4, FS_EmptySet, FiniteWorkers, HarvesterAssumption DEF LimitInv
<1> QED BY <1>2, <1>3, <1>5 DEF IInv

-----------------------------------------------------------------------------
\* The invariant holds whatever fails, for a limit of at least one sandbox.
THEOREM Invariance ==
    ASSUME MaxConcurrent > 0
    PROVE  Spec => []IInv
<1>1. Init => IInv
  <2> SUFFICES ASSUME Init PROVE IInv
    OBVIOUS
  <2>1. NoneActive \in [Accounts -> 0..(Cardinality(Slots) + 1)]
    BY FiniteWorkers DEF NoneActive
  <2>2. TypeOK
    BY <2>1, HarvesterAssumption DEF Init, TypeOK, States, Stages, Empty
  <2>3. Of(Modal) = {} /\ launching \cap Modal = {}
    BY DEF Init, Of
  <2>4. LimitInv
    BY <2>3, FS_EmptySet, FiniteWorkers, HarvesterAssumption DEF LimitInv
  <2>5. LiveCounted
    BY DEF Init, LiveCounted, Alive
  <2> QED BY <2>2, <2>4, <2>5 DEF IInv
<1>2. IInv /\ [Next]_vars => IInv'
  <2> SUFFICES ASSUME IInv, [Next]_vars PROVE IInv'
    OBVIOUS
  <2>1. CASE Tick
    BY <2>1, RefreshOK, CleanModalOK, CleanKaggleOK, CountQueuedOK, DecideOK,
       LaunchEphemeralOK, LaunchFailsOK, SpaceLaunchOK DEF Tick, Launch
  <2>2. CASE Restart
    BY <2>2, RestartOK
  <2>3. CASE \E w \in Workers : Starts(w) \/ WorkerEnds(w)
    BY <2>3, WorkerOK
  <2>4. CASE \E h \in HF : SpaceStarts(h) \/ SpaceSleeps(h) \/ SpaceFails(h)
    BY <2>4, SpaceOK
  <2>5. CASE \/ Pull
             \/ \E kind \in {"gpu", "any"} : TaskQueued(kind) \/ TaskCancelled(kind)
    BY <2>5, QueueOK
  <2>6. CASE UNCHANGED vars
    BY <2>6 DEF vars, registry, world, IInv, TypeOK, LimitInv, LiveCounted, Of
  <2> QED BY <2>1, <2>2, <2>3, <2>4, <2>5, <2>6 DEF Next
<1> QED BY <1>1, <1>2, PTL DEF Spec

\* Type correctness, for every number of accounts, workers and faults.
THEOREM TypeCorrect ==
    ASSUME MaxConcurrent > 0
    PROVE  Spec => []TypeOK
<1>1. IInv => TypeOK
  BY DEF IInv
<1> QED BY <1>1, Invariance, PTL

\* The sandboxes exceed the limit by less than the number of accounts.
THEOREM Limited ==
    ASSUME MaxConcurrent > 0
    PROVE  Spec => []ModalLimit
<1>1. IInv => ModalLimit
  <2> SUFFICES ASSUME IInv PROVE ModalLimit
    OBVIOUS
  <2>1. Cardinality(Of(Modal)) \in Nat /\ Cardinality(launching \cap Modal) \in Nat
    BY Parts DEF IInv, TypeOK, Of
  <2> QED BY <2>1, FiniteWorkers, HarvesterAssumption DEF IInv, LimitInv, ModalLimit
<1> QED BY <1>1, Invariance, PTL

\* No worker is forgotten while it is alive, unless something failed.
THEOREM Counting ==
    ASSUME MaxConcurrent > 0
    PROVE  Spec => []LiveCounted
<1>1. IInv => LiveCounted
  BY DEF IInv
<1> QED BY <1>1, Invariance, PTL
=============================================================================
