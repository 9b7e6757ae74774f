------------------------- MODULE HarvesterProperties -------------------------
(***************************************************************************)
(* Limits, counts and the supply of workers.                                *)
(***************************************************************************)
EXTENDS Harvester

TypeOK ==
    /\ pc \in {"sleep", "cleanup", "kaggle", "count", "decide", "launch"}
    /\ launching \subseteq Accounts /\ (pc = "launch" <=> launching # {})
    /\ demand \in 0..(2 * MaxQueue)
    /\ active \in [Accounts -> 0..(Cardinality(Slots) + 1)]
    /\ tracked \subseteq Workers
    /\ cool \in [Ephemeral -> 0..Cooldown]
    /\ wait \in [HF -> 0..Throttle]
    /\ deployed \subseteq HF
    /\ slot \in [Workers -> States]
    /\ space \in [HF -> Stages]
    /\ queue \in [gpu : 0..MaxQueue, any : 0..MaxQueue]
    /\ faults \in 0..MaxFaults

-----------------------------------------------------------------------------
\* The limit of the Modal provider is compared before the sandboxes are created, at
\* the same time: it is exceeded, but by less than one sandbox per account.
ModalLimit == Cardinality(Of(Modal)) + 1 <= MaxConcurrent + Cardinality(Modal)

\* Every worker that is alive is counted, as long as nothing failed: no cleanup
\* forgets one.
LiveCounted == faults = 0 => \A w \in Workers : slot[w] \in Alive => w \in tracked

-----------------------------------------------------------------------------
\* The harvester ticks on.  If launches, starts or deletions of an ended kernel are
\* tried again and again, one succeeds at last.
Fairness ==
    /\ WF_vars(Tick)
    /\ SF_vars(\E a \in Accounts : Launch(a))
    /\ SF_vars((\E w \in Workers : Starts(w)) \/ (\E h \in HF : SpaceStarts(h)))
    /\ SF_vars(CleanKaggle /\ \E w \in Workers : slot[w] = "over" /\ slot'[w] = "none")

FairSpec == Spec /\ Fairness

\* A worker that could take one of the queued tasks, if there is any.
Served == \/ queue = Empty
          \/ \E w \in Workers : slot[w] = "up"
          \/ queue.any > 0 /\ \E h \in HF : space[h] = "up"

\* A kernel whose deletion succeeded without an answer is counted for ever.
Ghost == faults > 0 /\ \E w \in Of(Kaggle) : slot[w] = "none"

\* A queue that stays as it is gets workers that can run its tasks: no cooldown,
\* limit, throttle, sleeping Space or dead worker still counted starves it.
DemandMet == <>[][queue' = queue]_vars => []<>(Served \/ Ghost)
=============================================================================
