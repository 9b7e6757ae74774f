---------------------------- MODULE ChannelLedger ----------------------------
(***************************************************************************)
(* What the tables channel_jobs and channel_videos promise to whoever reads *)
(* them after a restart: a video of a job is listed, then it names a task   *)
(* that exists, then it is delivered, and none of this is ever taken back;  *)
(* a job that has left discovery does not go back to it.  One commit may    *)
(* carry the writes of several coroutines: a step may move any number of    *)
(* videos by any number of stages.                                          *)
(***************************************************************************)
EXTENDS Naturals

CONSTANTS Jobs, Rows          \* Rows: the pairs of a job and a video

VARIABLES
    phase,                    \* phase[j]: 0 unknown, 1 discovering, 2 beyond
    stage                     \* stage[r]: 0 unknown, 1 listed, 2 submitted, 3 delivered

Init == /\ phase = [j \in Jobs |-> 0]
        /\ stage = [r \in Rows |-> 0]

Next == /\ phase' \in [Jobs -> 0..2]
        /\ stage' \in [Rows -> 0..3]
        /\ \A j \in Jobs : phase[j] <= phase'[j]
        /\ \A r \in Rows : stage[r] <= stage'[r]

Spec == Init /\ [][Next]_<<phase, stage>>
=============================================================================
