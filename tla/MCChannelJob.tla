---------------------------- MODULE MCChannelJob ----------------------------
(* Instances of ChannelJob for TLC. *)
EXTENDS ChannelProperties

CONSTANTS c1, s1

OneChannel == {c1}
OneSingle  == {s1}
None       == {}
OnePlaylist == {{1, 2}}
TwoVideos  == {1, 2}
Overlap    == {{1}, {1, 2}}      \* video 1 is in both playlists
LastOne    == [j \in SingleJobs |-> 2]
=============================================================================
