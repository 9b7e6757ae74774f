--------------------------- MODULE MCWhisperRunner ---------------------------
(* Instances of WhisperRunner for TLC. *)
EXTENDS WhisperRunner

Boundary == {0, 4, 8, 9, 10}
=============================================================================
