--------------------------- MODULE MCCourseWriter ---------------------------
(* Instances of CourseWriter for TLC. *)
EXTENDS CourseProperties, TLC

CONSTANTS r1, r2, r3, v1, v2

ThreeRows == {r1, r2, r3}

\* r1 and r2 are the same video in two jobs, transcribed twice; the transcript of r3
\* is empty.
OneTwice   == (r1 :> v1) @@ (r2 :> v1) @@ (r3 :> v2)
OneEmpty   == (r1 :> 3) @@ (r2 :> 2) @@ (r3 :> 0)
=============================================================================
