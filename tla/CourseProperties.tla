-------------------------- MODULE CourseProperties --------------------------
(***************************************************************************)
(* What a delivered course is, whatever the model answers and whichever     *)
(* stage fails; what is paid for it; that every transcript gets one.        *)
(***************************************************************************)
EXTENDS CourseWriter

TypeOK ==
    /\ pc \in {"sleep", "next", "structure", "rewrite", "write", "upload", "mark"}
    /\ rows \subseteq Rows /\ row \in {{}} \cup {{r} : r \in Rows}
    /\ pc \in {"sleep", "next"} <=> row = {}
    /\ sections \in Seq(Section) /\ rewrites \in Seq(Seq(Subsection))
    /\ place \in 1..Playlists
    /\ file \in [Videos -> [1..Playlists -> Courses]]
    /\ uploaded \in [Videos -> [1..Playlists -> Courses]]
    /\ marked \subseteq Rows /\ committed \subseteq marked
    /\ quota \in [1..Keys -> 0..Quota]
    /\ faults \in 0..MaxFaults

-----------------------------------------------------------------------------
\* Every segment belongs to exactly one section, and every section was rewritten.
Whole(c, n) ==
    /\ \A g \in 0..(n - 1) :
        Cardinality({i \in 1..Len(c.sections) :
                        c.sections[i].first <= g /\ g <= c.sections[i].last}) = 1
    /\ Len(c.rewrites) = Len(c.sections)
    /\ \A i \in 1..Len(c.rewrites) : c.rewrites[i] # <<>>

\* The subsections, read from the first section to the last, never go back in time.
InOrder(c) ==
    \A i, j \in 1..Len(c.rewrites) :
        \A a \in 1..Len(c.rewrites[i]), b \in 1..Len(c.rewrites[j]) :
            i < j \/ (i = j /\ a <= b) => c.rewrites[i][a].at <= c.rewrites[j][b].at

Files(r) == {file[Video[r]][p] : p \in 1..Playlists} \ {None, Torn}

\* No answer of the model and no failure between two calls leaves a course with a
\* gap, a section twice or a section that was not rewritten: it is the course of the
\* whole transcript, that of its own job or of another job of the same video.
CourseWhole ==
    \A r \in Rows : \A c \in Files(r) :
        \E q \in Rows : Video[q] = Video[r] /\ Whole(c, Segments[q])

\* The headings of a course are in the order of the video: what is accepted for one
\* section fits what is accepted for the others.
CourseInOrder == \A r \in Rows : \A c \in Files(r) : InOrder(c)

\* A delivered video has its course, one and the same, on Drive for all its
\* playlists, however many sweeps that took.
DeliveredToAll ==
    \A r \in marked :
        LET copies == {uploaded[Video[r]][p] : p \in 1..Playlists}
        IN None \notin copies /\ Cardinality(copies \ {Torn}) <= 1

\* A call is never paid for a video that has a course in one of its directories: a
\* delivery that fails later does not have the course generated again.
PaidOnce ==
    [][(\E k \in 1..Keys : quota'[k] < quota[k]) =>
        \A r \in row : \A p \in 1..Playlists : file[Video[r]][p] = None]_vars

-----------------------------------------------------------------------------
\* The sweeps go on, and the quotas are renewed every day.
Fairness == /\ WF_vars(Sweep \/ EndSweep \/ \E r \in Rows : Deliver(r))
            /\ WF_vars(Renew)

FairSpec == Spec /\ Fairness

\* Every video with a transcript gets its course, one that has none does not stop
\* the others, if the keys together have the quota of one course.
CourseDelivered == \A r \in Rows : Segments[r] > 0 => <>(r \in marked)
=============================================================================
