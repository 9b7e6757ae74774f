---------------------------- MODULE CourseWriter ----------------------------
(***************************************************************************)
(* Written courses: the delivery sweep has the transcript of a video that   *)
(* was submitted with write_course cut into sections and rewritten, section *)
(* by section, by a language model, writes the course to the directory of   *)
(* each of the video's playlists and copies it to Drive.                    *)
(*                                                                          *)
(* ChannelJob has the sweep itself; here are the stages it goes through for *)
(* one row, the ways in which the model may answer and what a failed        *)
(* delivery leaves for the next sweep.  A transcript is abstracted to the   *)
(* number of its segments, a section to the first and the last of its       *)
(* segments, a subsection to the segment it starts at and whether it has a  *)
(* title; an answer that lacks a key, a title or a text is one more that is *)
(* not valid.                                                               *)
(***************************************************************************)
EXTENDS Naturals, Sequences, FiniteSets

CONSTANTS
    Rows,         \* delivered with a course, once their tasks are completed
    Video,        \* Video[r]: names the course's file, two jobs may share it
    Segments,     \* Segments[r]: the number of segments of r's transcript
    Playlists,    \* how many playlists a video has, delivered in their order
    Group,        \* _FALLBACK_GROUP_SIZE
    Keys,         \* how many keys GEMINI_API_KEY lists
    Quota,        \* calls a key answers until its quota is renewed
    MaxParts,     \* bound: sections or subsections of an answer
    MaxFaults     \* bound: errors, unusable answers and failed uploads, crashes

ASSUME CourseAssumption ==
    /\ Segments \in [Rows -> Nat]
    /\ Playlists \in Nat \ {0} /\ Group \in Nat \ {0} /\ Keys \in Nat \ {0}
    /\ Quota \in Nat /\ MaxParts \in Nat /\ MaxFaults \in Nat

VARIABLES
    pc, rows, row,      \* the sweep: its step, the rows left, the one in hand
    sections, rewrites, \* its structure, and the rendering of the first of them
    place,              \* the playlist _write_targets is at
    file,               \* file[v][p]: the course of v in the directory of p
    uploaded,           \* uploaded[v][p]: the course of v on Drive, in the folder of p
    marked, committed,  \* the rows with delivered = 1, and those on disk
    quota, faults

hand  == <<pc, rows, row, sections, rewrites, place>>
store == <<file, uploaded, marked, committed>>
vars  == <<hand, store, quota, faults>>

Videos == {Video[r] : r \in Rows}

-----------------------------------------------------------------------------
(* What is accepted of an answer.                                           *)

Section    == [first : Nat, last : Nat]
Subsection == [at : Nat, titled : BOOLEAN]

\* variant: the last section need not reach the last segment
ValidPrefix(s, n) ==
    /\ s # <<>>
    /\ s[1].first = 0
    /\ \A i \in 1..Len(s) : /\ s[i].first <= s[i].last /\ s[i].last < n
                            /\ i < Len(s) => s[i + 1].first = s[i].last + 1

\* _validate_structure: without a gap, within the transcript, to its end.
Valid(s, n) ==
    /\ s # <<>>
    /\ s[1].first = 0 /\ s[Len(s)].last + 1 = n
    /\ \A i \in 1..Len(s) : /\ s[i].first <= s[i].last /\ s[i].last < n
                            /\ i < Len(s) => s[i + 1].first = s[i].last + 1

\* _fallback_structure: groups of Group segments, the last one may be shorter.
Groups(n)   == {k \in 1..n : (k - 1) * Group < n}
Fallback(n) == [k \in Groups(n) |->
                   [first |-> (k - 1) * Group,
                    last  |-> IF k * Group <= n THEN k * Group - 1 ELSE n - 1]]

\* variant: where a subsection starts is not compared with the section
ValidAnywhere(s, section) ==
    /\ s # <<>>
    /\ \A i \in 1..Len(s) : i > 1 => s[i - 1].at <= s[i].at
    /\ Len(s) > 1 => \A i \in 1..Len(s) : s[i].titled

\* _validate_rewrite: within the section and in reading order, titled if several.
ValidRewrite(s, section) ==
    /\ s # <<>>
    /\ \A i \in 1..Len(s) : /\ section.first <= s[i].at /\ s[i].at <= section.last
                            /\ i > 1 => s[i - 1].at <= s[i].at
    /\ Len(s) > 1 => \A i \in 1..Len(s) : s[i].titled

SeqsOf(S) == UNION {[1..k -> S] : k \in 0..MaxParts}

Courses == [sections : Seq(Section), rewrites : Seq(Seq(Subsection))]
None    == [sections |-> <<>>, rewrites |-> <<>>]   \* no file
Torn    == [sections |-> <<>>, rewrites |-> <<<<>>>>] \* cut short by a crash

-----------------------------------------------------------------------------
Init ==
    /\ pc = "sleep" /\ rows = {} /\ row = {}
    /\ sections = <<>> /\ rewrites = <<>> /\ place = 1
    /\ file = [v \in Videos |-> [p \in 1..Playlists |-> None]]
    /\ uploaded = file
    /\ marked = {} /\ committed = {}
    /\ quota = [k \in 1..Keys |-> Quota]
    /\ faults = 0

Fault   == faults < MaxFaults /\ faults' = faults + 1
NoFault == UNCHANGED faults

\* The SELECT of deliver_completed.
Sweep ==
    /\ pc = "sleep" /\ marked # Rows
    /\ pc' = "next" /\ rows' = Rows \ marked
    /\ UNCHANGED <<row, sections, rewrites, place, store, quota>> /\ NoFault

\* variant: the directory of the last playlist is looked at
ExistingLast(v) == {file[v][Playlists]} \ {None}

\* _existing_course_md: the course found in the first directory that has one.
Existing(v) == LET found == {p \in 1..Playlists : file[v][p] # None}
               IN {file[v][p] : p \in {q \in found : \A o \in found : q <= o}}

Begin(r) ==
    /\ pc = "next" /\ r \in rows
    /\ rows' = rows \ {r}
    /\ place' = 1
    /\ IF Existing(Video[r]) # {}
       THEN \E course \in Existing(Video[r]) :
               /\ pc' = "write" /\ row' = {r}
               /\ sections' = course.sections /\ rewrites' = course.rewrites
       ELSE /\ sections' = <<>> /\ rewrites' = <<>>
            /\ IF Segments[r] = 0 THEN pc' = "next" /\ row' = {}
                                  ELSE pc' = "structure" /\ row' = {r}
    /\ UNCHANGED <<store, quota>> /\ NoFault

-----------------------------------------------------------------------------
(* The calls of the model.                                                  *)

\* variant: the first key only
AnsweringFirst == {k \in {1} : quota[k] > 0}

\* _generate_rotating: a key is asked when those before it are out of quota.
Answering == {k \in 1..Keys : quota[k] > 0 /\ \A j \in 1..(k - 1) : quota[j] = 0}

Spend(k) == quota' = [quota EXCEPT ![k] = @ - 1]

\* variant: the row stays in hand
AbandonHeld == /\ pc' = "next" /\ sections' = <<>> /\ rewrites' = <<>>
               /\ UNCHANGED <<rows, row, place, store>>

\* A failure of the row leaves it to the next sweep, and takes the next row.
Abandon == /\ pc' = "next" /\ row' = {} /\ sections' = <<>> /\ rewrites' = <<>>
           /\ UNCHANGED <<rows, place, store>>

Structured(s) == /\ pc' = "rewrite" /\ sections' = s
                 /\ UNCHANGED <<rows, row, rewrites, place, store>>

\* build_structure: an answer that is not valid, an error or the end of all quotas
\* makes it group the segments mechanically.
StructureAnswered(r) ==
    /\ pc = "structure" /\ row = {r}
    /\ \E k \in Answering : Spend(k)
    /\ LET At == [first : 0..Segments[r], last : 0..Segments[r]]
       IN \E answer \in SeqsOf(At) :
            IF Valid(answer, Segments[r])
            THEN Structured(answer) /\ NoFault
            ELSE Structured(Fallback(Segments[r])) /\ Fault

StructureFails(r) ==
    /\ pc = "structure" /\ row = {r}
    /\ Structured(Fallback(Segments[r]))
    /\ UNCHANGED quota
    /\ IF Answering = {} THEN NoFault ELSE Fault

\* build_full_rewrite: one call per section, in order.
Rewrite(r) ==
    /\ pc = "rewrite" /\ row = {r}
    /\ \E k \in Answering : Spend(k)
    /\ LET section == sections[Len(rewrites) + 1]
           At      == [at : 0..Segments[r], titled : BOOLEAN]
       IN \E answer \in SeqsOf(At) :
            IF ValidRewrite(answer, section)
            THEN /\ rewrites' = Append(rewrites, answer)
                 /\ pc' = IF Len(rewrites') = Len(sections) THEN "write" ELSE "rewrite"
                 /\ UNCHANGED <<rows, row, sections, place, store>> /\ NoFault
            ELSE Abandon /\ Fault

RewriteFails(r) ==
    /\ pc = "rewrite" /\ row = {r}
    /\ Abandon /\ UNCHANGED quota
    /\ IF Answering = {} THEN NoFault ELSE Fault

-----------------------------------------------------------------------------
(* _write_targets: for each playlist the file, then the copy on Drive.      *)

InHand == [sections |-> sections, rewrites |-> rewrites]

WriteFile(r) ==
    /\ pc = "write" /\ row = {r}
    /\ file' = [file EXCEPT ![Video[r]][place] = InHand]
    /\ pc' = "upload"
    /\ UNCHANGED <<rows, row, sections, rewrites, place, uploaded, marked, committed, quota>>
    /\ NoFault

\* variant: one copy is taken to be enough
UploadOnce(r) ==
    /\ pc = "upload" /\ row = {r}
    /\ uploaded' = [uploaded EXCEPT ![Video[r]][place] = InHand]
    /\ pc' = "mark"
    /\ UNCHANGED <<rows, row, sections, rewrites, place, file, marked, committed, quota>>
    /\ NoFault

Upload(r) ==
    /\ pc = "upload" /\ row = {r}
    /\ uploaded' = [uploaded EXCEPT ![Video[r]][place] = InHand]
    /\ IF place = Playlists THEN pc' = "mark" /\ UNCHANGED place
                            ELSE pc' = "write" /\ place' = place + 1
    /\ UNCHANGED <<rows, row, sections, rewrites, file, marked, committed, quota>>
    /\ NoFault

UploadFails(r) ==
    /\ pc = "upload" /\ row = {r}
    /\ Abandon /\ UNCHANGED quota /\ Fault

Mark(r) ==
    /\ pc = "mark" /\ row = {r}
    /\ marked' = marked \cup {r}
    /\ pc' = "next" /\ row' = {} /\ sections' = <<>> /\ rewrites' = <<>>
    /\ UNCHANGED <<rows, place, file, uploaded, committed, quota>> /\ NoFault

EndSweep ==
    /\ pc = "next" /\ rows = {}
    /\ pc' = "sleep" /\ committed' = marked
    /\ UNCHANGED <<rows, row, sections, rewrites, place, file, uploaded, marked, quota>>
    /\ NoFault

-----------------------------------------------------------------------------
\* The quotas of a day.
Renew ==
    /\ quota' = [k \in 1..Keys |-> Quota]
    /\ UNCHANGED <<hand, store, faults>>

\* The coordinator goes down; a file it was writing may be cut short.
Crash ==
    /\ Fault
    /\ \/ UNCHANGED file
       \/ \E r \in row : /\ pc = "write"
                         /\ file' = [file EXCEPT ![Video[r]][place] = Torn]
    /\ pc' = "sleep" /\ rows' = {} /\ row' = {}
    /\ sections' = <<>> /\ rewrites' = <<>> /\ place' = 1
    /\ marked' = committed
    /\ UNCHANGED <<uploaded, committed, quota>>

-----------------------------------------------------------------------------
Deliver(r) ==
    \/ Begin(r) \/ StructureAnswered(r) \/ StructureFails(r)
    \/ Rewrite(r) \/ RewriteFails(r)
    \/ WriteFile(r) \/ Upload(r) \/ UploadFails(r) \/ Mark(r)

Next == Sweep \/ EndSweep \/ (\E r \in Rows : Deliver(r)) \/ Renew \/ Crash

Spec == Init /\ [][Next]_vars
=============================================================================
