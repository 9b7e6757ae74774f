---------------------------- MODULE WhisperRunner ----------------------------
(***************************************************************************)
(* One execution of a transcription task: the whisper_runner script, from   *)
(* the download of its audio to the JSON it prints, inside the subprocess   *)
(* that execute_python starts, watches and reads.                           *)
(*                                                                          *)
(* What the outside does is a choice: how each run of yt-dlp ends, which    *)
(* device loads the model, how much audio is decoded, when the process is   *)
(* killed.  Lengths are in tenths of the length the site advertises.        *)
(***************************************************************************)
EXTENDS Naturals, FiniteSets

CONSTANTS Lengths,      \* decoded lengths, in tenths of the real one
          MinTenths,    \* MIN_DURATION_RATIO
          RunLimit,     \* time limit of a run of yt-dlp, in half hours
          TimeLimit     \* STDERR_READER_TIMEOUT_SEC, in half hours

ASSUME RunnerAssumption ==
    /\ Lengths \subseteq 0..10 /\ MinTenths \in 0..10
    /\ RunLimit \in Nat /\ TimeLimit \in Nat

VARIABLES
    job,        \* the task's configuration
    stage,      \* where the script is
    info,       \* yt-dlp left an info.json that states a duration
    part,       \* the formats whose bytes are in a .part file
    runs,       \* runs of yt-dlp
    fault,      \* how the last run of yt-dlp failed
    audio,      \* the audio file: decoded length, and the formats it is made of
    printed,    \* what the script printed
    result      \* what execute_python returns

vars == <<job, stage, info, part, runs, fault, audio, printed, result>>

Formats  == {"best", "worst"}
Faults   == {"none", "unavailable", "truncated", "other", "timeout"}
YtStages == {"first", "anonymous", "other_format"}
Stages   == YtStages \cup {"deps", "cookies", "source", "cuda", "cpu", "transcribe", "exit",
                           "killed", "ended"}
Jobs     == [source : {"blob", "direct", "site"}, cookies : BOOLEAN, proxy : BOOLEAN]
Output   == [body : {"nothing", "noise", "error", "transcript"}, exit : {0, 1, 2, 9}]
Nothing  == [body |-> "nothing", exit |-> 1]

Init ==
    /\ job \in Jobs
    /\ stage = "deps" /\ info = FALSE /\ part = {} /\ fault = "none" /\ runs = 0
    /\ audio = [len |-> 0, from |-> {}]
    /\ printed = Nothing /\ result = Nothing

Error(code) == /\ stage' = "exit"
               /\ printed' = [body |-> "error", exit |-> code]
Goto(s)     == stage' = s /\ UNCHANGED printed

-----------------------------------------------------------------------------
(* The script.                                                              *)

\* A failed upgrade is tolerated, a package that cannot be imported is not.
EnsureDeps ==
    /\ stage = "deps"
    /\ Goto(IF job.cookies THEN "cookies" ELSE "source") \/ Error(1)
    /\ UNCHANGED <<job, info, part, runs, fault, audio, result>>

FetchCookies ==
    /\ stage = "cookies"
    /\ Goto("source") \/ Error(1)
    /\ UNCHANGED <<job, info, part, runs, fault, audio, result>>

\* An audio blob or a direct link is fetched as it is; a failure is no DownloadError.
FetchFile ==
    /\ stage = "source" /\ job.source # "site"
    /\ \/ /\ \E n \in Lengths : audio' = [len |-> n, from |-> {"best"}]
          /\ Goto("cuda")
       \/ Error(1) /\ UNCHANGED audio
    /\ UNCHANGED <<job, info, part, runs, fault, result>>

FetchSite ==
    /\ stage = "source" /\ job.source = "site"
    /\ Goto("first")
    /\ UNCHANGED <<job, info, part, runs, fault, audio, result>>

Format      == IF stage = "other_format" THEN "worst" ELSE "best"
WithCookies == stage = "first" /\ job.cookies /\ ~job.proxy

\* yt-dlp says it succeeded: it resumed what it found in the .part file, and what
\* decodes of a file made of two formats is anything.  A container that is not
\* looked for is no audio.
YtDlpSucceeds ==
    /\ stage \in YtStages
    /\ fault' = "none" /\ part' = {} /\ runs' = runs + 1
    /\ info' \in {info, TRUE}
    /\ \/ /\ \E n \in Lengths : audio' = [len |-> n, from |-> part \cup {Format}]
          /\ Goto("cuda")
       \/ Error(1) /\ UNCHANGED audio
    /\ UNCHANGED <<job, result>>

\* variant: the partial file is kept for the other format
NextRunResuming(f) ==
    IF f = "unavailable" /\ WithCookies THEN Goto("anonymous") /\ UNCHANGED part
    ELSE IF f = "truncated" /\ stage # "other_format"
         THEN Goto("other_format") /\ part' = part \cup {Format}
         ELSE Error(2) /\ UNCHANGED part

\* variant: the time limit of a run is not caught
NextRunUncaught(f) ==
    IF f = "unavailable" /\ WithCookies THEN Goto("anonymous") /\ UNCHANGED part
    ELSE IF f = "truncated" /\ stage # "other_format"
         THEN Goto("other_format") /\ part' = {}
         ELSE Error(IF f = "timeout" THEN 1 ELSE 2) /\ UNCHANGED part

\* Cookies narrow the formats: once more without.  A broken stream: once in another
\* format, from scratch.  Else a DownloadError.
NextRun(f) ==
    IF f = "unavailable" /\ WithCookies THEN Goto("anonymous") /\ UNCHANGED part
    ELSE IF f = "truncated" /\ stage # "other_format"
         THEN Goto("other_format") /\ part' = {}
         ELSE Error(2) /\ UNCHANGED part

YtDlpFails(f) ==
    /\ stage \in YtStages
    /\ fault' = f /\ runs' = runs + 1
    /\ info' \in {info, TRUE}
    /\ NextRun(f)
    /\ UNCHANGED <<job, audio, result>>

\* The model loads on CUDA, else (a RuntimeError) on the CPU, else not at all.
LoadModel ==
    /\ stage \in {"cuda", "cpu"}
    /\ \/ Goto("transcribe")
       \/ stage = "cuda" /\ Goto("cpu")
       \/ Error(1)
    /\ UNCHANGED <<job, info, part, runs, fault, audio, result>>

\* variant: no duration is compared
MuchTooShortNever == FALSE

\* _verify_duration: without an advertised or a decoded length it has no opinion.
MuchTooShort == /\ job.source = "site" /\ info /\ audio.len > 0
                /\ audio.len < MinTenths

Transcribe ==
    /\ stage = "transcribe"
    /\ \/ Error(1)
       \/ MuchTooShort /\ Error(2)
       \/ /\ ~MuchTooShort
          /\ stage' = "exit"
          /\ printed' = [body |-> "transcript", exit |-> 0]
    /\ UNCHANGED <<job, info, part, runs, fault, audio, result>>

-----------------------------------------------------------------------------
(* The subprocess.                                                          *)

\* pip writes to the same stdout: what is there is then not one JSON object.
Noise ==
    /\ stage = "exit" /\ printed.body \in {"error", "transcript"}
    /\ printed' = [printed EXCEPT !.body = "noise"]
    /\ UNCHANGED <<job, stage, info, part, runs, fault, audio, result>>

\* By the abort watcher, or after two hours.
Killed ==
    /\ stage \notin {"exit", "killed", "ended"}
    /\ Goto("killed")
    /\ UNCHANGED <<job, info, part, runs, fault, audio, result>>

\* The JSON's exit code; without JSON that of the process (the script always exits
\* 0), made 1 if it is 0.
Collect ==
    /\ stage \in {"exit", "killed"}
    /\ stage' = "ended"
    /\ result' = CASE stage = "killed"       -> [body |-> "nothing", exit |-> 9]
                   [] printed.body = "noise" -> [body |-> "noise", exit |-> 1]
                   [] OTHER                  -> printed
    /\ UNCHANGED <<job, info, part, runs, fault, audio, printed>>

Script ==
    \/ EnsureDeps \/ FetchCookies \/ FetchFile \/ FetchSite \/ YtDlpSucceeds
    \/ \E f \in Faults \ {"none"} : YtDlpFails(f)
    \/ LoadModel \/ Transcribe

Next == Script \/ Noise \/ Killed \/ Collect

Spec == Init /\ [][Next]_vars

-----------------------------------------------------------------------------
\* Every run of yt-dlp starts without partial files, what is transcribed is a file.
TypeOK ==
    /\ stage \in YtStages => part = {}
    /\ stage \in {"cuda", "cpu", "transcribe"} => audio.from # {} /\ fault = "none"
    /\ job \in Jobs /\ stage \in Stages
    /\ info \in BOOLEAN /\ part \subseteq Formats /\ fault \in Faults /\ runs \in Nat
    /\ audio \in [len : 0..10, from : SUBSET Formats]
    /\ printed \in Output /\ result \in Output

Ended == stage = "ended"

\* What a worker submits as a result (exit code 0) is a transcript of all of the
\* audio, as far as the site said how long it is and anything was decoded:
\* whatever yt-dlp, pip and the kill did to the execution.
ResultIsWhole ==
    Ended /\ result.exit = 0 =>
        /\ result.body = "transcript"
        /\ job.source = "site" /\ info /\ audio.len > 0 => audio.len >= MinTenths

\* No audio is made of the bytes of two renditions.
OneRendition == Cardinality(audio.from) <= 1

\* A download that failed, or ran out of time, is reported as such (exit 2), and
\* nothing else is, but audio that is much too short.
DownloadFailuresTold ==
    Ended /\ result.body = "error" =>
        /\ fault # "none" => result.exit = 2
        /\ result.exit = 2 => fault # "none" \/ MuchTooShort

\* At most three runs of yt-dlp, of half an hour each, whatever their failures: the
\* time limit of the execution (two hours) leaves time to transcribe.
DownloadInTime == runs * RunLimit < TimeLimit
=============================================================================
