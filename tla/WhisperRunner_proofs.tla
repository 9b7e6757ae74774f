------------------------ MODULE WhisperRunner_proofs ------------------------
(***************************************************************************)
(* Every execution of whisper_runner, for all lengths and limits: an        *)
(* inductive invariant that says, stage by stage, how many runs of yt-dlp   *)
(* there were, what the audio is made of and what the script has printed.   *)
(***************************************************************************)
EXTENDS WhisperRunner, FiniteSetTheorems, TLAPS

Early == {"deps", "cookies", "source"}

\* How often yt-dlp was run.
Counts ==
    /\ runs \in 0..3
    /\ stage \in Early \cup {"first"} => runs = 0
    /\ stage = "anonymous" => runs = 1
    /\ stage = "other_format" => runs \in 1..2

\* What was downloaded, and how the last run ended.
Downloads ==
    /\ stage \in Early => fault = "none" /\ part = {}
    /\ audio.from \in {{}, {"best"}, {"worst"}}

\* What the script said before it ended.
Said ==
    stage = "exit" =>
        /\ printed.body \in {"noise", "error", "transcript"}
        /\ printed.body = "transcript" => printed.exit = 0 /\ ~MuchTooShort
        /\ printed.body = "error" =>
            /\ printed.exit # 0
            /\ fault # "none" => printed.exit = 2
            /\ printed.exit = 2 => fault # "none" \/ MuchTooShort

\* What execute_python made of it.
Returned ==
    stage = "ended" =>
        /\ result.exit = 0 => result.body = "transcript" /\ ~MuchTooShort
        /\ result.body = "error" =>
            /\ fault # "none" => result.exit = 2
            /\ result.exit = 2 => fault # "none" \/ MuchTooShort

IInv == TypeOK /\ Counts /\ Downloads /\ Said /\ Returned

USE DEF Early, YtStages, Stages, Formats, Faults

-----------------------------------------------------------------------------
\* The start of an execution satisfies the invariant.
LEMMA InitOK == Init => IInv
<1> SUFFICES ASSUME Init PROVE IInv
  OBVIOUS
<1>1. stage = "deps" /\ runs = 0 /\ part = {} /\ fault = "none" /\ info = FALSE /\ job \in Jobs
  BY DEF Init
<1>2. audio \in [len : 0..10, from : SUBSET Formats] /\ audio.from = {}
  BY DEF Init
<1>3. printed \in Output /\ result \in Output
  BY DEF Init, Output, Nothing
<1>4. info \in BOOLEAN
  BY <1>1
<1>5. TypeOK
  BY <1>1, <1>2, <1>3, <1>4 DEF TypeOK
<1>6. Counts
  BY <1>1 DEF Counts
<1>7. Downloads /\ Said /\ Returned
  BY <1>1, <1>2 DEF Downloads, Said, Returned
<1> QED
  BY <1>5, <1>6, <1>7 DEF IInv

\* The stages before the download, and the model's.
LEMMA SetupOK ==
    ASSUME IInv, EnsureDeps \/ FetchCookies \/ FetchSite \/ LoadModel
    PROVE  IInv'
<1>1. CASE EnsureDeps
  BY <1>1 DEF EnsureDeps, Goto, Error, IInv, TypeOK, Counts, Downloads, Said, Returned, Output
<1>2. CASE FetchCookies
  BY <1>2 DEF FetchCookies, Goto, Error, IInv, TypeOK, Counts, Downloads, Said, Returned, Output
<1>3. CASE FetchSite
  <2>1. TypeOK'
    BY <1>3 DEF FetchSite, Goto, IInv, TypeOK, Counts, Downloads
  <2>2. Counts' /\ Downloads'
    BY <1>3 DEF FetchSite, Goto, IInv, Counts, Downloads
  <2>3. Said' /\ Returned'
    BY <1>3 DEF FetchSite, Goto, Said, Returned
  <2> QED BY <2>1, <2>2, <2>3 DEF IInv
<1>4. CASE LoadModel
  BY <1>4 DEF LoadModel, Goto, Error, IInv, TypeOK, Counts, Downloads, Said, Returned, Output
<1> QED BY <1>1, <1>2, <1>3, <1>4

\* The two ways to get the audio.
LEMMA AudioOK ==
    ASSUME IInv, FetchFile \/ YtDlpSucceeds
    PROVE  IInv'
<1> USE RunnerAssumption
<1>1. CASE FetchFile
  BY <1>1 DEF FetchFile, Goto, Error, IInv, TypeOK, Counts, Downloads, Said, Returned, Output
<1>2. CASE YtDlpSucceeds
  <2>1. part = {} /\ runs' = runs + 1 /\ runs \in 0..2
    BY <1>2 DEF YtDlpSucceeds, IInv, TypeOK, Counts
  <2>2. part \cup {Format} \in {{"best"}, {"worst"}}
    BY <2>1 DEF Format
  <2>3. audio' \in [len : 0..10, from : SUBSET Formats] /\ audio'.from \in {{}, {"best"}, {"worst"}}
    BY <1>2, <2>2 DEF YtDlpSucceeds, IInv, TypeOK, Downloads
  <2>4. \/ stage' = "cuda" /\ audio'.from # {} /\ printed' = printed
        \/ stage' = "exit" /\ printed' = [body |-> "error", exit |-> 1]
    BY <1>2, <2>2 DEF YtDlpSucceeds, Goto, Error
  <2>5. fault' = "none" /\ part' = {} /\ info' \in BOOLEAN /\ job' = job /\ result' = result
    BY <1>2 DEF YtDlpSucceeds, IInv, TypeOK
  <2>6. TypeOK'
    BY <2>1, <2>3, <2>4, <2>5 DEF IInv, TypeOK, Output
  <2>7. Counts' /\ Downloads'
    BY <2>1, <2>3, <2>4, <2>5 DEF Counts, Downloads
  <2>8. Said' /\ Returned'
    BY <2>4, <2>5 DEF Said, Returned
  <2> QED BY <2>6, <2>7, <2>8 DEF IInv
<1> QED BY <1>1, <1>2

\* A failed run of yt-dlp leads to another one, of which there are at most three.
LEMMA YtDlpFailsOK ==
    ASSUME IInv, NEW f \in Faults \ {"none"}, YtDlpFails(f)
    PROVE  IInv'
<1>1. runs \in 0..2 /\ runs' = runs + 1 /\ part = {}
  BY DEF YtDlpFails, IInv, TypeOK, Counts
<1>2. stage = "first" => runs = 0
  BY DEF IInv, Counts
<1>3. stage = "anonymous" => runs = 1
  BY DEF IInv, Counts
<1>4. \/ stage = "first" /\ stage' = "anonymous" /\ part' = {} /\ printed' = printed
      \/ stage # "other_format" /\ stage' = "other_format" /\ part' = {} /\ printed' = printed
      \/ stage' = "exit" /\ part' = {} /\ printed' = [body |-> "error", exit |-> 2]
  BY <1>1 DEF YtDlpFails, NextRun, WithCookies, Goto, Error
<1>5. /\ fault' = f /\ info' \in BOOLEAN
      /\ job' = job /\ audio' = audio /\ result' = result
  BY DEF YtDlpFails, IInv, TypeOK
<1>6. stage \in YtStages
  BY DEF YtDlpFails
<1>7. TypeOK'
  BY <1>1, <1>4, <1>5 DEF IInv, TypeOK, Output
<1>8. Counts' /\ Downloads'
  BY <1>1, <1>2, <1>3, <1>4, <1>5, <1>6 DEF IInv, Counts, Downloads
<1>9. Said' /\ Returned'
  BY <1>4, <1>5 DEF Said, Returned
<1> QED BY <1>7, <1>8, <1>9 DEF IInv

\* The end of the script and of its process.
LEMMA EndOK ==
    ASSUME IInv, Transcribe \/ Noise \/ Killed \/ Collect
    PROVE  IInv'
<1>1. CASE Transcribe
  BY <1>1 DEF Transcribe, Error, MuchTooShort, IInv, TypeOK, Counts, Downloads, Said, Returned, Output
<1>2. CASE Noise
  BY <1>2 DEF Noise, MuchTooShort, IInv, TypeOK, Counts, Downloads, Said, Returned, Output
<1>3. CASE Killed
  BY <1>3 DEF Killed, Goto, MuchTooShort, IInv, TypeOK, Counts, Downloads, Said, Returned, Output
<1>4. CASE Collect
  BY <1>4 DEF Collect, MuchTooShort, IInv, TypeOK, Counts, Downloads, Said, Returned, Output
<1> QED BY <1>1, <1>2, <1>3, <1>4

\* The invariant holds throughout every execution.
THEOREM Invariance == Spec => []IInv
<1>1. Init => IInv
  BY InitOK
<1>2. IInv /\ [Next]_vars => IInv'
  <2> SUFFICES ASSUME IInv, [Next]_vars PROVE IInv'
    OBVIOUS
  <2>1. CASE Next
    BY <2>1, SetupOK, AudioOK, YtDlpFailsOK, EndOK DEF Next, Script
  <2>2. CASE UNCHANGED vars
    BY <2>2 DEF vars, MuchTooShort, IInv, TypeOK, Counts, Downloads, Said, Returned
  <2> QED BY <2>1, <2>2
<1> QED BY <1>1, <1>2, PTL DEF Spec

\* Types, and no run of yt-dlp starts on the partial file of another format.
THEOREM TypeCorrect == Spec => []TypeOK
<1>1. IInv => TypeOK
  BY DEF IInv
<1> QED BY <1>1, Invariance, PTL

\* Exit code 0 stands for a transcript of all of the audio, whatever failed.
THEOREM WholeResult == Spec => []ResultIsWhole
<1>1. IInv => ResultIsWhole
  <2> SUFFICES ASSUME IInv, Ended, result.exit = 0 PROVE
        /\ result.body = "transcript"
        /\ job.source = "site" /\ info /\ audio.len > 0 => audio.len >= MinTenths
    BY DEF ResultIsWhole
  <2>1. result.body = "transcript" /\ ~MuchTooShort
    BY DEF IInv, Returned, Ended
  <2>2. audio.len \in Nat /\ MinTenths \in Nat
    BY RunnerAssumption DEF IInv, TypeOK
  <2> QED BY <2>1, <2>2 DEF MuchTooShort
<1> QED BY <1>1, Invariance, PTL

\* What is transcribed comes from one rendition only.
THEOREM SingleRendition == Spec => []OneRendition
<1>1. IInv => OneRendition
  <2> SUFFICES ASSUME IInv PROVE Cardinality(audio.from) <= 1
    BY DEF OneRendition
  <2>1. CASE audio.from = {}
    BY <2>1, FS_EmptySet
  <2>2. CASE audio.from = {"best"}
    BY <2>2, FS_Singleton
  <2>3. CASE audio.from = {"worst"}
    BY <2>3, FS_Singleton
  <2> QED BY <2>1, <2>2, <2>3 DEF IInv, Downloads
<1> QED BY <1>1, Invariance, PTL

\* Exit code 2 is reported for failed downloads, and for these only.
THEOREM FailuresTold == Spec => []DownloadFailuresTold
<1>1. IInv => DownloadFailuresTold
  BY DEF IInv, Returned, DownloadFailuresTold, Ended
<1> QED BY <1>1, Invariance, PTL

\* If three runs of yt-dlp fit the time limit of the execution, all its runs do.
THEOREM InTime ==
    ASSUME 3 * RunLimit < TimeLimit
    PROVE  Spec => []DownloadInTime
<1>1. IInv => DownloadInTime
  <2> SUFFICES ASSUME IInv PROVE runs * RunLimit < TimeLimit
    BY DEF DownloadInTime
  <2>1. runs = 0 \/ runs = 1 \/ runs = 2 \/ runs = 3
    BY DEF IInv, Counts
  <2> QED BY <2>1, RunnerAssumption
<1> QED BY <1>1, Invariance, PTL
=============================================================================
