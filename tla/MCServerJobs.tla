---------------------------- MODULE MCServerJobs ----------------------------
\* A small instance of one of the server's jobs: the snapshot refresh (SnapshotRefresh), the
\* follow-up of a scan (AutoSopBatch), a scan's pool of threads (ScanPool) or the downloads
\* of language models (OllamaDownloads).
EXTENDS SnapshotRefresh

CONSTANTS
    TopN, Workers, MaxSqlFaults, MaxDeletes,
    Universe, MaxWorkers, Detectors, Findings, Scores, BestN, ProgressEvery, MaxFailures, A, B, C,
    Downloads, Models, Layers, MaxCancels, None

VARIABLES
    which,
    step, entries, at, analysis, finished, session, reports, ids, bundle, delivered, fate, trouble,
    stage, clients, queue, tasks, collected, counts, told, top, failures,
    progress, downloads, installed, cancels, cut

sopVars == <<step, entries, at, analysis, finished, session, reports, ids, bundle, delivered, fate, trouble>>
poolVars == <<stage, clients, queue, tasks, collected, counts, told, top, failures>>
ollamaVars == <<progress, downloads, installed, cancels, cut>>

TwoMarkets == <<"US", "CN">>
ThreeTickers == <<A, B, C>>
MixedFindings == {<<"triggered", 1>>, <<"no_data", 0>>, <<"error", 1>>}

Sop == INSTANCE AutoSopBatch
Pool == INSTANCE ScanPool WITH TopN <- BestN
Ollama == INSTANCE OllamaDownloads

ASSUME ServerJobsAssumption == Sop!AutoSopAssumption /\ Pool!ScanPoolAssumption /\ Ollama!OllamaAssumption

JobInit ==
    /\ which \in {"refresh", "sop", "pool", "download"}
    /\ Init /\ Sop!Init /\ Pool!Init /\ Ollama!Init
JobNext ==
    \/ which = "refresh" /\ Next /\ UNCHANGED <<which, sopVars, poolVars, ollamaVars>>
    \/ which = "sop" /\ Sop!Next /\ UNCHANGED <<which, vars, poolVars, ollamaVars>>
    \/ which = "pool" /\ Pool!Next /\ UNCHANGED <<which, vars, sopVars, ollamaVars>>
    \/ which = "download" /\ Ollama!Next /\ UNCHANGED <<which, vars, sopVars, poolVars>>

\* The fairness of the four: FairSpec of each module.
JobSpec ==
    /\ JobInit /\ [][JobNext]_<<which, vars, sopVars, poolVars, ollamaVars>>
    /\ \A t \in Refreshes : WF_vars(which = "refresh" /\ RefreshStep(t))
    /\ WF_sopVars(which = "sop" /\ Sop!Worker) /\ WF_sopVars(which = "sop" /\ Sop!FollowUp)
    /\ WF_poolVars(which = "pool" /\ Pool!Caller) /\ WF_poolVars(which = "pool" /\ Pool!Thread)
    /\ \A d \in Downloads :
        /\ WF_ollamaVars(which = "download" /\ (Ollama!Start(d) \/ Ollama!NoServer(d)))
        /\ WF_ollamaVars(which = "download" /\ (Ollama!LayerComplete(d) \/ Ollama!Success(d) \/ Ollama!Fail(d)))
        /\ WF_ollamaVars(which = "download" /\ Ollama!CleanUp(d))

\* A follow-up files every report under its rank, stores nothing while an analysis runs, and
\* loses no entry to another one's failure.
FollowUpIsSound == Sop!TypeOK /\ Sop!RankOrderKept /\ Sop!SessionHasOneThread /\ Sop!OwnFailuresOnly

\* A report that is deleted while the follow-up works costs no other report its place in the mails.
SurvivorsAreMailed == Sop!SurvivorsAreMailed

\* A scan's threads share clients, counts and outcomes, and lose or mix none of them.
ScanIsWhole ==
    Pool!TypeOK /\ Pool!EvidenceIsOwn /\ Pool!BestAreReturned /\ Pool!ScoredWasEvaluated
        /\ Pool!ProgressEndsFull /\ Pool!ClientsAreClosed

\* Every job comes to its end, whatever fails: the button is released, the thread of a
\* follow-up and the caller of a scan go on, the entry of a download goes unless its request
\* was cut off.
JobsEnd ==
    /\ RefreshEnds
    /\ which = "sop" => Sop!FollowUpEnds
    /\ which = "pool" => Pool!ScanEnds
    /\ Ollama!EntriesGo
=============================================================================
