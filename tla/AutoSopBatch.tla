----------------------------- MODULE AutoSopBatch -----------------------------
(***************************************************************************)
(* The auto-SOP follow-up of one finished scan: the top entries of its     *)
(* watchlist are analysed by a pool of threads, then rendered and stored   *)
(* one after another in one SQL session, and the stored reports are mailed *)
(* (app/backend/services/auto_sop_runner.py, _run_auto_sop_followup in     *)
(* scanner_service.py).                                                    *)
(*                                                                         *)
(* Every statement that reaches the database may fail.  A session with a   *)
(* failed statement refuses all others until a rollback, and a commit      *)
(* makes it read again the rows it had loaded.                             *)
(***************************************************************************)
EXTENDS Naturals, Sequences, FiniteSets, SequencesExt

CONSTANTS
    TopN,           \* auto_sop_top_n: watchlist entries at most
    Workers,        \* AUTO_SOP_MAX_WORKERS
    MaxSqlFaults,   \* statements that fail
    MaxDeletes      \* reports the owner deletes meanwhile

AutoSopAssumption ==
    /\ TopN \in Nat
    /\ Workers \in Nat \ {0}

VARIABLES
    step,       \* where the follow-up is
    entries,    \* how many entries the watchlist has
    at,         \* the entry, or the report, whose turn it is
    analysis,   \* rank -> how far its analysis is
    finished,   \* ranks in the order their analyses ended
    session,    \* "fresh", "aborted" (a read failed), "expired" (a commit has been
                \*   tried) or "broken" (a write failed)
    reports,    \* rank -> its row of research_reports
    ids,        \* report_ids
    bundle,     \* the reports of the bundled mail
    delivered,  \* the reports mailed to the report recipients
    fate,       \* rank -> what became of it
    trouble     \* statements failed and reports deleted so far

vars == <<step, entries, at, analysis, finished, session, reports, ids, bundle, delivered, fate, trouble>>

Ranks == 1..TopN
Steps == {"load", "analyze", "turn", "render", "store", "refresh", "final", "commit", "reread",
          "append", "reload", "dispatch", "mail", "end", "lost"}
Fates == {"pending", "not analysed", "not rendered", "not stored", "listed"}

\* No rank is listed twice, a listed report was stored, and nothing is mailed that is not
\* listed.
TypeOK ==
    /\ step \in Steps /\ entries \in 0..TopN /\ at \in 1..(TopN + 1)
    /\ analysis \in [Ranks -> {"none", "waiting", "running", "ready", "failed"}]
    /\ session \in {"fresh", "aborted", "expired", "broken"}
    /\ reports \in [Ranks -> {"none", "draft", "final", "deleted"}]
    /\ fate \in [Ranks -> Fates]
    /\ IsInjective(ids) /\ ToSet(delivered) \subseteq ToSet(bundle) \cup ToSet(ids)
    /\ ToSet(bundle) \subseteq ToSet(ids)
    /\ \A r \in ToSet(ids) : reports[r] # "none"

Init ==
    /\ step = "load" /\ entries = 0 /\ at = 1
    /\ analysis = [r \in Ranks |-> "none"]
    /\ finished = <<>>
    /\ session = "fresh"
    /\ reports = [r \in Ranks |-> "none"]
    /\ ids = <<>> /\ bundle = <<>> /\ delivered = <<>>
    /\ fate = [r \in Ranks |-> "pending"]
    /\ trouble = [sql |-> 0, deletes |-> 0]

-----------------------------------------------------------------------------
\* Phase 1: analyses in parallel, no database.

SqlFault ==
    /\ trouble.sql < MaxSqlFaults
    /\ trouble' = [trouble EXCEPT !.sql = @ + 1]

\* An exception that leaves run_auto_sop_for_scan, or the follow-up: the scan's thread logs it.
Lost ==
    /\ SqlFault
    /\ step' = "lost"

\* The entries by rank, at most top_n; without entries the follow-up is over.  The owner's
\* keys are read next: a failure is logged, and the transaction stays aborted.
Load ==
    /\ step = "load"
    /\ \/ \E n \in 0..TopN :
            /\ entries' = n
            /\ step' = IF n = 0 THEN "end" ELSE "analyze"
            /\ analysis' = [r \in Ranks |-> IF r <= n THEN "waiting" ELSE "none"]
            /\ \/ UNCHANGED <<session, trouble>>
               \/ n > 0 /\ SqlFault /\ session' = "aborted"
       \/ Lost /\ UNCHANGED <<entries, analysis, session>>
    /\ UNCHANGED <<at, finished, reports, ids, bundle, delivered, fate>>

With(state) == {r \in Ranks : analysis[r] = state}

\* A free worker takes the next entry submitted.
Take(r) ==
    /\ r \in With("waiting") /\ \A s \in With("waiting") : r <= s
    /\ Cardinality(With("running")) < Workers
    /\ analysis' = [analysis EXCEPT ![r] = "running"]
    /\ UNCHANGED <<step, entries, at, finished, session, reports, ids, bundle, delivered, fate, trouble>>

\* Mutant of Analyzed: run_sop's exception reaches fut.result().
AnalyzedUnguarded(r) ==
    /\ r \in With("running")
    /\ finished' = Append(finished, r)
    /\ \/ analysis' = [analysis EXCEPT ![r] = "ready"] /\ UNCHANGED <<step, fate>>
       \/ analysis' = [analysis EXCEPT ![r] = "failed"] /\ step' = "lost" /\ UNCHANGED fate

\* _analyze: run_sop in a try block of its own.
Analyzed(r) ==
    /\ r \in With("running")
    /\ finished' = Append(finished, r)
    /\ \/ analysis' = [analysis EXCEPT ![r] = "ready"] /\ UNCHANGED fate
       \/ analysis' = [analysis EXCEPT ![r] = "failed"] /\ fate' = [fate EXCEPT ![r] = "not analysed"]
    /\ UNCHANGED step

Analyze(r) ==
    /\ Analyzed(r)
    /\ UNCHANGED <<entries, at, session, reports, ids, bundle, delivered, trouble>>

\* as_completed is exhausted.
AllAnalyzed == With("waiting") \cup With("running") = {}

Gather ==
    /\ step = "analyze" /\ AllAnalyzed
    /\ step' = "turn"
    /\ UNCHANGED <<entries, at, analysis, finished, session, reports, ids, bundle, delivered, fate, trouble>>

-----------------------------------------------------------------------------
\* Phase 2: render and store on one thread.

\* Whose turn it is: analyzed[] is filled by rank.
Entry == at

Skip(r, why) ==
    /\ fate' = [fate EXCEPT ![r] = why]
    /\ step' = "turn" /\ at' = at + 1

\* entry.ticker is read outside any try block: after a commit it is a statement.
Turn ==
    /\ step = "turn" /\ at <= entries
    /\ \/ /\ analysis[Entry] = "failed"
          /\ at' = at + 1
          /\ UNCHANGED <<step, trouble>>
       \/ /\ analysis[Entry] = "ready" /\ session # "broken"
          /\ step' = "render"
          /\ UNCHANGED <<at, trouble>>
       \/ /\ analysis[Entry] = "ready" /\ session = "broken"
          /\ step' = "lost"
          /\ UNCHANGED <<at, trouble>>
       \/ /\ analysis[Entry] = "ready" /\ session = "expired"
          /\ Lost
          /\ UNCHANGED at
    /\ UNCHANGED <<entries, analysis, finished, session, reports, ids, bundle, delivered, fate>>

Render ==
    /\ step = "render"
    /\ \/ step' = "store" /\ UNCHANGED <<at, fate>>
       \/ Skip(Entry, "not rendered")
    /\ UNCHANGED <<entries, analysis, finished, session, reports, ids, bundle, delivered, trouble>>

\* create_analyze: insert and commit.
Store ==
    /\ step = "store"
    /\ \/ /\ session # "aborted"
          /\ reports' = [reports EXCEPT ![Entry] = "draft"]
          /\ session' = "expired" /\ step' = "refresh"
          /\ UNCHANGED <<at, fate, trouble>>
       \/ /\ SqlFault \/ (session = "aborted" /\ UNCHANGED trouble)
          /\ session' = "broken"
          /\ Skip(Entry, "not stored")
          /\ UNCHANGED reports
    /\ UNCHANGED <<entries, analysis, finished, ids, bundle, delivered>>

\* create_analyze reads the row back; the row is there even if that fails.
Refresh ==
    /\ step = "refresh"
    /\ \/ reports[Entry] = "draft" /\ step' = "final" /\ UNCHANGED <<at, session, fate, trouble>>
       \/ reports[Entry] = "deleted" /\ Skip(Entry, "not stored") /\ UNCHANGED <<session, trouble>>
       \/ /\ SqlFault
          /\ session' = "broken"
          /\ Skip(Entry, "not stored")
    /\ UNCHANGED <<entries, analysis, finished, reports, ids, bundle, delivered>>

\* The rendering with the id; its failure is logged and the report listed as it is.
FinalRender ==
    /\ step = "final"
    /\ step' \in {"commit", "append"}
    /\ UNCHANGED <<entries, at, analysis, finished, session, reports, ids, bundle, delivered, fate, trouble>>

\* The second commit.  Its failure is logged; a failed UPDATE also takes the row's
\* attributes, and the row.id that follows raises.  A row deleted meanwhile is such a failure.
FinalCommit ==
    /\ step = "commit"
    /\ \/ /\ reports[Entry] # "deleted"
          /\ reports' = [reports EXCEPT ![Entry] = "final"]
          /\ step' = "reread"
          /\ UNCHANGED <<session, trouble>>
       \/ /\ reports[Entry] = "deleted"
          /\ step' = "lost" /\ session' = "broken"
          /\ UNCHANGED <<reports, trouble>>
       \/ /\ SqlFault
          /\ session' = "broken" /\ step' \in {"append", "lost"}
          /\ UNCHANGED reports
    /\ UNCHANGED <<entries, at, analysis, finished, ids, bundle, delivered, fate>>

\* row.id after a commit is a statement, outside the try block.
Reread ==
    /\ step = "reread"
    /\ \/ reports[Entry] # "deleted" /\ step' = "append" /\ UNCHANGED trouble
       \/ reports[Entry] = "deleted" /\ step' = "lost" /\ UNCHANGED trouble
       \/ Lost
    /\ UNCHANGED <<entries, at, analysis, finished, session, reports, ids, bundle, delivered, fate>>

ListReport ==
    /\ step = "append"
    /\ ids' = Append(ids, Entry)
    /\ Skip(Entry, "listed")
    /\ UNCHANGED <<entries, analysis, finished, session, reports, bundle, delivered, trouble>>

-----------------------------------------------------------------------------
\* The mail, in sessions of their own.

Return ==
    /\ step = "turn" /\ at > entries
    /\ step' = IF ids = <<>> THEN "end" ELSE "reload"
    /\ at' = 1
    /\ UNCHANGED <<entries, analysis, finished, session, reports, ids, bundle, delivered, fate, trouble>>

\* Mutant of Kept: the list ends at the first row that is gone.
KeptToGap(r) == \A i \in 1..Len(ids) : ids[i] <= r => reports[ids[i]] # "deleted"

Kept(r) == reports[r] # "deleted"

\* The reports by id, in a new session, one query each; those deleted meanwhile are left out.
Reload ==
    /\ step = "reload"
    /\ \/ /\ at <= Len(ids)
          /\ bundle' = IF Kept(ids[at]) THEN Append(bundle, ids[at]) ELSE bundle
          /\ at' = at + 1
          /\ UNCHANGED <<step, trouble>>
       \/ /\ at > Len(ids)
          /\ step' = IF bundle = <<>> THEN "end" ELSE "dispatch"
          /\ UNCHANGED <<at, bundle, trouble>>
       \/ /\ at <= Len(ids)
          /\ Lost
          /\ UNCHANGED <<at, bundle>>
    /\ UNCHANGED <<entries, analysis, finished, session, reports, ids, delivered, fate>>

\* dispatch_bundled, whose failure is logged; then the recipients, if the config asks for it.
Dispatch ==
    /\ step = "dispatch"
    /\ \/ UNCHANGED trouble
       \/ SqlFault
    /\ at' = 1
    /\ step' \in {"mail", "end"}
    /\ UNCHANGED <<entries, analysis, finished, session, reports, ids, bundle, delivered, fate>>

\* email_report_html for one report; an address that fails is counted, a statement that
\* fails ends the loop.
Mail ==
    /\ step = "mail"
    /\ \/ /\ at <= Len(bundle)
          /\ delivered' = Append(delivered, bundle[at])
          /\ at' = at + 1
          /\ UNCHANGED <<step, trouble>>
       \/ /\ at > Len(bundle)
          /\ step' = "end"
          /\ UNCHANGED <<at, delivered, trouble>>
       \/ /\ at <= Len(bundle)
          /\ SqlFault
          /\ step' = "end"
          /\ UNCHANGED <<at, delivered>>
    /\ UNCHANGED <<entries, analysis, finished, session, reports, ids, bundle, fate>>

\* The owner deletes a report, in a request of its own.
DeleteReport(r) ==
    /\ reports[r] \in {"draft", "final"} /\ trouble.deletes < MaxDeletes
    /\ reports' = [reports EXCEPT ![r] = "deleted"]
    /\ trouble' = [trouble EXCEPT !.deletes = @ + 1]
    /\ UNCHANGED <<step, entries, at, analysis, finished, session, ids, bundle, delivered, fate>>

Worker == \E r \in Ranks : Take(r) \/ Analyze(r)
FollowUp ==
    \/ Load \/ Gather \/ Turn \/ Render \/ Store \/ Refresh \/ FinalRender \/ FinalCommit
    \/ Reread \/ ListReport \/ Return \/ Reload \/ Dispatch \/ Mail
Next == Worker \/ FollowUp \/ \E r \in Ranks : DeleteReport(r)

Spec == Init /\ [][Next]_vars
\* run_sop's requests and all statements have time-outs; pool and loop are plain threads.
FairSpec == Spec /\ WF_vars(Worker) /\ WF_vars(FollowUp)

-----------------------------------------------------------------------------
Over == step \in {"end", "lost"}
Precedes(s) == \A i, j \in 1..Len(s) : i < j => s[i] < s[j]

\* Reports are listed and mailed in the order of the ranks, whatever the order in which
\* their analyses finished (auto_sop_runner.py:55-57).
RankOrderKept == Precedes(ids) /\ Precedes(bundle) /\ Precedes(delivered)

\* No analysis is running while the session is in use: a Session is single-thread-only
\* (auto_sop_runner.py:122-123).
SessionHasOneThread == step \notin {"load", "analyze"} => With("running") = {}

\* A failed analysis or rendering costs its own report only: while the database serves all
\* statements and keeps all rows, every other entry is listed when the follow-up is over.
OwnFailuresOnly ==
    Over /\ trouble = [sql |-> 0, deletes |-> 0] =>
        \A r \in 1..entries :
            /\ fate[r] = "listed" <=> analysis[r] = "ready" /\ fate[r] # "not rendered"
            /\ fate[r] = "listed" => r \in ToSet(bundle)

\* A report that its owner deletes while the follow-up works, at whatever moment, costs no other report its
\* place: once the reports have been read again every listed one that is still stored is in the bundle, and
\* the recipients get the whole bundle, in one mail each, or were not to get any; only a failed statement
\* stops their mails half way (scanner_service.py:702-768).
SurvivorsAreMailed ==
    /\ step \in {"dispatch", "mail", "end"} =>
        \A r \in ToSet(ids) : r \in ToSet(bundle) \/ reports[r] = "deleted"
    /\ step = "end" /\ trouble.sql = 0 => delivered \in {<<>>, bundle}

\* The follow-up comes to an end, whatever fails.
FollowUpEnds == <>Over

\* "one ticker raising won't abort the loop -- subsequent tickers still run"
\* (auto_sop_runner.py:11-13): every entry has had its turn when the loop is left.
FailuresAreIsolated == Over => \A r \in 1..entries : fate[r] # "pending"
=============================================================================
