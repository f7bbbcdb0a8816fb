------------------------------- MODULE ScanRuns -------------------------------
(***************************************************************************)
(* The life of scan runs: who may start one, the steps its thread takes    *)
(* between the SQL database, the MongoDB scan history, the progress stream *)
(* and the mail follow-ups, and what a crash, a restart or a failed write  *)
(* leaves behind (app/backend/services/scanner_service.py with the         *)
(* repository, the cron job body and the startup and shutdown hooks).      *)
(*                                                                         *)
(* Every database transaction is one action.  `rows' is durable, `threads' *)
(* and `callers' live in the process; a killed thread keeps its local      *)
(* values so that properties can speak of what its scan had found.         *)
(***************************************************************************)
EXTENDS Naturals

CONSTANTS
    Configs,        \* scanner configs; each has one cron job
    Requests,       \* concurrent manual "run now" requests
    MailPlans,      \* mail flags a config may carry
    ScanOutcomes,   \* what a scan may evaluate and whether it may score a ticker
    MaxRuns,        \* scan_runs rows the model may insert
    MaxSlot,        \* minutes of the wall clock
    MaxStops,       \* times the server process is killed or shut down ...
    MaxDrains,      \* ... and graceful shutdowns, which leave scans finishing, among them
    MaxSqlFaults,   \* SQL transactions that fail
    MaxMongoFaults  \* MongoDB operations that fail

ASSUME ScanRunsAssumption ==
    /\ Configs \cap Requests = {} /\ "sql-scan" \notin Configs
    /\ MaxDrains \in Nat
    /\ (Configs \cup Requests) \cap (Configs \X (1..MaxDrains)) = {}
    /\ MailPlans \subseteq SUBSET {"email_watchlist", "auto_sop", "email_reports"}
    /\ ScanOutcomes \subseteq ({"all", "some", "none"} \X BOOLEAN) \ {<<"none", TRUE>>}
    /\ MaxRuns \in Nat
    /\ MaxSlot \in Nat \ {0}

VARIABLES
    rows,     \* scan_runs and watchlist_entries: survives everything
    threads,  \* the _run_to_completion call working on each run
    callers,  \* cron jobs and requests on their way through _begin
    nextRun,  \* the next row id
    batches,  \* MongoDB scan_runs, by execution_key
    events,   \* what each run's subscribers could have been told
    sent,     \* mail follow-ups of each run
    env       \* is the server up, what its start-up still has to mark, the minute, failures

vars == <<rows, threads, callers, nextRun, batches, events, sent, env>>

Runs == 1..MaxRuns
NoRun == 0
Manual == 0                       \* the slot of a run without execution_key
Leftovers == Configs \X (1..MaxDrains)   \* the cron call a shut-down process still works on
CronCallers == Configs \cup Leftovers
Callers == CronCallers \cup Requests
CronKeys == Configs \X (1..MaxSlot)
Keys == CronKeys \cup ({"sql-scan"} \X Runs)

Terminal == {"COMPLETE", "ERROR"}
Published == {"succeeded", "partial"}
Body == {"scan", "save", "saving", "persist", "complete"}
Followup == {"email", "sop", "done"}
Ended == {"none", "done", "failed", "killed"}
Phases == Body \cup Followup \cup Ended \cup {"load", "warn", "announce", "fail", "abort"}
Flags == {"email_watchlist", "auto_sop", "email_reports"}

Row == [status : {"absent", "PENDING", "RUNNING"} \cup Terminal,
        config : Configs \cup {NoRun}, entries : BOOLEAN,
        note : {"", "warning", "error", "interrupted"}]
Thread == [phase : Phases, slot : 0..MaxSlot, deliver : BOOLEAN, wants : SUBSET Flags,
           evaluated : {"unknown", "all", "some", "none"}, scored : BOOLEAN,
           saved : {"unknown", "yes", "no"}]
Caller == [pc : {"idle", "lookup", "check", "insert", "busy"}, config : Configs \cup {NoRun},
           slot : 0..MaxSlot, deliver : BOOLEAN, run : 0..MaxRuns]
Batch == [status : Published \cup {"absent", "running", "failed"}, run : 0..MaxRuns]
Effects == {"recipient mail", "bundle"}
Server == [up : BOOLEAN, stale : SUBSET Runs, slot : 1..MaxSlot, crashes : Nat, drains : Nat,
           sql : Nat, mongo : Nat]

\* Every variable keeps the shape of the table, call or document it stands for.
TypeOK ==
    /\ rows \in [Runs -> Row]
    /\ threads \in [Runs -> Thread]
    /\ callers \in [Callers -> Caller]
    /\ nextRun \in 1..(MaxRuns + 1)
    /\ batches \in [Keys -> Batch]
    /\ events \in [Runs -> SUBSET {"start", "complete", "error", "close"}]
    /\ sent \in [Runs -> SUBSET Effects]
    /\ env \in Server

Idle == [pc |-> "idle", config |-> NoRun, slot |-> Manual, deliver |-> FALSE, run |-> NoRun]
NoThread == [phase |-> "none", slot |-> Manual, deliver |-> FALSE, wants |-> {},
             evaluated |-> "unknown", scored |-> FALSE, saved |-> "unknown"]

Init ==
    /\ rows = [r \in Runs |-> [status |-> "absent", config |-> NoRun,
                               entries |-> FALSE, note |-> ""]]
    /\ threads = [r \in Runs |-> NoThread]
    /\ callers = [a \in Callers |-> Idle]
    /\ nextRun = 1
    /\ batches = [k \in Keys |-> [status |-> "absent", run |-> NoRun]]
    /\ events = [r \in Runs |-> {}]
    /\ sent = [r \in Runs |-> {}]
    /\ env = [up |-> TRUE, stale |-> {}, slot |-> 1, crashes |-> 0, drains |-> 0, sql |-> 0,
              mongo |-> 0]

-----------------------------------------------------------------------------
\* Starting a run.

SqlFault ==
    /\ env.sql < MaxSqlFaults
    /\ env' = [env EXCEPT !.sql = @ + 1]

MongoFault ==
    /\ env.mongo < MaxMongoFaults
    /\ env' = [env EXCEPT !.mongo = @ + 1]

\* MongoStore.execute holds one process-wide lock for a whole operation; a process that
\* was shut down has a lock of its own.
StoreFree == env.drains = 0 => \A r \in Runs : threads[r].phase # "saving"

\* SchedulerService._run_job: the cron trigger calls execute() with the key of the
\* current minute.  max_instances=1 allows one such call per config; when a trigger
\* matches is left open.
Fire(c) ==
    /\ env.up
    /\ callers[c].pc = "idle"
    /\ callers' = [callers EXCEPT ![c] = [pc |-> "lookup", config |-> c, slot |-> env.slot,
                                          deliver |-> TRUE, run |-> NoRun]]
    /\ UNCHANGED <<rows, threads, nextRun, batches, events, sent, env>>

\* Mutant of Lookup: only a fully evaluated batch counts as done.
LookupSucceededOnly(a) ==
    /\ callers[a].pc = "lookup"
    /\ StoreFree
    /\ callers' = IF batches[<<callers[a].config, callers[a].slot>>].status = "succeeded"
                  THEN [callers EXCEPT ![a] = Idle]
                  ELSE [callers EXCEPT ![a].pc = "check"]
    /\ UNCHANGED <<rows, threads, nextRun, batches, events, sent, env>>

\* execute(): a published batch under the same execution key answers the call with
\* the run it belongs to; a store that fails answers None, and the scan goes on.
Lookup(a) ==
    /\ callers[a].pc = "lookup"
    /\ StoreFree
    /\ \/ /\ batches[<<callers[a].config, callers[a].slot>>].status \in Published
          /\ callers' = [callers EXCEPT ![a] = Idle]
          /\ UNCHANGED env
       \/ /\ batches[<<callers[a].config, callers[a].slot>>].status \notin Published
          /\ callers' = [callers EXCEPT ![a].pc = "check"]
          /\ UNCHANGED env
       \/ /\ MongoFault
          /\ callers' = [callers EXCEPT ![a].pc = "check"]
    /\ UNCHANGED <<rows, threads, nextRun, batches, events, sent>>

\* POST /configs/{id}/run: execute_async() with delivery opted in or not.
Request(m, c, deliver) ==
    /\ env.up
    /\ callers[m].pc = "idle"
    /\ callers' = [callers EXCEPT ![m] = [pc |-> "check", config |-> c, slot |-> Manual,
                                          deliver |-> deliver, run |-> NoRun]]
    /\ UNCHANGED <<rows, threads, nextRun, batches, events, sent, env>>

\* _begin(), first half: refuse when some row of the config is RUNNING.
Check(a) ==
    /\ callers[a].pc = "check"
    /\ callers' =
         IF \E r \in Runs : rows[r].status = "RUNNING" /\ rows[r].config = callers[a].config
         THEN [callers EXCEPT ![a] = Idle]
         ELSE [callers EXCEPT ![a].pc = "insert"]
    /\ UNCHANGED <<rows, threads, nextRun, batches, events, sent, env>>

\* A cron job runs the scan on its own thread; a request returns the run id and
\* leaves a daemon thread behind.
AfterInsert(a) ==
    IF a \in Requests THEN Idle ELSE [callers[a] EXCEPT !.pc = "busy", !.run = nextRun]

\* _begin(), second half: create_pending commits the row; the payload freezes the
\* config's mail flags.
Insert(a, wants) ==
    /\ callers[a].pc = "insert"
    /\ nextRun <= MaxRuns
    /\ rows' = [rows EXCEPT ![nextRun].status = "PENDING",
                            ![nextRun].config = callers[a].config]
    /\ threads' = [threads EXCEPT ![nextRun].phase = "load",
                                  ![nextRun].slot = callers[a].slot,
                                  ![nextRun].deliver = callers[a].deliver,
                                  ![nextRun].wants = wants]
    /\ callers' = [callers EXCEPT ![a] = AfterInsert(a)]
    /\ nextRun' = nextRun + 1
    /\ UNCHANGED <<batches, events, sent, env>>

\* A config or watchlist that is gone, or a query or insert that fails: no row.  When
\* only the refresh after the insert's commit fails, the row stays behind without a scan.
InsertFails(a) ==
    /\ callers[a].pc \in {"check", "insert"}
    /\ callers' = [callers EXCEPT ![a] = Idle]
    /\ \/ /\ UNCHANGED env \/ SqlFault
          /\ UNCHANGED <<rows, nextRun>>
       \/ /\ callers[a].pc = "insert"
          /\ nextRun <= MaxRuns
          /\ SqlFault
          /\ rows' = [rows EXCEPT ![nextRun].status = "PENDING",
                                  ![nextRun].config = callers[a].config]
          /\ nextRun' = nextRun + 1
    /\ UNCHANGED <<threads, batches, events, sent>>

\* The cron call returns (or its exception is logged) when its thread ends.
CronReturns(a) ==
    /\ callers[a].pc = "busy"
    /\ threads[callers[a].run].phase \in Ended
    /\ callers' = [callers EXCEPT ![a] = Idle]
    /\ UNCHANGED <<rows, threads, nextRun, batches, events, sent, env>>

-----------------------------------------------------------------------------
\* _run_to_completion, one action per transaction.

Key(r) ==
    IF threads[r].slot = Manual THEN <<"sql-scan", r>> ELSE <<rows[r].config, threads[r].slot>>

Goto(r, phase) == threads' = [threads EXCEPT ![r].phase = phase]

\* load_universe, mark_running, the start event.
Start(r) ==
    /\ threads[r].phase = "load"
    /\ rows' = [rows EXCEPT ![r].status = "RUNNING"]
    /\ events' = [events EXCEPT ![r] = @ \cup {"start"}]
    /\ Goto(r, "scan")
    /\ UNCHANGED <<callers, nextRun, batches, sent, env>>

\* run_scan: every ticker gets an outcome; what was evaluated and whether any
\* ticker triggered.
Scan(r, evaluated, scored) ==
    /\ threads[r].phase = "scan"
    /\ <<evaluated, scored>> \in ScanOutcomes
    /\ threads' = [threads EXCEPT ![r].phase = "save", ![r].evaluated = evaluated,
                                  ![r].scored = scored]
    /\ UNCHANGED <<rows, callers, nextRun, batches, events, sent, env>>

\* Mutant of AfterSave: the empty scan is not treated as an error.
AfterSaveAlwaysPersist(r) == "persist"

\* After the history is saved a scan that evaluated nothing is an error.
AfterSave(r) == IF threads[r].evaluated = "none" THEN "fail" ELSE "persist"

Saved(r, status) ==
    threads' = [threads EXCEPT ![r].saved = IF status \in Published THEN "yes" ELSE "no",
                               ![r].phase = AfterSave(r)]

\* ScanHistory.save up to insert_one: a batch already under the key is reused as it
\* stands; a store that is not there persists nothing.
SaveBegin(r) ==
    /\ threads[r].phase = "save"
    /\ StoreFree
    /\ \/ /\ batches[Key(r)].status = "absent"
          /\ batches' = [batches EXCEPT ![Key(r)] = [status |-> "running", run |-> r]]
          /\ Goto(r, "saving")
          /\ UNCHANGED env
       \/ /\ batches[Key(r)].status # "absent"
          /\ Saved(r, batches[Key(r)].status)
          /\ UNCHANGED <<batches, env>>
       \/ /\ MongoFault
          /\ Saved(r, "unavailable")
          /\ UNCHANGED batches
    /\ UNCHANGED <<rows, callers, nextRun, events, sent>>

\* The rest of ScanHistory.save: every result is in and the batch is published, or a
\* driver error marks it failed (or fails to) and the store answers None.
SaveEnd(r) ==
    /\ threads[r].phase = "saving"
    /\ \/ \E status \in Published :
            /\ status = "succeeded" => threads[r].evaluated = "all"
            /\ batches' = [batches EXCEPT ![Key(r)].status = status]
            /\ Saved(r, status)
            /\ UNCHANGED env
       \/ \E status \in {"failed", "running"} :
            /\ MongoFault
            /\ batches' = [batches EXCEPT ![Key(r)].status = status]
            /\ Saved(r, "unavailable")
    /\ UNCHANGED <<rows, callers, nextRun, events, sent>>

\* _persist_results: all watchlist entries in one commit, none when nothing scored.
Persist(r) ==
    /\ threads[r].phase = "persist"
    /\ rows' = [rows EXCEPT ![r].entries = threads[r].scored]
    /\ Goto(r, "complete")
    /\ UNCHANGED <<callers, nextRun, batches, events, sent, env>>

\* _mark_complete
Complete(r) ==
    /\ threads[r].phase = "complete"
    /\ rows' = [rows EXCEPT ![r].status = "COMPLETE"]
    /\ Goto(r, "warn")
    /\ UNCHANGED <<callers, nextRun, batches, events, sent, env>>

\* A partial scan, or one whose history was not saved, says so on the row.
Deserves(r) == threads[r].evaluated = "some" \/ threads[r].saved = "no"

\* Mutant of Warn: an unsaved history goes unmentioned.
WarnPartialOnly(r) ==
    /\ threads[r].phase = "warn"
    /\ rows' = IF threads[r].evaluated = "some" THEN [rows EXCEPT ![r].note = "warning"] ELSE rows
    /\ Goto(r, "announce")
    /\ UNCHANGED <<callers, nextRun, batches, events, sent, env>>

Warn(r) ==
    /\ threads[r].phase = "warn"
    /\ rows' = IF Deserves(r) THEN [rows EXCEPT ![r].note = "warning"] ELSE rows
    /\ Goto(r, "announce")
    /\ UNCHANGED <<callers, nextRun, batches, events, sent, env>>

\* The complete event, then the finally clause closes the stream.
Announce(r) ==
    /\ threads[r].phase = "announce"
    /\ events' = [events EXCEPT ![r] = @ \cup {"complete", "close"}]
    /\ Goto(r, "email")
    /\ UNCHANGED <<rows, callers, nextRun, batches, sent, env>>

-----------------------------------------------------------------------------
\* Failure inside the try block.

\* Mutant of Raises: the watchlist mail moved inside the try block.
RaisesInMail(r) ==
    /\ threads[r].phase \in {"load", "scan", "persist", "complete", "warn", "email"}
    /\ Goto(r, "fail")
    /\ UNCHANGED <<rows, callers, nextRun, batches, events, sent, env>>

\* Mutant of Raises: load_universe moved outside the try block.
RaisesOutsideTry(r) ==
    /\ threads[r].phase = "load"
    /\ Goto(r, "failed")
    /\ UNCHANGED <<rows, callers, nextRun, batches, events, sent, env>>

\* A step that raises before its transaction commits; for a SQL step the commit is
\* what fails.  A ValueError out of the history (duplicate outcomes, a number that is
\* not finite) is not swallowed, and a batch that was begun is marked failed first.
Raises(r) ==
    /\ \/ /\ threads[r].phase \in {"load", "scan", "save"}
          /\ threads[r].phase = "save" => StoreFree
          /\ UNCHANGED <<batches, env>>
       \/ /\ threads[r].phase = "saving"
          /\ batches' = [batches EXCEPT ![Key(r)].status = "failed"]
          /\ UNCHANGED env
       \/ /\ threads[r].phase \in {"load", "scan", "persist", "complete"}
          /\ SqlFault
          /\ UNCHANGED batches
       \/ /\ threads[r].phase = "warn"
          /\ Deserves(r)
          /\ SqlFault
          /\ UNCHANGED batches
    /\ Goto(r, "fail")
    /\ UNCHANGED <<rows, callers, nextRun, events, sent>>

\* mark_running and mark_complete read the row again after their commit: when that read
\* fails the step raises although its write is there.
RefreshFails(r) ==
    /\ SqlFault
    /\ \/ /\ threads[r].phase = "load"
          /\ rows' = [rows EXCEPT ![r].status = "RUNNING"]
       \/ /\ threads[r].phase = "complete"
          /\ rows' = [rows EXCEPT ![r].status = "COMPLETE"]
    /\ Goto(r, "fail")
    /\ UNCHANGED <<callers, nextRun, batches, events, sent>>

\* _mark_error, which swallows its own failure, before its commit or after it.
MarkError(r) ==
    /\ threads[r].phase = "fail"
    /\ \/ /\ rows' = [rows EXCEPT ![r].status = "ERROR", ![r].note = "error"]
          /\ UNCHANGED env \/ SqlFault
       \/ /\ SqlFault
          /\ UNCHANGED rows
    /\ Goto(r, "abort")
    /\ UNCHANGED <<callers, nextRun, batches, events, sent>>

\* The error event, the stream closed, the exception re-raised: no follow-up.
Abort(r) ==
    /\ threads[r].phase = "abort"
    /\ events' = [events EXCEPT ![r] = @ \cup {"error", "close"}]
    /\ Goto(r, "failed")
    /\ UNCHANGED <<rows, callers, nextRun, batches, sent, env>>

-----------------------------------------------------------------------------
\* The follow-ups, each in a try block of its own.

\* email_watchlist to the owner's verified recipients; a failure is logged.
EmailWatchlist(r) ==
    /\ threads[r].phase = "email"
    /\ \/ /\ threads[r].deliver
          /\ "email_watchlist" \in threads[r].wants
          /\ sent' = [sent EXCEPT ![r] = @ \cup {"recipient mail"}]
       \/ UNCHANGED sent
    /\ Goto(r, "sop")
    /\ UNCHANGED <<rows, callers, nextRun, batches, events, env>>

\* Mutant of AutoSop: its failure reaches the except clause of the scan.
AutoSopInsideTry(r) ==
    /\ threads[r].phase = "sop"
    /\ Goto(r, "done") \/ Goto(r, "fail")
    /\ UNCHANGED <<rows, callers, nextRun, batches, events, sent, env>>

\* _run_auto_sop_followup: reports for the top tickers, bundled to the notification
\* channel; only the mail to the report recipients asks for `deliver'.
AutoSop(r) ==
    /\ threads[r].phase = "sop"
    /\ \/ /\ "auto_sop" \in threads[r].wants
          /\ sent' = [sent EXCEPT ![r] = @ \cup
               IF threads[r].deliver /\ "email_reports" \in threads[r].wants
               THEN {"bundle", "recipient mail"} ELSE {"bundle"}]
       \/ UNCHANGED sent
    /\ Goto(r, "done")
    /\ UNCHANGED <<rows, callers, nextRun, batches, events, env>>

ThreadStep(r) ==
    \/ Start(r) \/ SaveBegin(r) \/ SaveEnd(r) \/ Persist(r) \/ Complete(r) \/ Warn(r)
    \/ \E evaluated \in {"all", "some", "none"}, scored \in BOOLEAN : Scan(r, evaluated, scored)
    \/ Announce(r) \/ MarkError(r) \/ Abort(r) \/ EmailWatchlist(r) \/ AutoSop(r)

-----------------------------------------------------------------------------
\* The process.

Killed(R) ==
    [r \in Runs |-> IF r \in R /\ threads[r].phase \notin Ended
                    THEN [threads[r] EXCEPT !.phase = "killed"] ELSE threads[r]]

\* A kill: every call in the process is gone (and in one that is still draining), also
\* in the middle of a start-up; MongoDB and SQL keep what they have.
Crash ==
    /\ env.crashes + env.drains < MaxStops
    /\ env' = [env EXCEPT !.up = FALSE, !.stale = {}, !.crashes = @ + 1]
    /\ threads' = Killed(Runs)
    /\ callers' = [a \in Callers |-> Idle]
    /\ UNCHANGED <<rows, nextRun, batches, events, sent>>

\* The shutdown hook, scheduler.shutdown(wait=False), after the last request is
\* answered: no call is accepted any more, cron calls go on wherever they are.  Manual
\* scans run on daemon threads, which end with the process or go on while it lasts.
Drain ==
    /\ env.up
    /\ env.crashes + env.drains < MaxStops
    /\ env.drains < MaxDrains
    /\ \A m \in Requests : callers[m].pc = "idle"
    /\ env' = [env EXCEPT !.up = FALSE, !.drains = @ + 1]
    /\ threads' = threads \/ threads' = Killed({r \in Runs : threads[r].slot = Manual})
    /\ callers' = [a \in Callers |-> CASE a \in Configs -> Idle
                                      [] a \in Configs \X {env.drains + 1} -> callers[a[1]]
                                      [] OTHER -> callers[a]]
    /\ UNCHANGED <<rows, nextRun, batches, events, sent>>

\* Mutant of ListRunning: the clean-up is left out.
ListNothing ==
    /\ ~env.up
    /\ env.stale = {}
    /\ env' = [env EXCEPT !.up = TRUE]
    /\ UNCHANGED <<rows, threads, callers, nextRun, batches, events, sent>>

\* The startup hook reads the RUNNING rows once; without any, or when the clean-up
\* fails (which is logged), it starts the scheduler.
ListRunning ==
    /\ ~env.up
    /\ env.stale = {}
    /\ LET running == {r \in Runs : rows[r].status = "RUNNING"}
       IN  \/ env' = [env EXCEPT !.stale = running, !.up = (running = {})]
           \/ /\ env.sql < MaxSqlFaults
              /\ env' = [env EXCEPT !.up = TRUE, !.sql = @ + 1]
    /\ UNCHANGED <<rows, threads, callers, nextRun, batches, events, sent>>

\* Mutant of Interrupted: a status of its own for interrupted runs.
InterruptedAnew(r) == [rows[r] EXCEPT !.status = "INTERRUPTED", !.note = "interrupted"]

Interrupted(r) == [rows[r] EXCEPT !.status = "ERROR", !.note = "interrupted"]

\* ... and marks the listed rows one commit at a time, whatever became of them since;
\* the first failure, before its commit or after it, ends the clean-up.
MarkInterrupted(r) ==
    /\ r \in env.stale
    /\ \/ /\ rows' = [rows EXCEPT ![r] = Interrupted(r)]
          /\ env' = [env EXCEPT !.stale = @ \ {r}, !.up = (env.stale = {r})]
       \/ /\ rows' = [rows EXCEPT ![r] = Interrupted(r)] \/ UNCHANGED rows
          /\ env.sql < MaxSqlFaults
          /\ env' = [env EXCEPT !.stale = {}, !.up = TRUE, !.sql = @ + 1]
    /\ UNCHANGED <<threads, callers, nextRun, batches, events, sent>>

Restart == ListRunning \/ \E r \in Runs : MarkInterrupted(r)

Tick ==
    /\ env.slot < MaxSlot
    /\ env' = [env EXCEPT !.slot = @ + 1]
    /\ UNCHANGED <<rows, threads, callers, nextRun, batches, events, sent>>

CallerStep ==
    \/ \E c \in Configs : Fire(c)
    \/ \E a \in CronCallers : Lookup(a) \/ CronReturns(a)
    \/ \E m \in Requests, c \in Configs, deliver \in BOOLEAN : Request(m, c, deliver)
    \/ \E a \in Callers : Check(a) \/ InsertFails(a)
    \/ \E a \in Callers, wants \in MailPlans : Insert(a, wants)

Next ==
    \/ CallerStep
    \/ \E r \in Runs : ThreadStep(r) \/ Raises(r) \/ RefreshFails(r)
    \/ Crash \/ Drain \/ Restart \/ Tick

Spec == Init /\ [][Next]_vars

\* A live thread is scheduled again, and a server that is down is started again.
Fairness ==
    /\ \A r \in Runs : WF_vars(ThreadStep(r))
    /\ WF_vars(Restart)

FairSpec == Spec /\ Fairness

-----------------------------------------------------------------------------
\* Properties.

\* A start-up that listed a run while it was RUNNING, in a process that was being shut
\* down gracefully, has marked it interrupted after it completed: the one way the row of
\* a completed run may say ERROR (the run's own error leaves another message).
Overtaken(r) == env.drains > 0 /\ rows[r].status = "ERROR" /\ rows[r].note # "error"

\* A COMPLETE run really scanned: something was evaluated, and its watchlist entries
\* are exactly what the scan scored (persistence commits before mark_complete).
CompleteHasResults ==
    \A r \in Runs : rows[r].status = "COMPLETE" =>
        /\ threads[r].evaluated \in {"all", "some"}
        /\ rows[r].entries = threads[r].scored

\* As long as no SQL write failed, a RUNNING row has a thread working on it, or the
\* process is down and the start-up clean-up is still to come.  A RUNNING row nobody
\* works on would refuse every later scan of its config.
RunningHasThread ==
    env.up /\ env.sql = 0 =>
        \A r \in Runs : rows[r].status = "RUNNING" => threads[r].phase \in Body \cup {"fail"}

\* What a subscriber is told is what the database says: a complete event belongs to a
\* COMPLETE run unless a start-up overtook it, an error event to an ERROR run unless a
\* SQL write failed, and the stream never carries both.
AnnouncementsAreTrue ==
    \A r \in Runs :
        /\ "complete" \in events[r] => /\ rows[r].status = "COMPLETE" \/ Overtaken(r)
                                       /\ "error" \notin events[r]
        /\ "error" \in events[r] /\ env.sql = 0 => rows[r].status = "ERROR"
        /\ "close" \in events[r] => {"complete", "error"} \cap events[r] # {}

\* Mail about a run goes out only after it completed and said so (its row may only have
\* been overtaken since), and a run that was not asked to deliver sends nothing to the
\* owner's report recipients.
MailFollowsComplete ==
    \A r \in Runs : sent[r] # {} =>
        /\ rows[r].status = "COMPLETE" \/ Overtaken(r)
        /\ "complete" \in events[r]
        /\ "recipient mail" \in sent[r] => threads[r].deliver

\* A run that was announced complete carries a warning when part of the universe was
\* not evaluated or its history was not saved (no silent gap), unless a start-up that
\* overtook it put its own message there.
GapsAreReported ==
    \A r \in Runs : "complete" \in events[r] /\ Deserves(r) =>
        rows[r].note = "warning" \/ Overtaken(r)

\* While MongoDB answers and one process runs at a time, a scheduled slot whose batch
\* is published is never scanned again: every other run of the slot was started
\* before the run the batch belongs to.
SlotScansOnce ==
    env.mongo = 0 /\ env.drains = 0 =>
        \A k \in CronKeys : batches[k].status \in Published =>
            \A r \in Runs : /\ threads[r].phase # "none"
                            /\ threads[r].slot # Manual
                            /\ Key(r) = k
                            => r <= batches[k].run

\* What was announced complete is final: no failing follow-up, later error or start-up
\* re-marks the row or touches its results.  The exception is the code's own: a start-up
\* that listed the run before it completed, in a process left finishing by a graceful
\* shutdown, still marks it interrupted, and even then its entries stay.
CompletionIsFinal ==
    [][\A r \in Runs : "complete" \in events[r] =>
          \/ rows'[r] = rows[r]
          \/ /\ env.drains > 0 /\ r \in env.stale
             /\ Overtaken(r)' /\ rows'[r].entries = rows[r].entries]_vars

\* Where a thread can be, given what the tables, the stream and the mail show: the
\* inductive invariant behind the properties above.
Completed(r) == rows[r].status = "COMPLETE" \/ Overtaken(r)
RunInv(r) ==
    /\ r >= nextRun => threads[r].phase = "none" /\ rows[r].status = "absent"
    /\ threads[r].phase = "none" => /\ rows[r].status \in {"absent", "PENDING"}
                                    /\ events[r] = {} /\ sent[r] = {}
    /\ threads[r].phase = "load" => rows[r].status = "PENDING"
    /\ threads[r].phase \in Body => rows[r].status \in {"RUNNING", "ERROR"}
    /\ threads[r].phase \in {"persist", "complete"} => threads[r].evaluated \in {"all", "some"}
    /\ threads[r].phase \in {"save", "saving"} => threads[r].evaluated # "unknown"
    /\ threads[r].phase = "complete" => rows[r].entries = threads[r].scored
    /\ threads[r].phase \in {"warn", "announce"} => Completed(r)
    /\ threads[r].phase = "announce" /\ Deserves(r) => rows[r].note = "warning" \/ Overtaken(r)
    /\ threads[r].phase \in Followup => "complete" \in events[r]
    /\ "complete" \in events[r] => threads[r].phase \in Followup \cup {"killed"}
    /\ "complete" \in events[r] => Completed(r)
    /\ "complete" \in events[r] /\ Deserves(r) => rows[r].note = "warning" \/ Overtaken(r)
    /\ "error" \in events[r] => threads[r].phase = "failed"
    /\ sent[r] # {} => "complete" \in events[r]
    /\ "recipient mail" \in sent[r] => threads[r].deliver

\* What the start-up has listed: rows of runs that have begun, and, when nothing was
\* drained, rows that no thread will touch again.
StaleInv(r) ==
    /\ r \in env.stale => threads[r].phase \notin {"none", "load"}
    /\ r \in env.stale /\ env.drains = 0 => rows[r].status = "RUNNING"
    /\ env.drains = 0 /\ ~env.up => threads[r].phase \in Ended

LifecycleInv == CompleteHasResults /\ \A r \in Runs : RunInv(r) /\ StaleInv(r)

\* What a run without a failed SQL write shows of its thread: the inductive part
\* behind RunningHasThread and AnnouncementsAreTrue.
VerdictInv(r) ==
    /\ env.sql = 0 /\ rows[r].status = "RUNNING" =>
         \/ threads[r].phase \in Body \cup {"fail"}
         \/ /\ ~env.up /\ threads[r].phase = "killed"
            /\ env.stale = {} \/ r \in env.stale
    /\ env.sql = 0 /\ threads[r].phase \in {"abort", "failed"} => rows[r].status = "ERROR"
    /\ "close" \in events[r] => {"complete", "error"} \cap events[r] # {}

Cron(r) == threads[r].phase # "none" /\ threads[r].slot # Manual

\* A server that is up has nothing listed; without a graceful shutdown a stopped one
\* has no call.
StoppedIsQuiet ==
    /\ env.up => env.stale = {}
    /\ ~env.up /\ env.drains = 0 => \A a \in Callers : callers[a].pc = "idle"

\* A call knows its config and its slot, only a graceful shutdown leaves calls over, and
\* a batch that is being written belongs to the run that writes it.
CallInv ==
    /\ StoppedIsQuiet
    /\ \A c \in Configs : callers[c].pc # "idle" => callers[c].config = c /\ callers[c].slot # Manual
    /\ \A l \in Leftovers : callers[l].pc # "idle" => /\ env.drains > 0
                                                      /\ callers[l].config \in Configs
                                                      /\ callers[l].slot # Manual
    /\ \A m \in Requests : callers[m].pc # "idle" => /\ callers[m].pc \in {"check", "insert"}
                                                     /\ callers[m].config \in Configs
                                                     /\ callers[m].slot = Manual
    /\ \A r \in Runs :
         /\ r >= nextRun => threads[r].phase = "none"
         /\ threads[r].phase # "none" => rows[r].config \in Configs
         /\ threads[r].phase = "saving" => batches[Key(r)] = [status |-> "running", run |-> r]

\* While MongoDB answers and nothing is drained: a live scheduled scan holds its config's
\* only job instance; a job past its lookup has a slot nobody published; the scan a job is
\* busy with is its config's newest.  The inductive part behind SlotScansOnce.
LiveScanHoldsJob ==
    \A r \in Runs : Cron(r) /\ threads[r].phase \notin Ended =>
        callers[rows[r].config].pc = "busy" /\ callers[rows[r].config].run = r
SlotIsOpen ==
    \A c \in Configs : callers[c].pc \in {"check", "insert"} =>
        batches[<<c, callers[c].slot>>].status \notin Published
BusyWithNewest ==
    \A c \in Configs : callers[c].pc = "busy" =>
        \A r \in Runs : Cron(r) /\ rows[r].config = c => r <= callers[c].run

SlotInv ==
    env.mongo = 0 /\ env.drains = 0 =>
        LiveScanHoldsJob /\ SlotIsOpen /\ BusyWithNewest /\ SlotScansOnce

\* Every RUNNING run is settled: by its thread, or by the clean-up after a crash.
RunningSettles ==
    \A r \in Runs : rows[r].status = "RUNNING" ~> rows[r].status \in Terminal

\* A PENDING run gets its thread's verdict unless its thread is killed first (no clean-up
\* looks at PENDING rows) or was never started.
PendingSettles ==
    \A r \in Runs : rows[r].status = "PENDING" ~>
        (rows[r].status \in Terminal \/ threads[r].phase \in {"killed", "none"})

\* No run is left behind: both of the above.
RunsSettle == RunningSettles /\ PendingSettles

\* The scheduler's claim: one config never has two scans in flight.
OneScanInFlight ==
    \A r, q \in Runs :
        /\ rows[r].status = "RUNNING" /\ rows[q].status = "RUNNING"
        /\ rows[r].config = rows[q].config
        => r = q
=============================================================================
