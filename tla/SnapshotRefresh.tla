---------------------------- MODULE SnapshotRefresh ----------------------------
(***************************************************************************)
(* Rebuilding the screener snapshot: a refresh of one market that a user   *)
(* starts (app/backend/services/snapshot_refresh.py, one thread and a      *)
(* state record under a lock) and the nightly job that rebuilds every      *)
(* market (scheduler_service.py), both writing ticker_snapshots.           *)
(***************************************************************************)
EXTENDS Naturals, Sequences

CONSTANTS
    Markets,      \* the markets, in the order of the nightly job
    MaxClicks,    \* refreshes the users start
    MaxNights,    \* nightly jobs
    MaxFaults     \* upserts the database refuses

MarketNames == {Markets[i] : i \in DOMAIN Markets}

ASSUME SnapshotRefreshAssumption ==
    /\ Markets \in Seq(MarketNames)
    /\ Len(Markets) > 0
    /\ {MaxClicks, MaxNights, MaxFaults} \subseteq Nat

VARIABLES
    state,    \* _state: what the users poll
    threads,  \* the thread of each refresh, in the order they were started
    started,  \* refreshes started so far
    night,    \* the nightly job
    table,    \* the build that ticker_snapshots shows of each market today
    env       \* nights and faults so far

vars == <<state, threads, started, night, table, env>>

Refreshes == 1..MaxClicks
NightBuild == MaxClicks + 1       \* rows of the nightly job
NoMarket == "none"
Working == {"build", "upsert", "stored", "failed", "final"}
Writing == {"nothing", "rows"}

Record == [running : BOOLEAN, market : MarketNames \cup {NoMarket}, inserted : BOOLEAN,
           error : BOOLEAN, finished : BOOLEAN]
Thread == [pc : Working \cup {"none", "done"}, outcome : {"", "stored", "failed"},
           market : MarketNames \cup {NoMarket}, rows : Writing]
Night == [pc : {"idle", "build", "upsert", "cleanup"}, at : 1..(Len(Markets) + 1), rows : Writing,
          broken : BOOLEAN]

\* Every variable keeps its shape, and the nightly job stays within its markets.
TypeOK ==
    /\ state \in Record
    /\ threads \in [Refreshes -> Thread]
    /\ started \in 0..MaxClicks
    /\ night \in Night
    /\ night.pc \in {"build", "upsert"} => night.at <= Len(Markets)
    /\ table \in [MarketNames -> 0..NightBuild]
    /\ env \in [nights : 0..MaxNights, faults : 0..MaxFaults]

NoNight == [pc |-> "idle", at |-> 1, rows |-> "nothing", broken |-> FALSE]

Init ==
    /\ state = [running |-> FALSE, market |-> NoMarket, inserted |-> FALSE, error |-> FALSE,
                finished |-> FALSE]
    /\ threads = [t \in Refreshes |-> [pc |-> "none", outcome |-> "", market |-> NoMarket,
                                       rows |-> "nothing"]]
    /\ started = 0
    /\ night = NoNight
    /\ table = [m \in MarketNames |-> 0]
    /\ env = [nights |-> 0, faults |-> 0]

Fault ==
    /\ env.faults < MaxFaults
    /\ env' = [env EXCEPT !.faults = @ + 1]

-----------------------------------------------------------------------------
\* A refresh on demand.

\* Mutant of MayStart: no look at the state.
MayAlwaysStart == TRUE

\* Under the lock: a refresh in flight refuses the next one.
MayStart == ~state.running

\* Mutant of Fresh: the outcome of the last refresh stays.
FreshKeepsOutcome(m) == [state EXCEPT !.running = TRUE, !.market = m]

\* The state record at the start of a refresh.
Fresh(m) == [running |-> TRUE, market |-> m, inserted |-> FALSE, error |-> FALSE, finished |-> FALSE]

\* start_refresh
Click(m) ==
    /\ started < MaxClicks
    /\ MayStart
    /\ started' = started + 1
    /\ state' = Fresh(m)
    /\ threads' = [threads EXCEPT ![started + 1] = [@ EXCEPT !.pc = "build", !.market = m]]
    /\ UNCHANGED <<night, table, env>>

\* build_for_universe: a ticker that fails is left out, down to no row at all; a
\* universe that cannot be loaded raises.
Build(t, rows) ==
    /\ threads[t].pc = "build"
    /\ threads' = [threads EXCEPT ![t] = [@ EXCEPT !.pc = "upsert", !.rows = rows]]
    /\ UNCHANGED <<state, started, night, table, env>>

BuildRaises(t) ==
    /\ threads[t].pc = "build"
    /\ threads' = [threads EXCEPT ![t].pc = "failed"]
    /\ UNCHANGED <<state, started, night, table, env>>

\* bulk_upsert: all rows of the day in one transaction; no rows, no transaction.
Upsert(t) ==
    /\ threads[t].pc = "upsert"
    /\ \/ /\ threads[t].rows = "rows"
          /\ table' = [table EXCEPT ![threads[t].market] = t]
          /\ threads' = [threads EXCEPT ![t].pc = "stored"]
          /\ UNCHANGED env
       \/ /\ threads[t].rows = "nothing"
          /\ threads' = [threads EXCEPT ![t].pc = "stored"]
          /\ UNCHANGED <<table, env>>
       \/ /\ threads[t].rows = "rows"
          /\ Fault
          /\ threads' = [threads EXCEPT ![t].pc = "failed"]
          /\ UNCHANGED table
    /\ UNCHANGED <<state, started, night>>

\* The outcome goes into the state record ...
Report(t) ==
    /\ threads[t].pc \in {"stored", "failed"}
    /\ state' = IF threads[t].pc = "stored" THEN [state EXCEPT !.inserted = TRUE]
                ELSE [state EXCEPT !.error = TRUE]
    /\ threads' = [threads EXCEPT ![t] = [@ EXCEPT !.pc = "final", !.outcome = threads[t].pc]]
    /\ UNCHANGED <<started, night, table, env>>

\* Mutant of Finish: cleared only when the refresh went well.
FinishOnSuccess(t) ==
    /\ threads[t].pc = "final"
    /\ state' = IF threads[t].outcome = "stored" THEN [state EXCEPT !.running = FALSE, !.finished = TRUE]
                ELSE state
    /\ threads' = [threads EXCEPT ![t].pc = "done"]
    /\ UNCHANGED <<started, night, table, env>>

\* ... and the finally clause makes room for the next refresh.
Finish(t) ==
    /\ threads[t].pc = "final"
    /\ state' = [state EXCEPT !.running = FALSE, !.finished = TRUE]
    /\ threads' = [threads EXCEPT ![t].pc = "done"]
    /\ UNCHANGED <<started, night, table, env>>

RefreshStep(t) ==
    \/ \E rows \in Writing : Build(t, rows)
    \/ BuildRaises(t) \/ Upsert(t) \/ Report(t) \/ Finish(t)

-----------------------------------------------------------------------------
\* The nightly job: every market in turn, one session, no lock.

Market == Markets[night.at]

Nightfall ==
    /\ night.pc = "idle"
    /\ env.nights < MaxNights
    /\ env' = [env EXCEPT !.nights = @ + 1]
    /\ night' = [NoNight EXCEPT !.pc = "build"]
    /\ UNCHANGED <<state, threads, started, table>>

\* The loop over the markets.
OnToNext(job) ==
    [job EXCEPT !.at = @ + 1, !.pc = IF job.at = Len(Markets) THEN "cleanup" ELSE "build"]

NightBuilds(rows) ==
    /\ night.pc = "build"
    /\ night' = [night EXCEPT !.pc = "upsert", !.rows = rows]
    /\ UNCHANGED <<state, threads, started, table, env>>

\* The market is logged as failed, and the next one follows.
NightBuildRaises ==
    /\ night.pc = "build"
    /\ night' = OnToNext(night)
    /\ UNCHANGED <<state, threads, started, table, env>>

\* An upsert the database refuses leaves the transaction of the session aborted: on
\* PostgreSQL every later statement fails until it is rolled back, which nothing does.
NightUpsert ==
    /\ night.pc = "upsert"
    /\ \/ /\ night.rows = "nothing" \/ night.broken
          /\ night' = OnToNext(night)
          /\ UNCHANGED <<table, env>>
       \/ /\ night.rows = "rows" /\ ~night.broken
          /\ table' = [table EXCEPT ![Market] = NightBuild]
          /\ night' = OnToNext(night)
          /\ UNCHANGED env
       \/ /\ night.rows = "rows" /\ ~night.broken
          /\ Fault
          /\ night' = OnToNext([night EXCEPT !.broken = TRUE])
          /\ UNCHANGED table
    /\ UNCHANGED <<state, threads, started>>

\* cleanup_old_snapshots deletes rows of former months, which the model does not keep,
\* or raises; the session is closed.
NightEnds ==
    /\ night.pc = "cleanup"
    /\ night' = NoNight
    /\ UNCHANGED <<state, threads, started, table, env>>

Next ==
    \/ \E m \in MarketNames : Click(m)
    \/ \E t \in Refreshes : RefreshStep(t)
    \/ Nightfall \/ NightBuildRaises \/ NightUpsert \/ NightEnds
    \/ \E rows \in Writing : NightBuilds(rows)

Spec == Init /\ [][Next]_vars

\* A thread that was started is scheduled; its calls come back.
FairSpec == Spec /\ \A t \in Refreshes : WF_vars(RefreshStep(t))

-----------------------------------------------------------------------------
\* Properties.

\* The record says running exactly as long as a refresh is at work, and that refresh is
\* the last one started: neither is a dead refresh polled for ever nor a live one hidden.
RunningIsTrue ==
    /\ state.running <=> \E t \in Refreshes : threads[t].pc \in Working
    /\ \A t \in Refreshes : threads[t].pc \in Working => t = started

\* What a user reads after a refresh is the outcome of that refresh and of no other.
OutcomeIsOwn ==
    state.finished =>
        /\ state.market = threads[started].market
        /\ state.inserted <=> threads[started].outcome = "stored"
        /\ state.error <=> threads[started].outcome = "failed"

\* A refresh never overwrites the rows of one that was started after it.
LaterRefreshWins ==
    [][\A m \in MarketNames : table[m] \in Refreshes /\ table'[m] \in Refreshes => table'[m] >= table[m]]_vars

\* A failed build cannot wedge the button: every refresh comes to its end.
RefreshEnds == state.running ~> state.finished
=============================================================================
