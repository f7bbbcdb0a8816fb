# Market scanner: verification project

TLA+ models of the market scanner's own logic, checked with TLC and, in part,
proved with TLAPS. Each module translates the code it names in `PROJECT.json`
("map": definition → file and lines); this text says what the parts of the
system are, what is modelled, what each run shows, what is proved, and what is
left. Paths are relative to the repository.

Contents: 1 the system, 2 hard behaviours and what must hold, 3 the modules,
4 runs and bounds, 5 fairness, 6 proofs, 7 disagreements found, 8 what is not
modelled, 9 plan.

## 1. The system

A FastAPI server (one process) with a SQL database (PostgreSQL by default), an
optional MongoDB, an APScheduler instance in the process, daemon threads for
long work, and a React client. Long work is never done in a request: a request
inserts a row or sets a record, starts a thread and returns.

| Part | Code | State | Operations |
|---|---|---|---|
| Scan runs | `app/backend/services/scanner_service.py`, `repositories/scanner_repository.py` | `scan_runs`, `watchlist_entries` rows; a thread per run | `execute` (cron), `execute_async` (request), `_begin`, `_run_to_completion`, `_mark_error`, follow-ups |
| Scan history | `src/storage/history.py`, `src/storage/mongo.py` | MongoDB batches by execution key; a lock and a breaker in the process | `save`, `find_completed` |
| Event stream | `services/scan_broadcaster.py`, `stream_run` in `routes/scanner.py` | queues of the subscribers of each run | `publish`, `close`, `subscribe` |
| Scheduler | `services/scheduler_service.py` | jobs in memory | registration from configs, schedules and presets; job bodies |
| Start-up and shutdown | `app/backend/main.py` | – | mark RUNNING rows as interrupted; stop the scheduler without waiting |
| User paper accounts | `services/user_paper_service.py`, `routes/paper.py` | account, positions, trades per user | create, order, mark, view |
| Paper-trading forward test | `src/paper_trading/` | sleeves, orders, positions, equity marks | weekly rebalance, daily marks, report |
| Screener snapshot | `services/snapshot_refresh.py`, snapshot job, `screener_repository.py` | `ticker_snapshots`; an in-memory record under a lock | refresh on demand, nightly rebuild, queries |
| Auto-SOP, mail, notifications | `services/auto_sop_runner.py`, `report_delivery.py`, `notifications/` | reports, audit log | batch of reports, bundled notification, mail |
| Research SOP | `src/research/sop_orchestrator.py`, `src/storage/analysis.py`, `checkpoint.py`, `mongo.py` | runs, reports, checkpoints and cached sections in MongoDB; the breaker of the store | analyse, reuse, resume |
| Strategy lab | `src/lab/engine/` | cash, positions and pending signals of a simulation | simulate a strategy bar by bar |
| Agent backtests | `src/backtesting/` | a long and short portfolio | decide and trade day by day |
| Scan engine | `v2/scanner/runner.py` | a queue of clients, a pool of threads | scan a universe, rank |
| Quotes | `services/live_quotes.py` | a cache in the process | fetch for a list of tickers |
| Data clients | `v2/data/` | MongoDB snapshots, bars and synchronisations; a token bucket and a throttle | read through the store, throttled requests |
| Lab strategies | `routes/lab.py`, `repositories/lab_*` | strategy, chat and backtest rows | edit, chat, apply, backtest, delete |
| Self-evolution | `v2/self_evolve/` | one file per version, a log | evolve, resume, look up the best |
| Ollama service | `services/ollama_service.py`, `routes/ollama.py` | progress entries in the process; models in an external server | download, follow, cancel |
| Scanner panel | `app/frontend/.../scanner-panel.tsx`, `scanner-service.ts` | React state, one event stream | select, run, re-attach, delete |
| Agents, other v2 research | `src/agents`, `v2/` | none | LLM and numerical pipelines |
| Accounts, keys, presets, watchlists, schedules | `auth/`, `routes/`, `repositories/` | rows | single-row CRUD |

How they interact. A cron trigger or a request calls the scan service, which
writes the run's row; the run's thread writes MongoDB, then SQL, and publishes
events to the broadcaster, which hands them to the event loop of the server; at
the end the same thread sends mail and starts the auto-SOP batch. Start-up
looks at what former processes left in `scan_runs`. The nightly job and the
refresh button write the same snapshot table. The weekly and the daily paper
job read and write the sleeve tables, each with one session for all sleeves.
An edit of a config, schedule or preset commits the row and then tells the
scheduler; a change of the user's time zone reads all rows and registers every
job again. An analysis passes the same store as the scan history, under one
lock and one breaker, several times per section. The thread of a scan runs the
engine, whose clients read through the store and share one allowance of the
provider. The panel in the browser starts runs, listens to the event stream and
reads results, and may be turned to another configuration before any of these
has answered.

## 2. Hard behaviours and what must hold

`PROJECT.json` ("hazards") lists them at their lines. In short:

* Scan runs: two triggers of one config at once; a kill, a shutdown or a failed
  commit between any two of a dozen writes to two databases; a trigger that
  fires twice in its minute. What must hold: a COMPLETE row has its results,
  subscribers hear the truth, mail only follows completion, gaps in the history
  are said on the row, no RUNNING row is left to block its config, a published
  slot is not scanned again.
* Event stream: the publishing thread and the event loop share lists and queues.
  Every reader must see each event of its run once, in order, then the end.
* Paper accounts: concurrent orders of a user, rounding of released cost. Money
  is conserved; no fill is lost or doubled; an answer is one moment.
* Forward test: two tables are rebuilt into one broker every week; retries on
  other days; one session for all sleeves; marks taken while the weekly job
  commits. A week trades once; the tables stay one book.
* Snapshot: a state record shared by successive threads, and a nightly job that
  does not know it. What is polled is the refresh at work; every refresh ends.
* Analyses: sections of a wave in parallel, checkpoints written behind the
  graph's back, every one of some twenty database operations optional, kills and
  resumed runs, two requests for the same input. A report must be of one piece,
  a settled run must have its report, and stored work must not be paid for twice.
* Jobs and rows: two requests at work on one row, and a job that is looked up,
  removed and added in several steps. A row's job must be the one it asks for
  once the requests are over; limits are counted before they are used.
* Backtests: orders that wait over gaps in the bars, several orders drawing on
  one cash, positions averaged, closed in parts and opened again on margin.
  Nothing may be spent twice or known too early, and four records must agree.
* Auto-SOP batch: analyses end in any order, one session stores their reports,
  any statement fails. Order of ranks, one thread per session, a failure that
  costs its own report only.
* Scan engine: clients that are not thread-safe in a queue, results in any order,
  providers that fail. A client has one user, evidence is a ticker's own, the
  scan ends and closes what it opened.
* Quotes, bars and rates: the provider is asked outside the lock, so answers are
  stored in another order than they were asked for; the store fails half-way;
  retries must be paid for. What is served must be of its time and its user.
* Lab: edits, chat turns and applied proposals that overlap, the model's answer
  minutes after the question. The chat tells what happened to the strategy.
* Self-evolution: two files per round and a death at any byte. What was kept
  stays, what was rolled back does not come back, both readers agree.
* Ollama: an entry shared by all downloads of a model, a page that leaves, a
  cancellation that only the entry hears of.
* Panel: answers that arrive after a switch, a deletion or an unmount. What is on
  show belongs to what is selected; one stream is open.

## 3. The modules

| Module | Models | Used by |
|---|---|---|
| `ScanRuns` | scan runs with history, restart and follow-ups | `MCScanRuns`, `ScanRunsProofs` |
| `EventStream` | what the stream promises a reader (abstract) | refined by `ScanBroadcaster` |
| `ScanBroadcaster` | broadcaster, event loop and stream route | `MCScanBroadcaster`, `ScanBroadcasterProofs` |
| `UserPaper` | a user's virtual account | `MCPaper`, `PaperProofs` |
| `PaperSleeves` | weekly job and daily marks | `MCPaper`, `PaperProofs` |
| `SnapshotRefresh` | refresh on demand and nightly job | `MCServerJobs`, `ServerJobsProofs` |
| `AnalysisRuns` | durable research runs over an optional store | `MCAnalysisRuns`, `AnalysisRunsProofs` |
| `JobRegistry` | a user's rows and the jobs the scheduler keeps for them | `MCUserRequests`, `ScanRunsProofs` |
| `LabSimulation` | the strategy lab's simulation loop | `MCStrategies`, `StrategyProofs` |
| `BacktestBook` | the portfolio of an agent backtest | `MCStrategies`, `StrategyProofs` |
| `AutoSopBatch` | the auto-SOP follow-up, statement by statement | `MCServerJobs`, the run `sop_isolation`, `ServerJobsProofs` |
| `ScanPool` | `run_scan`, the step `Scan` of `ScanRuns` | `MCServerJobs`, `ServerJobsProofs` |
| `QuoteCache` | live quotes through their cache | `MCMarketData`, `MarketDataProofs` |
| `MarketCache` | daily bars through the caching client | `MCMarketData`, `MarketDataProofs` |
| `RateLimit` | bucket, throttle and retries of the Finnhub client | `MCMarketData`, `MarketDataProofs` |
| `EvolveLoop` | the keep-or-roll-back loop over its files | `MCStrategies`, `StrategyProofs` |
| `LabStrategies` | overlapping requests on one lab strategy | `MCStrategies`, `StrategyProofs` |
| `OllamaDownloads` | downloads of local models | `MCServerJobs` |
| `ScannerPanel` | the scanner panel before a server that runs scans | `MCUserRequests`, `ScanRunsProofs` |

Definitions named `...` that follow a comment "Mutant of X" are faulty versions
of the next definition; they are used by no behaviour and exist so that each
property can be shown to notice the fault.

**ScanRuns.** One action per transaction. `rows` is `scan_runs` with, per run,
whether its watchlist entries are stored and what `error_message` says
(`note`); `batches` the MongoDB batches under their execution keys (config and
minute for a cron run, a key of its own for a manual one); `threads` the
`_run_to_completion` call of a run: the phase it is in and its local values
(what was evaluated, whether anything scored, whether the history was saved);
`callers` the cron jobs and requests inside `execute`/`_begin`; `events` what a
subscriber could have been told; `sent` the mail effects. A phase is a
statement of `_run_to_completion`: `load` → `scan` → `save`/`saving` →
`persist` → `complete` → `warn` → `announce` → `email` → `sop` → `done`, and on
an exception `fail` → `abort` → `failed`. The guard of `_begin` and the insert
are two actions because they are two statements; `ScanHistory.save` is two
actions because a kill between them leaves a `running` batch. Faults: `Raises`
and the `SqlFault` branches (a commit fails), `MongoFault` (an operation of the
store fails and answers None), `RefreshFails` and a branch of `InsertFails` and
of `MarkError` (the commit succeeds and reading the row again does not), `Crash`
(kill), `Drain` (graceful shutdown). A `ValueError` of `ScanHistory.save` (an
outcome missing or doubled, a number that is not finite) is not swallowed by the
store: `Raises` in `save` and in `saving`, where the batch is marked failed first.

A shutdown does not wait: `Drain` lets the cron calls of the old process go on from
wherever they are, as `Leftovers`, and its manual scans, on daemon threads, either
end with it or go on. The next start-up is not one step, either: `ListRunning` reads the RUNNING rows
once, `MarkInterrupted` commits one mark after the other without looking at the
rows again (`env.stale` is what it still has to mark), any failure ends the clean-up, and
the scheduler starts when it is over. A scan left finishing may complete, warn and announce
between the two; `Overtaken` names a row so overwritten, see section 7. A kill takes a
draining process together with its successor, and a second shutdown leaves what is
still draining alone. After a drain `StoreFree` grants the store to everyone, since
each process has a lock of its own; two threads of one process may then overlap,
which only adds behaviours. The clean-up looks at RUNNING rows only: a run killed while PENDING
stays so for ever, hence the exception in `PendingSettles`.

Abstracted: tickers and scores (a scan evaluated all, some or none of the universe and
scored something or not), texts, the universe itself; an empty universe is not a case of
its own. When a trigger matches a minute is left open.

**ScanBroadcaster / EventStream.** An action is what happens under one hold of
the lock, or between two awaits of the loop. `feed[r]` is the publishing
thread (its event counter, and the copy of the list it is walking), `loop` the
FIFO of `call_soon_threadsafe` callbacks, `stream[s]` the generator and the
route of one request. `EventStream` has none of this: a reader's window of
events opens when it joins and closes after the last one. `Promise` maps the
detailed state to it. A reader that joins after the end is recorded as `late`,
and only those are promised no end; see section 7.

**UserPaper.** A request is a sequence of transactions: lock the account row,
read the positions, write all and commit; then a second transaction for the
answer. Amounts are integers in the smallest unit of a column; `Scale` units
make a dollar. `RoundHalfEven` is `Decimal.quantize`; a position's released
cost is the whole rest with the last share. `Fits` is the range of the columns:
what exceeds it is refused by the database, i.e. the request ends in `Finish`.
The intermediate precision of 28 digits is not modelled. `FOR UPDATE` is taken
as PostgreSQL implements it (SQLite ignores it).

**PaperSleeves.** `orders[s]` is the order log of a sleeve in the sums that the
code asks of it (spent, earned, net shares, and how many runs of a week left an
order); `lots[s]` the open positions. `Load` is `reconstruct_broker` plus the
look for orders of the week, `Trade` the rest of `run_week`, one transaction:
sales of aged lots that have a price, then an equal split of the cash over the
new targets that have one, floored. `Fails` is any statement or commit that
fails, `Refused` what the same session does to the sleeves after it. Targets
and prices are arbitrary. Amounts are integers, where the code uses floats; the
one effect of rounding kept is that an order for all of the cash may be
rejected. Command-line overrides of date and week are not modelled, and one
weekly process runs at a time.

**SnapshotRefresh.** `state` is the record the client polls, `threads[t]` the
thread of the t-th refresh, `night` the nightly job, `table[m]` which build the
rows of a market come from. `Click` is atomic because the code does it under
the lock; `Upsert` is one statement and a commit. Progress counters and the
contents of rows are left out; a server restart resets everything but the table
and is not modelled.

**AnalysisRuns.** One user and one input: requests for other inputs share only
the breaker. An action is one operation of the store (which its lock makes
atomic) or one step of the graph. `Served`, `Refused` and `Opens` are the three
ways through `MongoStore.execute`; a failure may fall between two statements,
so `Start`, `Save`, `PutWrites`, `Put` and `SectionPut` may have been applied
and still be reported as failed. `reqs[p]` is a request: where it is, its copy
of the graph's state, and the queue of checkpoints that LangGraph writes behind
the next wave (the default durability of a graph with a checkpointer);
`thread[r]` is what MongoDB holds of run `r`'s checkpoints and writes. The graph
is a sequence of waves: the parallel sections, then the chain that follows them.
A payload is named by its section, its author, whether it is a placeholder, and
the payloads it was given, which is exactly what `cache_key` digests. A request
without a ticket is `ephemeral`: only the breaker notices it. Behaviours worth
knowing, all in the model: resuming a run that was answered from another run's
report finds no report of its own and sets it back to running; `save(error)`
sets failed whatever the run was; a second report of a run is refused by the
unique index and, like any exception, opens the breaker. Not modelled: expiry of
cached sections (a day), excluded sections, and the freezing of the input. A simplification:
`EndWave` waits until every section's writes are put or refused; in the graph they may still be
on their way when the wave is joined.

**JobRegistry.** `table` is the rows, `jobs` the in-memory jobs. A request
commits its row, reads it again and goes through `Begin` (off: job removed),
`RemoveJob` (reports and presets look their job up and remove it in two steps;
the loser of a race gives up), `UserTz` and `AddJob`. A config's job is replaced
in one step instead. `ChangeZone` reads all enabled rows and registers them
one by one, from the copies it read, in whatever order the database lists them (`Listed`). `Restart` is `SchedulerService.start`.
`past` remembers which rows were worked on by two requests at once or by one
that failed: for those nothing is promised until the next edit. A row's other
fields (name, tickers, filters) do not matter to its job.

**LabSimulation.** The loop of `run_simulation` with an action for every
iteration of its inner loops; `bar.part` says which loop of its body runs. Bars,
prices and signals are arbitrary, so every gap and every rule is covered; a
signal's ATR only matters by not being 0. `MostShares` is the truncating division of
the code. Costs are quarters of the price, floored: what a fractional cost
would add is below one unit of cash. A strategy has the sizing `fixed_pct`,
`equal_weight` or `vol_targeted`.

**BacktestBook.** The portfolio's four mutations with the partial fills they
allow, one decision per ticker and day. Decisions are arbitrary, as nothing
between the agent and the executor refuses one. Prices are chosen so that
averages and margins are exact; the code uses floats.

**The MC modules** that instantiate several components (`MCPaper`,
`MCServerJobs`, `MCUserRequests`, `MCStrategies`, `MCMarketData`) choose one of
them with the initial state: `which` names it, its own `Init` and `Next` run, and
the variables of the others stand still, without a value or as they began.
These components share no state in the code; where two do meet, the meeting
is inside a module (a refresh and the nightly job, a weekly run and the daily
marks, edits and the registry). One of their properties can be a conjunction
of what its component's module states in parts, each with its own comment;
`RecordsAgree`, for one, is `TradesExplainCash` for the lab and
`GainsExplainCash`, `MarginMatchesShorts` for the agents' portfolio. `MCUserRequests`
is also what `ScanRunsProofs` builds on, beside `ScanRuns`, and gives what both have a
name of its own: `Scanners` are `JobRegistry`'s configs, `MaxScans` the runs of the panel's
server, `NoConfig` its empty selection, and `story` names the component.

**AutoSopBatch.** `step` is the statement of `run_auto_sop_for_scan` (later of
`_run_auto_sop_followup`) the scan's thread is at, `analysis[r]` the analysis of the
entry of rank `r` on the pool, `fate[r]` what became of it. The session is
fresh, aborted (a read failed), expired (a commit has been tried, which empties
the rows it had loaded) or broken (a write failed and nobody rolled back); which
of these it is decides whether the next attribute access is a statement, and
whether that can succeed. `Turn` and `Reread` are such
accesses; `Reload` is one query per report, in a session of its own. A report may be deleted by its owner at any time. Texts, sections and
channels are left out; a mail is the list of report ids it shows.

**ScanPool.** `queue` holds the data clients that are checked in, `tasks[t]` the
thread that scans ticker `t`, `clients[i]` whether client `i` is open and what
it has read so far. `Build` and `FetchBenchmark` come first, `Collect` is one
turn of the `as_completed` loop, `Rank` the sort: `Place` is where an entry comes, behind those with
a higher score and those with the same score collected earlier. Detectors fire, fail or find
nothing, a score is one of a few numbers or an exception. What the scan hands to
`ScanRuns` is one of the outcomes its action `Scan` chooses from; the two are
tied by `ScoredWasEvaluated`, not by a refinement.

**QuoteCache.** A call is its list of tickers; `fetches` are the threads of its
pool, one per different ticker, each of which looks under the lock (`Look`),
asks (`Ask`) and stores under the lock (`Store`). A row is who it was fetched
for, its ticker and the time; its price is left out, but for one that is
missing, which is answered and not kept. `raced` remembers the quotes that two
threads were asking for at once.

**MarketCache.** One ticker. `FindSnapshot` is the look for a stored response to the very
request, `ReadBars` that for stored bars, `Ask` the provider and `Save` the three
writes of a response; `SaveFails` any prefix of them. Contents of a bar are an
old and a corrected value. `overtaken` collects the sessions for which a read
stored its response after a later read had. Other methods of the client have
their snapshots only.

**RateLimit.** Time in ticks, tokens in units of which the bucket gains `Rate` per
tick. `since[a]` is what all threads have been granted since tick `a`: the one
history variable that a ceiling on every stretch of time needs.

**EvolveLoop.** `prog` is the invocation and its round, `memory` its running
best, `versions` and `log` the files, `tail` how the log ends. A configuration
is the set of the rounds whose changes it carries, so that "what was rolled back
never comes back" can be said. Deaths are possible between any two steps and in
both writes: half a version file exists and does not parse, half a log line
joins the next one. A write that fails is the same to the files, as nothing
catches it. Metrics are any of a few records, missing values included; a
proposal is a change of its own. One invocation runs at a time.

**LabStrategies.** One action per commit. A request keeps the version its session
read first, which `Updated` adds one to, and the specification it works on.
`base` numbers the edits a message or a request knows; `edits` is the history of
what was committed. The database cascades a deletion, and what is stored
afterwards fails (`FailsIfGone`). A specification is a model value; its
validation is left out, as it changes nothing when it fails.

**OllamaDownloads.** One step from one await or yield to the next. `progress` is
`_download_progress`, `downloads[d]` the generator of a request, `told` what its
page heard last. The server is external: it fetches a model's layers one by one,
installs it after the last, and stops when nobody reads (`FetchUnread` is the
second in which the connection outlives the loop). A page that leaves closes the
generator at a yield, or cancels it at an await, where its clean-up is cancelled
too.

**ScannerPanel.** `panel` is the React state of the mounted instance, `attach` the
effect of the current selection with its `cancelled` flag, `streams`, `fetches`
and `clicks` the requests in flight, each with the instance it belongs to:
state setters of an unmounted instance do nothing, `subscribeToRun` still
opens. The server is reduced to runs with a status; a run's last event follows
its row at once (`ScanRuns` and `ScanBroadcaster` have the steps between), and a
stream opened after it hears nothing. `left` says that something was in flight
when the user turned away. The list of entries of a run is the run's number,
and never empty; the layout, e-mail option and dialogs are left out.

## 4. Runs and bounds

Deadlock is not checked where counters bound the behaviour and the model
therefore stops. `paper` checks it for the accounts, where a request can always
begin; the sleeves of the same run may stop after their last day.

| Run | Instance | Shows |
|---|---|---|
| `scan_faults` | 1 config, its cron job and 1 manual request, 1 run, 2 stops, 1 of them a graceful shutdown at most, 2 failed SQL writes, 1 MongoDB fault | types; a RUNNING row has a thread or a clean-up to come; results complete, announcements true, gaps reported, completion final, but for a start-up that overtakes a run |
| `scan_history` | 2 minutes, 2 cron runs, 1 MongoDB fault, 1 kill or graceful shutdown, fairness | a slot is scanned once; RUNNING rows and, but for a kill, PENDING ones are settled |
| `scan_overlap` | violation, section 7 | |
| `stream_promise` | 2 runs, 2 readers, 2 events, the loop may close, fairness | no gap, no repetition, no foreign event; no dead queue is fed; implements `EventStream`, with its fairness while the loop is open |
| `stream_late` | violation, section 7 | |
| `paper` | accounts: 1 user, 2 requests, 2 tickers, 2 possible deposits, 3 trades, prices that do not divide; or sleeves: scanner and benchmark, 2 tickers, 2 prices, 3 days, 2 weeks, 1 kill, 1 fault, 1 marks job | conservation, rounding included; no lost fill, coherent answers; a week trades once; order log and positions are one book; only aged positions are sold, the benchmark never |
| `server_jobs` | refresh: 2 markets, 3 refreshes, 1 nightly job, 1 refused upsert; or follow-up: 3 entries, 2 workers, 2 failing statements, 1 deleted report; or scan: 3 tickers, 2 clients, 2 detectors, 2 failures of constructors or scores; or downloads: 3 of a model of 2 layers, 1 cancellation; fairness | the polled record is true; ranks, sessions and failures stay apart, a deletion costs its own report only; clients are exclusive and closed, evidence is a ticker's own, the best are returned; every job ends |
| `sop_isolation` | violation, section 7 | |
| `analysis_reports` | 2 waves (2 sections, then 1), 3 requests, faults, failed model requests and kills in five combinations | runs have the reports they claim; reports are whole and coherent; answers are stored; nothing stored is paid for twice |
| `user_requests` | jobs: one user with a config and a schedule, a preset, or two recipients; 2 cron expressions, 2 zones, 3 requests, 1 failure or restart; or panel: 2 configurations, 2 runs, and 2 mounts with a move or 2 moves | jobs follow rows, limits hold; one stream, results go with their run, a button on Running will be heard of or came too late, nothing stale unless left in flight |
| `strategies` | lab: 2 tickers, 4 dates, 2 prices, 3 strategies; or agents: 2 tickers, 3 days, 2 prices, 2 margins; or chat: 3 requests, 2 specifications; or evolution: baseline and 3 rounds, 2 deaths, 5 metrics | no overdraft, limits, no look-ahead, records agree; changes are told, accepted ones were in force, the model knows the edits; what is kept carries on, loss is bounded |
| `market_data` | limits: 2 threads, a bucket of 3 units, 2 per tick, 3 per request, a retry, 6 ticks; or quotes: 3 calls of 2 users, 2 tickers, capacity 2, time to live 1 of 2 ticks; or bars: 3 reads of 1 or 2 sessions, 3 ticks, 1 refusal, 1 correction | the ceiling on every stretch of time; answers fit, an older row only after a race; evidence is stored, stale only if overtaken |

Why the bounds are enough. What `scan_faults` asks is about a run and its own row, thread,
events and mail: it has one run, stopped twice and failing twice at *every* step, so a shutdown that
leaves the run finishing is followed by a start-up that lists it, by its completion, by
the mark, and by a kill or a failing write anywhere between them. The conflicts of two
runs of a config are in `scan_history` (two of the schedule) and `scan_overlap` (a
scheduled and a manual one); runs of different configs share nothing but the store's
lock. For any number of runs the theorems hold. `scan_faults` has a scan outcome for each of all, some and
none evaluated, `scan_history` all and none, `scan_overlap` all five. Two readers let one leave or join
while the other is served, on the same run or another. Two requests of one user are every lock conflict there is, users share
no rows. Three days with a hold window of one give positions that are sold,
kept over a week's end and bought again; two tickers give a split with a
remainder. The sleeves have two stories: all days with failures and kills,
and the last day with the daily job too; in the latter no earlier day's failure
matters, since both jobs read only what is committed. Three refreshes give a predecessor and a successor to the one that
fails. Of analyses, two waves have a checkpoint between them that can be lost
or late, two parallel sections can be half-written, and three requests are one
that fails, one that resumes or repeats it, and one that meets what both left;
two at once are every race for a cached section or a report. Three edits are two
that race and one that repairs or meets the result. Four dates let an order wait over a gap and be followed by another
one. Three days of two prices let a position be averaged, closed in part and
reversed. Three entries on two workers finish in another order than they
began; two failing statements are the one that aborts the session and one that
meets it. Three tickers on two clients use one client twice. Three calls, or
reads, are two that race and one that sees what they left, over a clock that
lets the first expire. Two threads compete for a bucket that holds one request,
over the time it takes to fill it and once more. Two deaths are one that leaves
half a line and one that meets it; three rounds are a kept one, one rolled back
and one that resumes. Three requests on a strategy are a question, an edit
during it and the proposal's acceptance. Two downloads of one model
share its entry, the third begins after one of them ended; downloads of
different models share nothing. Two moves are a click
and a switch, or a switch there and back; a panel that is opened again has one
of them. Symmetry is declared for requests, tickers, users, cron expressions and
configurations, in runs without liveness properties.

## 5. Fairness

`ScanRuns!FairSpec`: a live thread's next step happens (threads are scheduled,
database and network calls return or raise) and a server that is down is
started again (its service restarts it) and comes to the end of its start-up. No fairness for triggers, kills or
faults. `ScanBroadcaster!FairSpec`: callbacks of the loop run, a coroutine that
can go on is resumed, an abandoned generator is finalised, and a run's thread
reaches its `finally`; no client has to leave. `SnapshotRefresh!FairSpec`: a
refresh thread's calls return. `AutoSopBatch!FairSpec` and `ScanPool!FairSpec`:
pool threads and the caller go on, since requests and statements have time-outs.
`OllamaDownloads!FairSpec`: the server answers a pull in the end (with the end of
a layer, success or a failure) and the loop runs what is ready; a page need not
leave, and progress alone is not an answer. `MCServerJobs!JobSpec` has the
fairness of these four, each for the behaviours that are about it. Without these
the process simply stops. `RunsSettle` (`scan_history`), `KeepsPromise`
(`stream_promise`) and `JobsEnd` (`server_jobs`) are the liveness properties.

## 6. Proofs

TLAPS, for every value of the constants under the named assumption of each
module; the registry's and the panel's are `UserRequestsAssumption` of their composition
(the kinds of rows are disjoint and finite, bounds are natural numbers).

`ScanRunsProofs`. `TypeCorrect` (types), then `LifecycleHolds`: `LifecycleInv`
says, per run, what table, stream and mail look like in each phase of its
thread (`RunInv`). It is needed because no property is inductive alone: that
mail follows completion rests on the phase `email` being reached only through
`announce`, that on `warn` seeing a COMPLETE row or one `Overtaken`, that on what a
start-up may still mark: rows of runs that have begun, and, when nothing was drained, rows
that are RUNNING and that no thread will touch again (`StaleInv`, which needs that a stopped
server that was not drained has no call, `StoppedIsQuiet` of `CallInv`). A thread's step is shown to preserve its own run's part
(`ThreadKeepsRunOK`) and to leave the others' alone (`OtherRunsUntouched`).
From it follow `CompleteRunsHaveResults`, `MailNeedsCompletion`,
`GapsAlwaysReported` and, as an action property, `CompletionStays`, whose one
exception is the mark of a start-up that listed the run before it completed, after a
graceful shutdown.
`VerdictInv` is the part of the same kind about RUNNING rows, ERROR rows and the
closing event, behind `RunningRowsHaveThreads` and `AnnouncementsMatchRows`.

That a published slot is not scanned again (`SlotsScanOnce`) needs two more
invariants. `CallInv` (theorem `CallsKnowTheirConfig`): what a caller looked up is
about its own config and minute, also when it is left over from a shutdown, and a batch
that is being written belongs to the run that writes it. `SlotInv`, while MongoDB answers
and nothing is drained: a live cron scan holds the one instance of its config's job (`LiveScanHoldsJob`); the lookup, once
passed, stays true, since only that instance could publish the slot
(`SlotIsOpen`); and the scan a job is busy with is its config's newest
(`BusyWithNewest`), so the run whose batch is published is the last of its slot.
The proof needs that the key a request uses for its history (`sql-scan`) is no
config's; the assumption says so.

`ScanBroadcasterProofs`. One invariant carries everything (`Invariance`). What
has been announced is numbered by rank, the end being the rank after the last
event. `Due(s)` is the rank a subscriber has been scheduled up to, `Queued(s)` the
one its queue reaches, and `PipeInv` says that its pending callbacks climb from
the second to the first one by one (`Climbs`). `FeedInv` gives the thread's copy
of the list its meaning: who is on it is registered, live to that run, and owed one
item more. Types alone are not inductive: that a callback finds its queue
depends on `ListedWhileAlive`. From it follow `TypeCorrect`, `NothingIsMissed`,
`ListedExactlyWhileAlive` and the refinement, `ImplementsTheStream`: an event, the
end, joining and leaving are the steps of `EventStream` of the same kind, opening
a request, callbacks and scheduling are stutters. `EventStream`'s safety half is what
is proved; that readers are served in the end is checked by TLC.

`AnalysisRunsProofs`. `Inv` conjoins the invariants of the module's last
section. For what rows and answers say: requests arrive in line (`LineInv`), a run
that reused a report has no graph of its own (`ReuseInv`), and only the end of a
request names a report (`AnswerInv`). For what is written from what: the `Trail` of
a run are its checkpoints, stored, queued for writing, or stood upon by any
request that works on the run. An id names one checkpoint of the trail, and a
checkpoint at wave `w` holds exactly the sections before `w` (`TrailInv`); the
writes under it are sections of its wave, made from its sections (`WritesInv`);
a request's outputs likewise (`WaveInv`). It has to be said of the trail and not of
the store, because a second request can resume a run from an old checkpoint while
the first one's writes are still queued. Merging a whole wave's outputs gives the
next checkpoint (`MergeWhole`). For payment: while all is quiet one request works
at a time, what was paid for is cached, and what is being asked is not
(`QuietInv`). Theorems: `TypeCorrect`, `SettledRunsKeepReports`,
`ReportsAreCoherent`, `AnswersAreStored`, `AnswersArePaidOnce`, for any graph of at
least one wave, any number of requests and any history of failures and kills.

`SumFacts` holds lemmas about sums over finite sets. The library defines such a sum as a
fold that takes the elements in an order of its choosing, by a recursive function
that nobody has shown to exist. `SetInduction` is induction over the subsets of a
finite set as a first-order fact: strict inclusion of finite sets is well-founded
(`FS_StrictSubsetOrderingWellFounded`), so the set of the subsets that violate the claim, were it
not empty, would have a least one (`WFMin`). From it: the sums exist
(`SumsExist`), do not depend on the order (`SumRemove`), and grow, change, split
and are bounded as sums are (`SumAdd`, `SumChange`, `SumUnion`, `SumBounded`). The operators
that are reasoned about take a function and a set, not an operator.

`PaperProofs`, the users' accounts. The invariant is `IInv == TypeOK /\ LockInv /\
TradesExplainAccount` (with `Unopened`: a user without account has an empty
one). `LockInv` says that what a request holding the lock has read is what the
tables say; with it a fill computed from the copy is a fill of the table.
Bounds of the arithmetic are lemmas (`RoundingIsBounded`, `ReleasedIsBounded`:
rounding never releases more than the cost). A fill changes one position's cost
and the cash by amounts that cancel, realized gain included (`FillBalances`, with
`SumChange`), whatever `Released` rounded to; so `BooksBalance` is inductive, and
an answer, read from the locked tables, inherits it. Theorems: `NeverOverdrawn`,
`LockedReadsAreCurrent`, `TradesAlwaysExplainAccount`, `NeverReset`,
`BooksAlwaysBalance`, `AnswersAlwaysCoherent`.

`PaperProofs`, the sleeves (`Forward!`, the instance of `MCPaper`). `SleevesInv` adds to
types, `BookMatchesOrders`, `WeekTradesOnce` and `Solvent` what a run that is
about to trade knows (`TradeInv`): its cash and positions are still those of the
tables, no run of its week has traded, and its day is not in the future. A trade splits
the book in sold and kept lots and joins new ones for tickers that are not held (`SharesSplit`,
`SharesJoin`), so shares and orders stay equal per ticker; as many equal
shares of the cash as there are targets, rounded down (`ShareFits`), cost no more than
the cash (`SumBounded`), so it stays solvent, without which the next run's
`cash` would not be a number of whole units. Theorems: `SleevesTradeOnce`,
`SleevesBooksMatch`, `SleevesSellAgedOnly`, for any list of sleeves, finite set
of tickers, prices, hold window, calendar and number of faults and kills.

`ServerJobsProofs`, the snapshot refresh. `RefreshTypes` (types), `PolledStateIsTrue` and
`PolledOutcomeIsOwn`: the record and the threads are related by `RecordInv`,
which adds that all threads up to `started` have begun, all but the last are
done, and what the record holds in each phase of the last one.
`LaterRefreshAlwaysWins` follows: only the last refresh writes.

`ServerJobsProofs`, the follow-up of a scan (`Sop!`, the instance of `MCServerJobs`).
`SopInv` says where each of the three lists comes from: what is listed is of lower
rank than the turn (`ListInv`), the bundle is picked from the list from its front up
to the query that is due (`BundleInv`), the mails are a prefix of the bundle
(`MailInv`); their order is then the order of the ranks, and no report is listed twice.
`PoolInv`: once the session is in use the pool has answered for every entry, and a turn
is only taken by an entry that was analysed. `FateInv` speaks of the time
while no statement has failed and no report was deleted: an entry is untouched until its
turn, then listed or not rendered. That a failed statement
ends that time for good (`FaultsAreTrouble`) is what makes it inductive. `WholeInv` is about any time:
up to the query that is due, what is listed is in the bundle or deleted, and deleted is for good. The steps of a
turn share two lemmas, `SopSkipStep` for those that end it without a report and
`InsideTurn` for the others. Theorems: `FollowUpsAreSound`, and
`SurvivorsReachTheMails`: a deletion only ever takes its own report out (`WholeInv`, and `MailInv`
for the mails).

`StrategyProofs`, the lab's simulation. `IInv` conjoins types, limits, `LookupsSucceed`,
`SignalsAreOfLastBar` and `PartInv`, what holds in each part of the loop's
body: after the exits no exit is pending for a ticker that trades; while signals
are taken nothing is pending for a ticker whose turn has not come, and the
others have closed today's bar. Without it neither half of `PendingIsSound` is inductive: that
a ticker waiting to enter is not held rests on the order of the three loops.
That a fill is affordable is a lemma of integer division (a price is at least
one unit). Theorems: `LabTypes`, `LimitsAlwaysHold`, `PendingStaysSound`, for
any tickers, prices, strategies, gaps and signals. `TradesAlwaysExplainCash`: an exit
turns what the position cost into cash and pnl (`FillExitExplains`), an entry cash into
cost (`FillEntryExplains`); that the sum over the held tickers gains or loses just one
summand needs `IInv`, too: an exit is of a held ticker, an entry of one that is not.

`StrategyProofs`, the agents' portfolio (`Book!`). `BookInv` is types with shares and margins
that are natural numbers, and `MarginMatchesShorts`; each of the four trades has one lemma
(`BuyStep`, `SellStep`, `ShortStep`, `CoverStep`), which says what becomes of the position
and of the sums. The arithmetic is of their quotients: a buy costs at most the cash,
the margin of a short sale at most what secures it (`ShortIsSecured`), and a cover
releases at most the position's margin, all of it with its last share (`ReleasedIsShare`).
Theorems: `OnlyCoversEverOverdraw`, `MarginAlwaysMatches`, and
`RecordsAlwaysAgree` under `AveragesAreExact`: a position that grows costs what was paid,
or received, for it. The code averages floats, the model whole units rounded down, which
lose part of a unit when the average is not whole; without the hypothesis the books are out
by that. Sells, covers and the margin need no hypothesis. In the instance of `MCStrategies`
every step satisfies it: its prices are chosen for that.

`StrategyProofs`, the chat of a lab strategy (`Lab!`). `AllUnderway` says what each request
on its way has done: a change that is to be told is among the edits under the number the
request carries, the proposal it applies is still in the chat with the specification it
writes, and what the model was asked about includes every edit told before the question.
That is the strengthening: `ChangesAreTold` needs that the message written is of the edit
made, `ProposalsKnowEdits` that a prompt is read after its question was stored. A deletion
empties the chat under the requests: what is said of messages holds while the strategy is there.
`OneChange` says that, until changes overlap, the one under way knows the current version;
`SequentialChangesCount` alone is not inductive. Theorem: `ChatAlwaysTells`.

`StrategyProofs`, the rounds that evolve the scanner's configuration (`Evolve!`). The files
are what survives a death, the memory is what decides, so the invariant relates the two:
`MemoryInv` says that the running best of an invocation is what the versions say was kept,
and `DraftInv` what that means for the record about to be written; `RestoredIsBest`, that
`_resume_state` finds just that, is where the resume is proved. `FilesInv` puts the round
that is worked on after all files that are there, half ones included, which is why no
version is written twice. `LossIsBounded` is not inductive: `TightLoss` takes off what the
end of the log has yet to lose, one round for half a line, two for a line without its
newline. Theorem: `EvolutionAlwaysResumes`, for any scores, tolerance, and number of rounds
and deaths.

`MarketDataProofs`, the limits. What the bucket holds and when it was filled
(`BucketInv`: for every tick `a`, the grants since `a` and what is left do not
exceed a full bucket and the refill up to its last filling) is inductive, the
ceiling alone is not. `AttemptInv` keeps the retries within their number.
Theorems: `RateTypes`, `CeilingAlwaysHolds`, for any number of threads and any
capacity, rate and cost.

`MarketDataProofs`, the live quotes (`Quotes!`). That a user gets no older quote is about
all who hold a row of one key, so the invariant orders them (`RaceFree`): while a key was
never asked for twice at once, at most one row is in hand, it is as new as the one in the
cache, and both are as new as every row any call of that user has got or will compare with.
An entry that is dropped takes its part of the order with it, and the next row is asked for
later than all. `OthersStay` and `EntriesStored` are about the cache as a sequence: taking out
a key, appending and cutting the front keep it free of doubles and in the order of expiry.
Theorem: `QuotesAlwaysOwn`, for any calls, users, lists, capacity and time to live. The bound
of the pool is part of `Take`, and nothing here rests on it.

`MarketDataProofs`, the stored bars (`Market!`). `TruthInv` says when the provider last had a
content; `StoredInv` that every snapshot and every revision was true at its time or later;
`SyncedInv` that a complete synchronisation says so of the latest revision of each session,
unless a later response had been stored before (`overtaken`), which is where the property needs
the snapshots too. `ReadOf` follows a call: what it has was true when it began, and what it
serves is stored. Every step but a call's own only adds documents (`StoreGrows`), so a call
that does not move stays where it is (`ReadStays`), and a save that fails half-way is the same
lemma as one that succeeds (`ResponseStored`). Theorem: `BarsAlwaysStored`, for any sessions,
ranges, contents and time to live, whatever the store refuses and the provider corrects.

`ServerJobsProofs`, the worker pool (`Pool!`). `ClientsInv`: a client is in the queue or with one
thread, and open until the scan is over. `EvidenceInv` is about a client's log, which goes on from one
ticker to the next: from the place a thread noted when it took the client, the log holds its own
ticker's reads, and nothing after them, which rests on the client being with one thread alone.
`CountsInv` ties the counts to the results collected. `ResultInv` says that what is returned is
`Best`; that this is the best of what was scored is the lemmas about the sort: `Before` is a strict
total order of the hits, so their places are the numbers from 1 to how many there are, each taken once. Theorem:
`ScansStayWhole`, for any universe, number of workers, detectors, scores and failures.

`ScanRunsProofs`, the registry (`Registry!`). That jobs follow rows is a promise about the time after
a request; `RegInv` says what a request on its way owes. While it works on its rows alone, what
it has read is what the tables say (`RegTrue`), and a job of its rows is as the row asks, or the row is
still on its list, or was out of step before and is not one the request puts right (`RegDone`). Two requests with a row
in common are not alone, either of them (`RegOwn`), and end with their rows among the
`unsynced`. `RegRoom` is behind the limit: while no two rows were added at once, a request that has
counted and not yet inserted is the only one, and there is still room. Theorem: `JobsStayTrue`.

`ScanRunsProofs`, the panel (`Panel!`). What is shown comes from answers to requests of several
ages, so `PanInv` speaks of each of them: as long as nothing was in flight when the user turned
away, a stream, a fetch or a click of the mounted instance is of the selection (`PanWork`); the run the
selection's own request holds is one of its configuration in any case (`PanAsk`). `PanView` keeps
entries with their run; `PanShow` is `ShownUnlessLeft` once more, of the parts; `PanFollowed` is a part of
`RunningIsFollowed`: the button is never left to the selection's request alone. The rest is that a stream that
does not get the end of its run is one opened after it (`PanStream`), since a run that is over stays so (`PanGrows`). What belongs to an instance that is gone
cannot change what is shown, and of it only `OneStream` speaks. Theorems:
`PanelStaysCoherent`, and `RequestsLeaveOrder` for the composition that the run checks.

Every safety invariant and action property that a passing run checks is stated by a theorem.
Proved but checked by no run of its own: `LifecycleInv`, `MailFollowsComplete`,
`CallInv`, `LockInv`, `AccountsAreNotReset`, and the types of `SnapshotRefresh`,
`LabSimulation`, `RateLimit`, `ScanBroadcaster` and `AnalysisRuns`.

Only model-checked: the liveness properties `RunsSettle` and `JobsEnd`, and the liveness half of
`KeepsPromise`, which are out of the prover's reach. `OllamaDownloads` has no other property than
`EntriesGo`, a part of `JobsEnd`, so nothing of it is proved.

## 7. Disagreements found

Three have a run that must find a violation; `PROJECT.json` ("findings") quotes
the sentence.

* `scan_overlap`: the guard looks for RUNNING rows, a new run is PENDING first:
  cron and manual run of one config can be in flight together.
* `stream_late`: a reader that subscribes to a finished run waits for ever.
* `sop_isolation`: a report that cannot be stored takes the rest of the batch with
  it, as the session is used again without a rollback.

Others were met and have no run of their own; the model has the steps.

* A week whose run placed no order has left no trace of it and is not recognised as
  done by a second run (`AlreadyRan`); `WeekTradesOnce` is about runs that traded.
* A slow read of bars stores its older answer as the newest revision, which a later
  read's synchronisation then confirms beyond its time (`Save`, `Confirmed`;
  hence `overtaken` in `StaleOnlyIfOvertaken`).
* The configuration that is scored on the test sample is looked up in the log
  (`BestConfig`): a kept version whose line was lost in a crash is what later
  rounds build on and is not the one that is scored.
* Two changes of a lab strategy that overlap get the same version (`Updated`);
  `SequentialChangesCount` is about those that do not.
* The first complete layer of a model is reported as the whole model, and reading
  stops (`LayerComplete`); a cancelled download goes on and writes its entry again
  (`Cancel`).
* A run started, or a stream left open, before a switch of configurations takes
  the panel over (`ShownUnlessLeft` excepts it), and the progress of a run stays
  after its stream has broken off.
* `run_once` gives one session to all sleeves and catches a sleeve's exception
  without a rollback (`src/paper_trading/run.py:263`): after a failed statement
  the later sleeves fail too (`Fails`, `Refused`), where `run.py:173-174` says
  "One sleeve raising is logged and skipped so the others still run."
  `mark_all` does the same to the day's marks.
* A mark reads orders and positions in two statements (`marks.py:110-113`); a
  weekly run that commits between them, five minutes before the daily job is
  due, yields the cash before and the positions after it. No property is about the marks:
  a report reads them, no decision does.
* The status of an analysis is read off the breaker after the save
  (`sop_orchestrator.py:434`): a request without a ticket stores nothing and
  still says `ready` once the store serves again (`EphemeralEnds`), where
  `docs/design/mongodb-market-data-erd.md:3` asks that a failed save be reported
  as not saved.
* A create or an edit that is still registering its job when the row is deleted
  leaves a job without a row until the next restart; a job's body finds no row
  and does nothing. `routes/report_schedules.py:5-6` says every mutation
  (un)registers the job "so changes take effect without a restart"
  (`Delete`, `Forget`, `AddJob`; `JobsFollowRows` is stated for rows that were
  worked on by one request at a time).
* A config that is disabled while its job starts still scans: `_begin` does not
  look at `is_enabled`. Report and preset jobs read their row again.
* The nightly snapshot job does not take the refresh lock that
  `snapshot_refresh.py:9-11` says a click racing the cron meets, and, on
  PostgreSQL, an upsert refused for one market aborts the transaction its
  session uses for the next (`NightUpsert` models both).
* The start-up marks every row it read as RUNNING, whatever the row says by then
  (`main.py:142-145`, `scanner_repository.py:207-216`). A scan left finishing by a graceful
  shutdown, which `scheduler_service.py:175` intends ("`wait=False` lets long scans finish
  detached"), is marked interrupted while it works, and, if it completes between the read and
  the mark, its row says ERROR and its warning is gone although its completion was announced
  and its mail is sent (`Drain`, `ListRunning`, `MarkInterrupted`). The comment at
  `main.py:138-139` has it that only interrupted scans are marked. `Overtaken` is this case, and
  `CompletionIsFinal`, `AnnouncementsAreTrue`, `GapsAreReported` and `MailFollowsComplete` except it and no other.
* The panel asks for the latest run, is told RUNNING, and subscribes after the run's last
  event (`scanner-panel.tsx:207-215`): the stream tells nothing and does not end, so the button
  stays on "Running..." without an error, where `:198-201` says the panel resubscribes to live progress. The same after
  runNow answers with a run under way that has ended since, but for the button (`TooLate`, which
  `RunningIsFollowed` excepts; the server's side is `stream_late`).
* A failed write of an ERROR row is swallowed (`scanner_service.py:437`): subscribers hear the
  error, the row stays as it was (`MarkError`; `AnnouncementsAreTrue` and `RunningHasThread`
  say so). A row whose insert committed and could not be read again stays PENDING (`InsertFails`).
* Two fetches of one quote may store their answers in the other order (`live_quotes.py:181`); the older one is
  then served until it expires (`raced`).
* A run that is PENDING when the panel is mounted is shown as the empty state and
  not followed (`AttachNothing`).
* The Finnhub client's docstring (`finnhub_client.py:4-5`) and its bucket (`:98`)
  name different allowances; `RateLimit` is stated for any.
* The agents' allowed actions are computed for the prompt and not enforced
  afterwards, and the reported value of a portfolio leaves its margin out
  (`src/backtesting/valuation.py`); `BacktestBook` states the account's
  conservation with the margin in it.

## 8. Not modelled

Listed with reasons under "components" in `PROJECT.json`: detectors and
event studies (numerical, offline), LLM agents and the research
SOP's prompts (external behaviour), data adapters (I/O), sign-in and keys,
single-row CRUD routes, rendering, all panels of the client but one, scripts. These are most of the
repository's lines, so the modules cover a small share of it: the share that
keeps state under concurrency and failure, and two of the simulators.
Each persona of `src/agents` is a prompt and a scoring of figures, each chart a
drawing: of the longest files none keeps state from one call to the next.
Of modelled parts: the read API of the history, serialisation of checkpoints (a NaN in a payload),
the metrics of both backtests, a cached section's expiry.

## 9. Plan

1. The body of a report schedule; the A-share providers and the treatment of the
   running day's bar in the caching client; the offline workflow backtest.
2. `ScanPool` shown to implement the outcomes `Scan` of `ScanRuns` allows, and the
   MongoDB store of `AnalysisRuns` those of its history.
3. The client's watchlist tab and the polling of its screener tab.
4. Proofs: that `Scan` of `ScanRuns` allows every outcome of `ScanPool`, once item 2 states it.
