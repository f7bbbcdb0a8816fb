------------------------------- MODULE ScanPool -------------------------------
(***************************************************************************)
(* The scanner engine, run_scan (v2/scanner/runner.py): one data client    *)
(* per worker thread in a queue, every ticker scanned by a thread that     *)
(* checks a client out, results collected in the order of completion,      *)
(* ranked and handed to the caller.  This is the step Scan of ScanRuns.    *)
(*                                                                         *)
(* A client keeps a list of all it has read (CachedDataClient.evidence);   *)
(* what a ticker read is the part of the list that grew meanwhile.         *)
(***************************************************************************)
EXTENDS Naturals, Sequences, FiniteSets, SequencesExt

CONSTANTS
    Universe,       \* the tickers, in order, without repetition
    MaxWorkers,     \* max_workers
    Detectors,      \* how many detectors are enabled
    Findings,       \* what a detector may end with, and the documents it reads for it
    Scores,         \* composite scores
    TopN,           \* top_n
    ProgressEvery,  \* progress_every
    MaxFailures     \* clients that cannot be built and scores that cannot be computed

ScanPoolAssumption ==
    /\ Universe \in Seq(ToSet(Universe)) /\ IsInjective(Universe)
    /\ MaxWorkers \in Nat /\ TopN \in Nat /\ Detectors \in Nat
    /\ ProgressEvery \in Nat \ {0}
    /\ Findings \subseteq {"triggered", "no_event", "no_data", "error"} \X (0..1)
    /\ Scores \subseteq Nat \ {0}

VARIABLES
    stage,      \* where the calling thread is
    clients,    \* every client built: [open, evidence]
    queue,      \* fd_pool
    tasks,      \* ticker -> _scan_one_ticker on its thread
    collected,  \* tickers in the order their futures were collected
    counts,     \* [processed, triggered, skipped, errors]
    told,       \* processed, as progress_cb last heard it
    top,        \* the entries returned, best first
    failures    \* failures so far

vars == <<stage, clients, queue, tasks, collected, counts, told, top, failures>>

Tickers == ToSet(Universe)
Total == Len(Universe)
Benchmark == "benchmark"
NoEntry == 0

Waiting == [pc |-> "waiting"]

Init ==
    /\ stage = IF Total = 0 THEN "returned" ELSE "build"
    /\ clients = <<>> /\ queue = <<>>
    /\ tasks = [t \in Tickers |-> Waiting]
    /\ collected = <<>>
    /\ counts = [processed |-> 0, triggered |-> 0, skipped |-> 0, errors |-> 0]
    /\ told = 0 /\ top = <<>> /\ failures = 0

-----------------------------------------------------------------------------
\* The clients and the benchmark.

Smaller(a, b) == IF a <= b THEN a ELSE b
WorkerCount == IF Smaller(MaxWorkers, Total) = 0 THEN 1 ELSE Smaller(MaxWorkers, Total)

Fails == failures < MaxFailures /\ failures' = failures + 1

\* provider_factory for one more client; if it throws, the scan does.
Build ==
    /\ stage = "build"
    /\ \/ /\ Len(clients) < WorkerCount
          /\ clients' = Append(clients, [open |-> TRUE, evidence |-> <<>>])
          /\ queue' = Append(queue, Len(clients) + 1)
          /\ UNCHANGED <<stage, failures>>
       \/ /\ Len(clients) < WorkerCount
          /\ Fails
          /\ stage' = "raise"
          /\ UNCHANGED <<clients, queue>>
       \/ /\ Len(clients) = WorkerCount
          /\ stage' = "benchmark"
          /\ UNCHANGED <<clients, queue, failures>>
    /\ UNCHANGED <<tasks, collected, counts, told, top>>

\* The benchmark's prices, read once with the first client; without them the scan goes on.
FetchBenchmark ==
    /\ stage = "benchmark"
    /\ \/ clients' = [clients EXCEPT ![1].evidence = Append(@, Benchmark)]
       \/ UNCHANGED clients
    /\ stage' = "scan"
    /\ UNCHANGED <<queue, tasks, collected, counts, told, top, failures>>

-----------------------------------------------------------------------------
\* The threads of the pool.

Started == {t \in Tickers : tasks[t].pc = "scanning"}

\* fd_pool.get()
CheckedOut == Tail(queue)

\* A free thread starts the next ticker submitted and takes a client.
Take(t) ==
    /\ stage = "scan" /\ tasks[t] = Waiting
    /\ \A i \in DOMAIN Universe : Universe[i] = t => \A j \in 1..(i - 1) : tasks[Universe[j]] # Waiting
    /\ Cardinality(Started) < WorkerCount
    /\ queue # <<>>
    /\ tasks' = [tasks EXCEPT ![t] = [pc |-> "scanning", client |-> Head(queue),
                                      start |-> Len(clients[Head(queue)].evidence), results |-> <<>>, reads |-> 0]]
    /\ queue' = CheckedOut
    /\ UNCHANGED <<stage, clients, collected, counts, told, top, failures>>

\* One detector; its failure is a result like others.
Detect(t) ==
    /\ t \in Started /\ Len(tasks[t].results) < Detectors
    /\ \E finding \in Findings :
         /\ tasks' = [tasks EXCEPT ![t].results = Append(@, finding[1]), ![t].reads = @ + finding[2]]
         /\ clients' = IF finding[2] = 0 THEN clients
                       ELSE [clients EXCEPT ![tasks[t].client].evidence = Append(@, t)]
    /\ UNCHANGED <<stage, queue, collected, counts, told, top, failures>>

\* One detector that had data makes the ticker evaluated.
Outcome(results) ==
    IF ToSet(results) \cap {"triggered", "no_event"} # {} THEN "evaluated"
    ELSE IF "error" \in ToSet(results) THEN "error" ELSE "no_data"

\* Mutant of Slice: all the client has read.
SliceAll(task) == clients[task.client].evidence

\* evidence[evidence_start:]
Slice(task) == SubSeq(clients[task.client].evidence, task.start + 1, Len(clients[task.client].evidence))

Scored(t, score) ==
    /\ tasks' = [tasks EXCEPT ![t] =
         [pc |-> "done", raised |-> FALSE, outcome |-> Outcome(@.results), entry |-> score,
          evidence |-> Slice(@), reads |-> @.reads]]
    /\ UNCHANGED failures

\* compute_composite raises: no outcome, the future carries the exception.
Raised(t) ==
    /\ Fails
    /\ tasks' = [tasks EXCEPT ![t] =
         [pc |-> "done", raised |-> TRUE, outcome |-> "error", entry |-> NoEntry,
          evidence |-> <<>>, reads |-> 0]]

\* A ticker with a triggered event gets a composite score; the client goes back, whatever happens.
Finish(t) ==
    /\ t \in Started /\ Len(tasks[t].results) = Detectors
    /\ IF "triggered" \in ToSet(tasks[t].results)
       THEN (\E score \in Scores : Scored(t, score)) \/ Raised(t)
       ELSE Scored(t, NoEntry)
    /\ queue' = Append(queue, tasks[t].client)
    /\ UNCHANGED <<stage, clients, collected, counts, told, top>>

-----------------------------------------------------------------------------
\* The calling thread.

\* as_completed: one future, its counts, and progress at every ProgressEvery tickers.
Collect(t) ==
    /\ stage = "scan" /\ tasks[t].pc = "done" /\ t \notin ToSet(collected)
    /\ collected' = Append(collected, t)
    /\ LET hit == IF tasks[t].entry # NoEntry THEN 1 ELSE 0
       IN  counts' = [processed |-> counts.processed + 1, triggered |-> counts.triggered + hit,
                      skipped |-> counts.skipped + 1 - hit,
                      errors |-> counts.errors + IF tasks[t].raised THEN 1 ELSE 0]
    /\ told' = IF counts'.processed % ProgressEvery = 0 THEN counts'.processed ELSE told
    /\ UNCHANGED <<stage, clients, queue, tasks, top, failures>>

LastProgress == counts.processed

\* The results with an entry, by the place in which they were collected.
Hits == {i \in DOMAIN collected : tasks[collected[i]].entry # NoEntry}
Entry(i) == tasks[collected[i]].entry

\* scored.sort: by score, equal ones in the order they came.
Before(i, j) == Entry(i) > Entry(j) \/ (Entry(i) = Entry(j) /\ i < j)
Place(j) == 1 + Cardinality({i \in Hits : Before(i, j)})

\* The first top_n.
Best == [p \in 1..Smaller(TopN, Cardinality(Hits)) |-> collected[CHOOSE j \in Hits : Place(j) = p]]

Rank ==
    /\ stage = "scan" /\ Len(collected) = Total
    /\ told' = LastProgress
    /\ top' = Best
    /\ stage' = "report"
    /\ UNCHANGED <<clients, queue, tasks, collected, counts, failures>>

\* outcome_cb for every ticker, and the finally clause that closes the clients.
Return ==
    /\ stage = "report"
    /\ clients' = [i \in DOMAIN clients |-> [clients[i] EXCEPT !.open = FALSE]]
    /\ stage' = "returned"
    /\ UNCHANGED <<queue, tasks, collected, counts, told, top, failures>>

Raise ==
    /\ stage = "raise"
    /\ clients' = [i \in DOMAIN clients |-> [clients[i] EXCEPT !.open = FALSE]]
    /\ stage' = "raised"
    /\ UNCHANGED <<queue, tasks, collected, counts, told, top, failures>>

Caller == Build \/ FetchBenchmark \/ (\E t \in Tickers : Collect(t)) \/ Rank \/ Return \/ Raise
Thread == \E t \in Tickers : Take(t) \/ Detect(t) \/ Finish(t)
Next == Caller \/ Thread

Spec == Init /\ [][Next]_vars
\* Detectors end: every request of a client has a time-out.
FairSpec == Spec /\ WF_vars(Caller) /\ WF_vars(Thread)

-----------------------------------------------------------------------------
Over == stage \in {"returned", "raised"}
Scanned == stage \in {"report", "returned"} /\ Total > 0

\* A client is in the queue once or with one thread, never both: requests.Session is not
\* thread-safe (runner.py:8-11), and an open client is all a thread ever holds.
TypeOK ==
    /\ stage \in {"build", "benchmark", "scan", "report", "returned", "raise", "raised"}
    /\ IsInjective(queue) /\ ToSet(queue) \subseteq DOMAIN clients
    /\ \A t \in Started : tasks[t].client \notin ToSet(queue) /\ clients[tasks[t].client].open
    /\ \A t, u \in Started : t # u => tasks[t].client # tasks[u].client
    /\ told <= counts.processed

\* The evidence of a ticker is what its own detectors read, all of it: neither the
\* benchmark's nor that of a ticker its client served before.
EvidenceIsOwn ==
    \A t \in Tickers : tasks[t].pc = "done" =>
        tasks[t].evidence = [i \in 1..tasks[t].reads |-> t]

\* Every ticker is counted once, and what is returned is the best of what was scored.
BestAreReturned ==
    Scanned =>
        /\ IsInjective(collected) /\ ToSet(collected) = Tickers
        /\ counts.triggered + counts.skipped = Total
        /\ counts.triggered = Cardinality({t \in Tickers : tasks[t].entry # NoEntry})
        /\ counts.errors = Cardinality({t \in Tickers : tasks[t].raised})
        /\ Len(top) = Smaller(TopN, counts.triggered)
        /\ \A i, j \in DOMAIN top : i < j => tasks[top[i]].entry >= tasks[top[j]].entry
        /\ \A t \in Tickers \ ToSet(top), s \in ToSet(top) : tasks[t].entry <= tasks[s].entry

\* A scored ticker was evaluated, so that a scan with a result is never refused as one
\* that evaluated nothing (scanner_service.py:283-285; ScanOutcomes of ScanRuns).
ScoredWasEvaluated ==
    \A t \in Tickers : tasks[t].pc = "done" /\ tasks[t].entry # NoEntry => tasks[t].outcome = "evaluated"

\* The last progress a listener hears is that of the whole universe.
ProgressEndsFull == Scanned => told = Total

\* Whatever becomes of the scan, every client it built is closed.
ClientsAreClosed == Over => \A i \in DOMAIN clients : ~clients[i].open

\* The scan returns or raises: no ticker waits for a client for ever.
ScanEnds == <>Over
=============================================================================
