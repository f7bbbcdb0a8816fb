------------------------------ MODULE AnalysisRuns ------------------------------
(***************************************************************************)
(* Research reports with durable runs: the graph of sections               *)
(* (src/research/sop_orchestrator.py), its checkpoints                     *)
(* (src/storage/checkpoint.py), the runs, reports and cached sections of   *)
(* one user and one input (src/storage/analysis.py), and the circuit       *)
(* breaker that every one of these operations passes (src/storage/mongo.py).*)
(* The breaker's lock makes an operation atomic among the requests; a      *)
(* failure may still fall between two statements of it.                    *)
(***************************************************************************)
EXTENDS Naturals, Sequences, FiniteSets

CONSTANTS
    Waves,        \* the supersteps of the graph, each a set of sections
    MaxRequests,  \* requests the users make at most
    Budgets       \* what may happen to them: operations the database fails, model requests
                  \* that fail, kills of the server, requests made and under way at once

Sections == UNION {Waves[w] : w \in DOMAIN Waves}

ASSUME AnalysisRunsAssumption ==
    /\ Waves \in Seq(SUBSET Sections) /\ Waves # <<>>
    /\ \A v, w \in DOMAIN Waves : v # w => Waves[v] \cap Waves[w] = {}
    /\ MaxRequests \in Nat
    /\ Budgets \subseteq [faults : Nat, skips : Nat, crashes : Nat, made : 0..MaxRequests, live : Nat]

VARIABLES
    reqs,     \* the requests, in the order they were made
    runs,     \* analysis_runs, named by the request that started them
    reports,  \* reports, named by their run
    thread,   \* langgraph_checkpoints and langgraph_writes of each run
    cache,    \* llm_cache
    store,    \* the circuit breaker
    env,      \* what is left of the budget
    past      \* history: a fault, an overlap of requests, and before those the answers paid for

vars == <<reqs, runs, reports, thread, cache, store, env, past>>

Requests == 1..MaxRequests
NoRun == 0                        \* a request without a ticket
Statuses == {"running", "succeeded", "partial", "failed"}
Stages == {"todo", "calling", "kept", "done"}

WaveOf(s) == CHOOSE w \in DOMAIN Waves : s \in Waves[w]
LastWave == Len(Waves)
Live == {p \in Requests : reqs[p].pc \notin {"none", "done", "dead"}}

\* A section's payload: who asked the model, whether it answered, and the payloads it
\* was given (SectionContext.prior).
Payload(s, p, skipped, prior) == [sec |-> s, by |-> p, skipped |-> skipped, prior |-> prior]

\* The outcome a report is stored under.
Outcome(secs) == IF \E x \in secs : x.skipped THEN "partial" ELSE "succeeded"

NoRequest == [pc |-> "none", run |-> NoRun, force |-> FALSE, wave |-> 0, secs |-> {}, outs |-> {},
              stage |-> [s \in Sections |-> "todo"], cp |-> 0, queue |-> <<>>, report |-> NoRun,
              said |-> "none"]
NoThread == [cps |-> {}, writes |-> {}, ids |-> 0]

Init ==
    /\ reqs = [p \in Requests |-> NoRequest]
    /\ runs = [r \in Requests |-> [status |-> "none", from |-> NoRun]]
    /\ reports = [r \in Requests |-> [outcome |-> "none", secs |-> {}]]
    /\ thread = [r \in Requests |-> NoThread]
    /\ cache = {}
    /\ store = [refusing |-> FALSE, status |-> "ready"]
    /\ env \in Budgets
    /\ past = [quiet |-> TRUE, paid |-> {}]

-----------------------------------------------------------------------------
NoLongerQuiet == [quiet |-> FALSE, paid |-> {}]

\* MongoStore.execute: an operation is served, refused while the breaker is open, or
\* fails and opens it.

Served == ~store.refusing /\ store' = [store EXCEPT !.status = "ready"]
Refused == store.refusing /\ UNCHANGED store
Opens == ~store.refusing /\ store' = [refusing |-> TRUE, status |-> "unavailable"]
Fault ==
    /\ env.faults > 0
    /\ env' = [env EXCEPT !.faults = @ - 1]
    /\ past' = NoLongerQuiet

\* An operation that leaves no trace: refused, or failed before its first statement.
Unserved == (Refused /\ UNCHANGED <<env, past>>) \/ (Opens /\ Fault)

\* Thirty seconds later.
Reopen ==
    /\ store.refusing
    /\ store' = [store EXCEPT !.refusing = FALSE]
    /\ UNCHANGED <<reqs, runs, reports, thread, cache, env, past>>

-----------------------------------------------------------------------------
\* A request.

\* The next request in line, and whether another one is under way.
Arrives(p) ==
    /\ reqs[p].pc = "none" /\ p <= env.made
    /\ \A q \in 1..(p - 1) : reqs[q].pc # "none"
    /\ Cardinality(Live) < env.live
Noted == IF Live = {} THEN past ELSE NoLongerQuiet

\* Mutant of Reusable: partial reports too.
ReusablePartial(r) == reports[r].outcome # "none"

\* start: the report an earlier run of this input succeeded with.
Reusable(r) == reports[r].outcome = "succeeded"

\* The state of a new graph: the first wave, its checkpoint still to be written.
Graph(p, force) ==
    [NoRequest EXCEPT !.pc = "wave", !.run = p, !.force = force, !.wave = 1, !.cp = 1,
                      !.queue = <<[id |-> 1, wave |-> 1, secs |-> {}]>>]

\* AnalysisHistory.start, served: the run is recorded, and a report that may be reused
\* answers the request.
Start(p, force) ==
    /\ Arrives(p)
    /\ Served
    /\ past' = Noted
    /\ \/ \E r \in Requests :
            /\ ~force /\ Reusable(r)
            /\ runs' = [runs EXCEPT ![p] = [status |-> "succeeded", from |-> r]]
            /\ reqs' = [reqs EXCEPT ![p] = [NoRequest EXCEPT !.pc = "done", !.run = p, !.report = r,
                                              !.secs = reports[r].secs, !.said = "ready"]]
            /\ UNCHANGED thread
       \/ /\ force \/ \A r \in Requests : ~Reusable(r)
          /\ runs' = [runs EXCEPT ![p].status = "running"]
          /\ reqs' = [reqs EXCEPT ![p] = Graph(p, force)]
          /\ thread' = [thread EXCEPT ![p].ids = 1]
    /\ UNCHANGED <<reports, cache, env>>

\* ... not served: the analysis goes on without a ticket; a failure after the insert
\* leaves a run that nobody works on.
StartUnserved(p, force) ==
    /\ Arrives(p)
    /\ reqs' = [reqs EXCEPT ![p] = [NoRequest EXCEPT !.pc = "ephemeral", !.force = force]]
    /\ \/ /\ Refused
          /\ past' = Noted
          /\ UNCHANGED <<runs, env>>
       \/ /\ Opens /\ Fault
          /\ \/ UNCHANGED runs
             \/ /\ force \/ \A r \in Requests : ~Reusable(r)
                /\ runs' = [runs EXCEPT ![p].status = "running"]
    /\ UNCHANGED <<reports, thread, cache>>

\* A graph without a ticket caches no section, and its checkpoints go to a thread that no
\* run names: of its operations only the breaker keeps a trace.
EphemeralStep(p) ==
    /\ reqs[p].pc = "ephemeral"
    /\ \/ Served /\ UNCHANGED <<env, past>>
       \/ Unserved
    /\ UNCHANGED <<reqs, runs, reports, thread, cache>>

\* save, without a ticket, stores nothing; the status is read off the breaker.
EphemeralEnds(p) ==
    /\ reqs[p].pc = "ephemeral"
    /\ reqs' = [reqs EXCEPT ![p].pc = "done", ![p].said = store.status]
    /\ UNCHANGED <<runs, reports, thread, cache, store, env, past>>

\* AnalysisHistory.resume, served: a stored report answers; a run without one is running
\* again, whatever it was.
Resume(p, r) ==
    /\ Arrives(p)
    /\ runs[r].status # "none"
    /\ Served
    /\ past' = Noted
    /\ \/ /\ reports[r].outcome # "none"
          /\ reqs' = [reqs EXCEPT ![p] = [NoRequest EXCEPT !.pc = "done", !.run = r, !.report = r,
                                            !.secs = reports[r].secs, !.said = "ready"]]
          /\ UNCHANGED runs
       \/ /\ reports[r].outcome = "none"
          /\ reqs' = [reqs EXCEPT ![p] = [NoRequest EXCEPT !.pc = "load", !.run = r]]
          /\ runs' = [runs EXCEPT ![r].status = "running"]
    /\ UNCHANGED <<reports, thread, cache, env>>

\* ... not served: the request ends with "Checkpoint storage is unavailable".
ResumeUnserved(p, r) ==
    /\ Arrives(p)
    /\ runs[r].status # "none"
    /\ reqs' = [reqs EXCEPT ![p] = [NoRequest EXCEPT !.pc = "done", !.run = r]]
    /\ \/ Refused /\ past' = Noted /\ UNCHANGED env
       \/ Opens /\ Fault
    /\ UNCHANGED <<runs, reports, thread, cache>>

\* The first look for a checkpoint: without one the request ends, and the run stays
\* running.
Load(p) ==
    /\ reqs[p].pc = "load"
    /\ \/ /\ Served
          /\ reqs' = [reqs EXCEPT ![p].pc = IF thread[reqs[p].run].cps = {} THEN "done" ELSE "invoke"]
          /\ UNCHANGED <<env, past>>
       \/ /\ Unserved
          /\ reqs' = [reqs EXCEPT ![p].pc = "done"]
    /\ UNCHANGED <<runs, reports, thread, cache>>

\* OptionalMongoSaver.get_tuple: the last checkpoint, and the writes under it.
Latest(r) == {c \in thread[r].cps : \A d \in thread[r].cps : d.id <= c.id}
Writes(r, c) == {w.out : w \in {v \in thread[r].writes : v.id = c.id}}

\* After the last wave the executor drains its queue of checkpoints.
Stage(w) == IF w > LastWave THEN "drain" ELSE "wave"

\* Restored to the wave of the checkpoint, with what its sections had already written.
Restored(req, c, outs) ==
    [req EXCEPT !.pc = Stage(c.wave), !.wave = c.wave, !.secs = c.secs, !.cp = c.id, !.outs = outs,
                !.stage = [s \in Sections |-> IF \E x \in outs : x.sec = s THEN "done" ELSE "todo"]]

\* The graph reads the checkpoint for itself: if that read is not served the graph finds
\* no input and raises.
Invoke(p) ==
    /\ reqs[p].pc = "invoke"
    /\ \/ /\ Served
          /\ \E c \in Latest(reqs[p].run) :
                reqs' = [reqs EXCEPT ![p] = Restored(@, c, Writes(reqs[p].run, c))]
          /\ UNCHANGED <<env, past>>
       \/ /\ Unserved
          /\ reqs' = [reqs EXCEPT ![p].pc = "raised"]
    /\ UNCHANGED <<runs, reports, thread, cache>>

-----------------------------------------------------------------------------
\* The sections of a wave run in parallel.

\* Mutant of CacheKey: the section alone.
KeyWithoutPrior(s, prior) == <<s, {}>>

\* The digest a section's output is cached under.
CacheKey(s, prior) == <<s, prior>>

InWave(p, s, stage) == reqs[p].pc = "wave" /\ s \in Waves[reqs[p].wave] /\ reqs[p].stage[s] = stage

\* An answer that was paid for and stored.
Paid(x) == IF past.quiet THEN [past EXCEPT !.paid = @ \cup {x}] ELSE past

Kept(req, s, x) == [req EXCEPT !.outs = @ \cup {x}, !.stage[s] = "kept"]

\* Mutant of SectionGet: the cache is not asked after a restart of the graph.
SectionNotAsked(p, s) ==
    /\ InWave(p, s, "todo")
    /\ reqs' = [reqs EXCEPT ![p].stage[s] = "calling"]
    /\ UNCHANGED <<runs, reports, thread, cache, store, env, past>>

\* section_get: not for a forced request; a hit is the output.
SectionGet(p, s) ==
    /\ InWave(p, s, "todo")
    /\ LET hits == {e \in cache : e.key = CacheKey(s, reqs[p].secs)}
           missed == [reqs EXCEPT ![p].stage[s] = "calling"]
       IN  \/ reqs[p].force /\ reqs' = missed /\ UNCHANGED <<store, env, past>>
           \/ ~reqs[p].force /\ Unserved /\ reqs' = missed
           \/ /\ ~reqs[p].force /\ Served
              /\ \/ hits = {} /\ reqs' = missed
                 \/ \E e \in hits : reqs' = [reqs EXCEPT ![p] = Kept(@, s, e.out)]
              /\ UNCHANGED <<env, past>>
    /\ UNCHANGED <<runs, reports, thread, cache>>

\* The model answers, and section_put caches the answer: one upsert, which may be
\* applied and still be reported as failed.
SectionPut(p, s) ==
    /\ InWave(p, s, "calling")
    /\ LET x == Payload(s, p, FALSE, reqs[p].secs)
           key == CacheKey(s, reqs[p].secs)
           put == {e \in cache : e.key # key} \cup {[key |-> key, out |-> x]}
       IN  /\ reqs' = [reqs EXCEPT ![p] = Kept(@, s, x)]
           /\ \/ Served /\ cache' = put /\ past' = Paid(x) /\ UNCHANGED env
              \/ Refused /\ UNCHANGED <<cache, env, past>>
              \/ Opens /\ Fault /\ cache' \in {cache, put}
    /\ UNCHANGED <<runs, reports, thread>>

\* The model request fails, or the section raises: a placeholder, which is not cached.
SectionSkipped(p, s) ==
    /\ InWave(p, s, "calling")
    /\ env.skips > 0
    /\ env' = [env EXCEPT !.skips = @ - 1]
    /\ reqs' = [reqs EXCEPT ![p] = Kept(@, s, Payload(s, p, TRUE, reqs[p].secs))]
    /\ UNCHANGED <<runs, reports, thread, cache, store, past>>

\* put_writes: the output of one section under the checkpoint of its wave; the first one
\* written stays.
PutWrites(p, s) ==
    /\ InWave(p, s, "kept")
    /\ reqs' = [reqs EXCEPT ![p].stage[s] = "done"]
    /\ LET r == reqs[p].run
           there == \E w \in thread[r].writes : w.id = reqs[p].cp /\ w.out.sec = s
           rows == {[id |-> reqs[p].cp, out |-> x] : x \in {y \in reqs[p].outs : y.sec = s}}
           written == IF there THEN thread ELSE [thread EXCEPT ![r].writes = @ \cup rows]
       IN  \/ Served /\ thread' = written /\ UNCHANGED <<env, past>>
           \/ Refused /\ UNCHANGED <<thread, env, past>>
           \/ Opens /\ Fault /\ thread' \in {thread, written}
    /\ UNCHANGED <<runs, reports, cache>>

\* The reducer: the sections so far and those of the wave.
Merged(req) == req.secs \cup req.outs

\* The state after a wave, with its checkpoint in the queue.
Joined(req, cp) ==
    [req EXCEPT !.pc = Stage(cp.wave), !.wave = cp.wave, !.secs = cp.secs, !.outs = {}, !.cp = cp.id,
                !.queue = Append(@, cp)]

\* The join of a wave. Its checkpoint is written behind the next wave's back.
EndWave(p) ==
    /\ reqs[p].pc = "wave"
    /\ \A s \in Waves[reqs[p].wave] : reqs[p].stage[s] = "done"
    /\ LET r == reqs[p].run
           cp == [id |-> thread[r].ids + 1, wave |-> reqs[p].wave + 1, secs |-> Merged(reqs[p])]
       IN  /\ reqs' = [reqs EXCEPT ![p] = Joined(@, cp)]
           /\ thread' = [thread EXCEPT ![r].ids = cp.id]
    /\ UNCHANGED <<runs, reports, cache, store, env, past>>

\* put: the oldest checkpoint of the queue.
Put(p) ==
    /\ reqs[p].pc \in {"wave", "drain"}
    /\ reqs[p].queue # <<>>
    /\ reqs' = [reqs EXCEPT ![p].queue = Tail(@)]
    /\ LET stored == [thread EXCEPT ![reqs[p].run].cps = @ \cup {Head(reqs[p].queue)}]
       IN  \/ Served /\ thread' = stored /\ UNCHANGED <<env, past>>
           \/ Refused /\ UNCHANGED <<thread, env, past>>
           \/ Opens /\ Fault /\ thread' \in {thread, stored}
    /\ UNCHANGED <<runs, reports, cache>>

-----------------------------------------------------------------------------
\* The end of a request.

Answered(p, r, status) ==
    reqs' = [reqs EXCEPT ![p].pc = "done", ![p].report = r, ![p].said = status]

\* save: a run is settled only from running.
Settled(r, outcome) == IF runs[r].status = "running" THEN [runs EXCEPT ![r].status = outcome] ELSE runs

\* Mutant of SavedSoFar: the run first.
RunSavedFirst(r, outcome, stored) == {<<reports, Settled(r, outcome)>>, <<stored, Settled(r, outcome)>>}

\* Where a failure may catch save with something written.
SavedSoFar(r, outcome, stored) == {<<stored, runs>>, <<stored, Settled(r, outcome)>>}

\* AnalysisHistory.save: the report, then the run. A second report of a run is a
\* duplicate key, which opens the breaker like any other failure.
Save(p) ==
    /\ reqs[p].pc = "drain"
    /\ reqs[p].queue = <<>>
    /\ LET r == reqs[p].run
           first == reports[r].outcome = "none"
           outcome == Outcome(reqs[p].secs)
           stored == [reports EXCEPT ![r] = [outcome |-> outcome, secs |-> reqs[p].secs]]
       IN  \/ /\ first /\ Served
              /\ reports' = stored
              /\ runs' = Settled(r, outcome)
              /\ Answered(p, r, "ready")
              /\ UNCHANGED <<env, past>>
           \/ /\ \/ Refused /\ UNCHANGED <<env, past>>
                 \/ Opens /\ ~first /\ UNCHANGED <<env, past>>
                 \/ Opens /\ Fault
              /\ Answered(p, NoRun, "unavailable")
              /\ UNCHANGED <<runs, reports>>
           \/ /\ first /\ Opens /\ Fault
              /\ Answered(p, NoRun, "unavailable")
              /\ \E done \in SavedSoFar(r, outcome, stored) : reports' = done[1] /\ runs' = done[2]
    /\ UNCHANGED <<thread, cache>>

\* save(error): the run has failed, whatever it was.
SaveError(p) ==
    /\ reqs[p].pc = "raised"
    /\ reqs' = [reqs EXCEPT ![p].pc = "done"]
    /\ LET failed == [runs EXCEPT ![reqs[p].run].status = "failed"]
       IN  \/ Served /\ runs' = failed /\ UNCHANGED <<env, past>>
           \/ Refused /\ UNCHANGED <<runs, env, past>>
           \/ Opens /\ Fault /\ runs' \in {runs, failed}
    /\ UNCHANGED <<reports, thread, cache>>

\* The process is killed: what was not written is lost, and the breaker starts closed.
Crash ==
    /\ Live # {}
    /\ env.crashes > 0
    /\ env' = [env EXCEPT !.crashes = @ - 1]
    /\ reqs' = [p \in Requests |-> IF p \in Live THEN [NoRequest EXCEPT !.pc = "dead", !.force = reqs[p].force]
                                 ELSE reqs[p]]
    /\ store' = [refusing |-> FALSE, status |-> "ready"]
    /\ UNCHANGED <<runs, reports, thread, cache, past>>

SectionStep(p, s) == SectionGet(p, s) \/ SectionPut(p, s) \/ SectionSkipped(p, s) \/ PutWrites(p, s)

Next ==
    \/ Reopen \/ Crash
    \/ \E p \in Requests :
         \/ \E force \in BOOLEAN : Start(p, force) \/ StartUnserved(p, force)
         \/ \E r \in Requests : Resume(p, r) \/ ResumeUnserved(p, r)
         \/ EphemeralStep(p) \/ EphemeralEnds(p)
         \/ Load(p) \/ Invoke(p) \/ EndWave(p) \/ Put(p) \/ Save(p) \/ SaveError(p)
         \/ \E s \in Sections : SectionStep(p, s)

Spec == Init /\ [][Next]_vars

-----------------------------------------------------------------------------
\* Properties.

\* What a queue holds.
Held(queue) == {queue[i] : i \in DOMAIN queue}

\* The shape of a request. A payload holds the payloads of the waves before it, so the
\* fields that hold payloads stand for themselves.
Working == {"load", "invoke", "wave", "drain", "raised"}
Request(req) ==
    [pc : {"none", "ephemeral", "done", "dead"} \cup Working, run : Requests \cup {NoRun}, force : BOOLEAN,
     wave : 0..(LastWave + 1), secs : {req.secs}, outs : {req.outs}, stage : [Sections -> Stages], cp : Nat,
     queue : {req.queue}, report : Requests \cup {NoRun}, said : {"none", "ready", "unavailable"}]

\* Every variable keeps its shape, and a request works only on a run that exists.
TypeOK ==
    /\ reqs = [p \in Requests |-> reqs[p]]
    /\ \A p \in Requests :
        /\ reqs[p] \in Request(reqs[p])
        /\ reqs[p].queue \in Seq(Held(reqs[p].queue))
        /\ reqs[p].pc \in {"load", "invoke"} => reqs[p].queue = <<>>
        /\ reqs[p].pc = "wave" => reqs[p].wave \in 1..LastWave
        /\ reqs[p].pc = "drain" => reqs[p].wave = LastWave + 1
        /\ reqs[p].pc \in Working => reqs[p].run # NoRun /\ runs[reqs[p].run].status # "none"
    /\ runs \in [Requests -> [status : Statuses \cup {"none"}, from : Requests \cup {NoRun}]]
    /\ reports = [r \in Requests |-> reports[r]]
    /\ thread = [r \in Requests |-> thread[r]]
    /\ \A r \in Requests :
        /\ reports[r].outcome \in {"none", "partial", "succeeded"}
        /\ thread[r] \in [cps : {thread[r].cps}, writes : {thread[r].writes}, ids : Nat]
    /\ store \in [refusing : BOOLEAN, status : {"ready", "unavailable"}]
    /\ env \in [faults : Nat, skips : Nat, crashes : Nat, made : 0..MaxRequests, live : Nat]
    /\ past \in [quiet : BOOLEAN, paid : {past.paid}]

\* Sections that belong together: one payload per section, each given exactly what
\* stands here of the earlier waves.
Coherent(secs) ==
    \A x \in secs :
        /\ x.prior = {y \in secs : WaveOf(y.sec) < WaveOf(x.sec)}
        /\ \A y \in secs : x.sec = y.sec => x = y

\* A run that is settled has the report its status speaks of.
SettledRunsHaveReports ==
    \A r \in Requests : runs[r].status \in {"succeeded", "partial"} =>
        reports[IF runs[r].from = NoRun THEN r ELSE runs[r].from].outcome = runs[r].status

\* A report is whole, and each of its sections was written from the sections it holds,
\* whatever was restored, cached, retried or computed twice on the way.
ReportIsCoherent ==
    \A r \in Requests : reports[r].outcome # "none" =>
        /\ {x.sec : x \in reports[r].secs} = Sections
        /\ Coherent(reports[r].secs)

\* An answer that names a report is that report, and a reused one has no gap.
AnswerIsStored ==
    \A p \in Requests : reqs[p].report # NoRun =>
        /\ reports[reqs[p].report].secs = reqs[p].secs
        /\ reqs[p].run = p /\ reqs[p].report # p => \A x \in reqs[p].secs : ~x.skipped

\* Where requests do not overlap and the database serves, an answer that was paid for
\* and stored is not paid for again, across crashes, resumed runs and new runs.
PaidOnce ==
    \A x, y \in past.paid :
        x.sec = y.sec /\ x.prior = y.prior /\ x.by < y.by => reqs[y.by].force

-----------------------------------------------------------------------------
\* Why they hold, in parts that together are inductive.

\* Requests arrive in line, and nothing is known of a run before its request.
LineInv ==
    /\ \A p, q \in Requests : p < q /\ reqs[p].pc = "none" => reqs[q].pc = "none"
    /\ \A p \in Requests : reqs[p].pc = "none" => runs[p].status = "none"
    /\ \A r \in Requests : runs[r].status = "none" =>
        runs[r].from = NoRun /\ thread[r] = NoThread /\ reports[r].outcome = "none"

\* A run that reused a report has no graph of its own, even when it is resumed.
ReuseInv ==
    \A r \in Requests : runs[r].from # NoRun =>
        /\ reports[runs[r].from].outcome = "succeeded" /\ runs[r].status # "partial"
        /\ thread[r].cps = {}
        /\ \A p \in Requests : reqs[p].pc \in {"invoke", "wave", "drain"} => reqs[p].run # r

\* Only the end of a request names a report, which is stored by then.
AnswerInv ==
    /\ \A p \in Requests : reqs[p].report # NoRun =>
        reqs[p].pc = "done" /\ reports[reqs[p].report].outcome # "none"
    /\ \A r \in Requests : reports[r].outcome = "succeeded" => \A x \in reports[r].secs : ~x.skipped

\* The checkpoints of a run: those stored, those on their way, and those its requests
\* stand on.
At(req) == [id |-> req.cp, wave |-> req.wave, secs |-> req.secs]
OnGraph(r) == {p \in Requests : reqs[p].run = r /\ reqs[p].pc \in {"wave", "drain"}}
Trail(r) ==
    thread[r].cps \cup {At(reqs[p]) : p \in OnGraph(r)} \cup UNION {Held(reqs[p].queue) : p \in OnGraph(r)}

\* The sections of the waves before wave w, and no other.
Whole(secs, w) == {x.sec : x \in secs} = UNION {Waves[v] : v \in 1..(w - 1)} /\ Coherent(secs)

\* Sections of wave w, each written from the sections secs, at most one of each.
WrittenFrom(outs, w, secs) ==
    /\ \A x \in outs : x.sec \in Waves[w] /\ x.prior = secs
    /\ \A x, y \in outs : x.sec = y.sec => x = y

\* An id names one checkpoint of its run, and a checkpoint holds the waves before its own,
\* whoever of the run's requests wrote it.
TrailInv ==
    \A r \in Requests :
        /\ \A c \in Trail(r) :
            c \in [id : 1..thread[r].ids, wave : 1..(LastWave + 1), secs : {c.secs}] /\ Whole(c.secs, c.wave)
        /\ \A c, d \in Trail(r) : c.id = d.id => c = d

\* The writes under a checkpoint are sections of its wave, written from its sections.
WritesInv ==
    \A r \in Requests :
        /\ \A w \in thread[r].writes : w \in [id : 1..thread[r].ids, out : {w.out}]
        /\ \A v, w \in thread[r].writes : v.id = w.id /\ v.out.sec = w.out.sec => v = w
        /\ \A c \in Trail(r), w \in thread[r].writes : w.id = c.id =>
            c.wave <= LastWave /\ w.out.sec \in Waves[c.wave] /\ w.out.prior = c.secs

\* The outputs of a request are sections of its wave, those it has kept and no other.
WaveInv ==
    \A p \in Requests : reqs[p].pc = "wave" =>
        /\ WrittenFrom(reqs[p].outs, reqs[p].wave, reqs[p].secs)
        /\ \A s \in Waves[reqs[p].wave] :
            reqs[p].stage[s] \in {"kept", "done"} <=> \E x \in reqs[p].outs : x.sec = s
        /\ \A v \in (reqs[p].wave + 1)..LastWave : \A s \in Waves[v] : reqs[p].stage[s] = "todo"

\* An output is cached under the section it is and the sections it was given.
CacheInv == \A e \in cache : e.key = <<e.out.sec, e.out.prior>>

\* While all is quiet one request works at a time, a new one only when those before it
\* have ended; what was paid for is cached, and what is asked of the model is not.
QuietInv ==
    /\ past.quiet =>
        /\ ~store.refusing
        /\ \A p \in Live, q \in Requests : p < q => reqs[q].pc = "none"
        /\ \A p \in Requests : reqs[p].pc \in Working => reports[reqs[p].run].outcome = "none"
        /\ \A x \in past.paid :
            /\ x.by \in Requests /\ reqs[x.by].pc # "none"
            /\ \E e \in cache : e.key = <<x.sec, x.prior>>
        /\ \A p \in Requests, s \in Sections :
            InWave(p, s, "calling") /\ ~reqs[p].force => \A e \in cache : e.key # <<s, reqs[p].secs>>
    /\ ~past.quiet => past.paid = {}

GraphInv == TrailInv /\ WritesInv /\ WaveInv /\ CacheInv
=============================================================================
