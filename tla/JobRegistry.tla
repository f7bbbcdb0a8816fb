------------------------------ MODULE JobRegistry ------------------------------
(***************************************************************************)
(* What one user has scheduled: scanner configs, report schedules and      *)
(* screener presets as rows of the database, and the cron job that the     *)
(* in-memory scheduler keeps for each (scheduler_service.py).  The routes  *)
(* commit the row first and (un)register the job afterwards, in requests   *)
(* that run side by side.  Report recipients are rows without a job, with  *)
(* a limit that is enforced like that of the report schedules.             *)
(***************************************************************************)
EXTENDS Naturals, Sequences, FiniteSets, Functions

CONSTANTS
    Configs, Schedules, Presets, Recipients,   \* the rows that may come to exist
    Accounts,       \* sets of rows: what one user may come to have
    Cap,            \* _MAX_SCHEDULES, _MAX_RECIPIENTS: the limit of both
    Crons,          \* cron expressions
    Zones,          \* time zones
    MaxRequests,    \* requests of the user
    MaxTrouble      \* failed registrations and restarts of the server

JobRows == Configs \cup Schedules \cup Presets
Rows == JobRows \cup Recipients

JobRegistryAssumption ==
    /\ IsFiniteSet(Rows)
    /\ Configs \cap (Schedules \cup Presets \cup Recipients) = {}
    /\ Schedules \cap (Presets \cup Recipients) = {} /\ Presets \cap Recipients = {}
    /\ Accounts \subseteq SUBSET Rows
    /\ "" \notin Crons
    /\ {Cap, MaxRequests, MaxTrouble} \subseteq Nat

VARIABLES
    table,    \* the rows
    zone,     \* users.timezone
    jobs,     \* the scheduler's jobs
    reqs,     \* the requests, in the order they arrive
    env,      \* the rows the user may come to have, and the trouble so far
    past      \* history: rows with a job that were created, which are never created again,
              \* rows whose last operations overlapped or failed, and whether two rows of one
              \* limit were ever added at once

vars == <<table, zone, jobs, reqs, env, past>>

Requests == 1..MaxRequests
Row(cron, on) == [cron |-> cron, on |-> on]
NoRow == Row("", FALSE)
NoJob == [cron |-> "", zone |-> ""]
Exists(r) == table[r] # NoRow
Kin(r) == IF r \in Schedules THEN Schedules ELSE Recipients
Capped == Schedules \cup Recipients

\* A registration under way: the row it is for, as the request read it, and the zone.
Task(r, row) == [row |-> r, as |-> row]
NoRequest == [pc |-> "none", rows |-> {}, mends |-> {}, new |-> NoRow, todo |-> <<>>, zone |-> "", alone |-> TRUE]
Answered == [NoRequest EXCEPT !.pc = "done"]
Live == {q \in Requests : reqs[q].pc \notin {"none", "done"}}

Init ==
    /\ table = [r \in Rows |-> NoRow]
    /\ zone \in Zones
    /\ jobs = [r \in JobRows |-> NoJob]
    /\ reqs = [q \in Requests |-> NoRequest]
    /\ \E account \in Accounts : env = [account |-> account, trouble |-> 0]
    /\ past = [created |-> {}, unsynced |-> {}, crowded |-> FALSE]

-----------------------------------------------------------------------------
\* Requests.

\* Requests that are at work on one row are noted as not alone.
Overlaps(rs) == {q \in Live : reqs[q].rows \cap rs # {}}
Arrive(q, pc, rs, new) ==
    /\ reqs[q].pc = "none"
    /\ \A p \in 1..(q - 1) : reqs[p].pc # "none"
    /\ reqs' = [p \in Requests |->
                  IF p = q THEN IF pc = "done" THEN Answered
                                ELSE [NoRequest EXCEPT !.pc = pc, !.rows = rs, !.mends = rs, !.new = new,
                                                  !.alone = Overlaps(rs) = {}]
                  ELSE IF p \in Overlaps(rs) THEN [reqs[p] EXCEPT !.alone = FALSE] ELSE reqs[p]]

\* The end of a request: the rows it had to itself and registered are in order.
Ends(q, req, ok) ==
    /\ reqs' = [reqs EXCEPT ![q] = Answered]
    /\ past' = [past EXCEPT !.unsynced = IF req.alone /\ ok THEN @ \ req.mends ELSE @ \cup req.rows]

\* The limit of schedules and of recipients.
HasRoom(r) == Cardinality({x \in Kin(r) : Exists(x)}) < Cap

\* A new schedule, config or preset has an id of its own; an address may be bound again.
Free(r) == ~Exists(r) /\ r \notin past.created

\* create_schedule, add_recipient: the count ...
Count(q, r, row) ==
    /\ r \in Capped \cap env.account /\ Free(r) /\ HasRoom(r)
    /\ Arrive(q, "insert", {r}, row)
    /\ past' = [past EXCEPT !.created = @ \cup ({r} \cap JobRows),
                            !.crowded = @ \/ \E p \in Live : reqs[p].pc = "insert" /\ reqs[p].rows \subseteq Kin(r)]
    /\ UNCHANGED <<table, zone, jobs, env>>

\* ... and the insert. An address that is bound by now is a duplicate key.
Insert(q) ==
    /\ reqs[q].pc = "insert"
    /\ \E r \in reqs[q].rows :
         \/ /\ ~Exists(r)
            /\ table' = [table EXCEPT ![r] = reqs[q].new]
            /\ IF r \in JobRows
               THEN reqs' = [reqs EXCEPT ![q].pc = "refresh"] /\ UNCHANGED past
               ELSE Ends(q, reqs[q], TRUE)
         \/ /\ Exists(r)
            /\ Ends(q, reqs[q], FALSE)
            /\ UNCHANGED table
    /\ UNCHANGED <<zone, jobs, env>>

\* create_config, create_preset: no limit.
Create(q, r, row) ==
    /\ r \in (JobRows \ Capped) \cap env.account /\ Free(r)
    /\ Arrive(q, "refresh", {r}, row)
    /\ table' = [table EXCEPT ![r] = row]
    /\ past' = [past EXCEPT !.created = @ \cup {r}]
    /\ UNCHANGED <<zone, jobs, env>>

\* The PATCH routes and verify_recipient: the fields that were sent are committed.
Update(q, r, row) ==
    /\ Exists(r)
    /\ Arrive(q, IF r \in JobRows THEN "refresh" ELSE "done", {r}, row)
    /\ table' = [table EXCEPT ![r] = row]
    /\ UNCHANGED <<zone, jobs, env, past>>

\* db.refresh, the row as it is now; one that is gone makes it raise.
Refresh(q) ==
    /\ reqs[q].pc = "refresh"
    /\ \E r \in reqs[q].rows :
         IF Exists(r)
         THEN reqs' = [reqs EXCEPT ![q].pc = "task", ![q].todo = <<Task(r, table[r])>>] /\ UNCHANGED past
         ELSE Ends(q, reqs[q], FALSE)
    /\ UNCHANGED <<table, zone, jobs, env>>

\* The DELETE routes; a job is unregistered afterwards.
Delete(q, r) ==
    /\ Exists(r)
    /\ Arrive(q, IF r \in JobRows THEN "forget" ELSE "done", {r}, NoRow)
    /\ table' = [table EXCEPT ![r] = NoRow]
    /\ UNCHANGED <<zone, jobs, env, past>>

\* update_me: the new zone is committed, and every job of the user is to be registered again.
ChangeZone(q, z) ==
    /\ Arrive(q, "read", JobRows \cap env.account, NoRow)
    /\ zone' = z
    /\ UNCHANGED <<table, jobs, env, past>>

Enabled(S) == {r \in S : Exists(r) /\ table[r].on}

\* The rows in the order in which the database lists them.
Listed(S) == CHOOSE list \in [1..Cardinality(S) -> S] : IsInjective(list)
Tasks(S) == [i \in 1..Cardinality(S) |-> Task(Listed(S)[i], table[Listed(S)[i]])]

\* reregister_user_jobs reads the enabled rows first.
ReadRows(q) ==
    /\ reqs[q].pc = "read"
    /\ LET todo == Tasks(Enabled(Configs)) \o Tasks(Enabled(Schedules)) \o Tasks(Enabled(Presets))
           req == [reqs[q] EXCEPT !.mends = Enabled(JobRows), !.todo = todo]
       IN  IF todo = <<>> THEN Ends(q, req, TRUE)
           ELSE reqs' = [reqs EXCEPT ![q] = [req EXCEPT !.pc = "task"]] /\ UNCHANGED past
    /\ UNCHANGED <<table, zone, jobs, env>>

-----------------------------------------------------------------------------
\* The registration of one job.

At(q, pc) == reqs[q].pc = pc
Current(q) == Head(reqs[q].todo)

\* On to the next registration; without one the request is over.
Proceeds(q, ok) ==
    LET req == [reqs[q] EXCEPT !.todo = Tail(@), !.alone = @ /\ ok]
    IN  IF req.todo = <<>> THEN Ends(q, req, TRUE)
        ELSE reqs' = [reqs EXCEPT ![q] = [req EXCEPT !.pc = "task"]] /\ UNCHANGED past

\* A row that is off is finished; for the others the zone is read next.
ThenZone(q) ==
    IF Current(q).as.on THEN reqs' = [reqs EXCEPT ![q].pc = "zone"] /\ UNCHANGED past
    ELSE Proceeds(q, TRUE)

\* register_config: a config that is off loses its job; one that is on keeps it until it is
\* replaced. register_report_schedule, register_screener_preset: the job is looked up first.
Begin(q) ==
    /\ At(q, "task")
    /\ LET r == Current(q).row
       IN  \/ /\ r \in Configs
              /\ jobs' = IF Current(q).as.on THEN jobs ELSE [jobs EXCEPT ![r] = NoJob]
              /\ ThenZone(q)
           \/ /\ r \notin Configs /\ jobs[r] = NoJob
              /\ ThenZone(q)
              /\ UNCHANGED jobs
           \/ /\ r \notin Configs /\ jobs[r] # NoJob
              /\ reqs' = [reqs EXCEPT ![q].pc = "remove"]
              /\ UNCHANGED <<jobs, past>>
    /\ UNCHANGED <<table, zone, env>>

\* The job that was found is removed; if another request was faster remove_job raises, and
\* this registration is given up.
RemoveJob(q) ==
    /\ At(q, "remove")
    /\ LET r == Current(q).row
       IN  \/ jobs[r] = NoJob /\ Proceeds(q, FALSE) /\ UNCHANGED jobs
           \/ jobs[r] # NoJob /\ ThenZone(q) /\ jobs' = [jobs EXCEPT ![r] = NoJob]
    /\ UNCHANGED <<table, zone, env>>

\* _user_tz, a query that may fail; the failure is logged.
UserTz(q) ==
    /\ At(q, "zone")
    /\ \/ /\ reqs' = [reqs EXCEPT ![q].pc = "add", ![q].zone = zone]
          /\ UNCHANGED <<env, past>>
       \/ /\ env.trouble < MaxTrouble
          /\ env' = [env EXCEPT !.trouble = @ + 1]
          /\ Proceeds(q, FALSE)
    /\ UNCHANGED <<table, zone, jobs>>

\* add_job(replace_existing).
AddJob(q) ==
    /\ At(q, "add")
    /\ jobs' = [jobs EXCEPT ![Current(q).row] = [cron |-> Current(q).as.cron, zone |-> reqs[q].zone]]
    /\ Proceeds(q, TRUE)
    /\ UNCHANGED <<table, zone, env>>

\* Mutant of Forget: the job of a deleted row stays.
ForgetNothing(q) ==
    /\ At(q, "forget")
    /\ Ends(q, reqs[q], TRUE)
    /\ UNCHANGED <<table, zone, jobs, env>>

\* unregister after a delete, whoever removes the job.
Forget(q) ==
    /\ At(q, "forget")
    /\ jobs' = [r \in JobRows |-> IF r \in reqs[q].rows THEN NoJob ELSE jobs[r]]
    /\ Ends(q, reqs[q], TRUE)
    /\ UNCHANGED <<table, zone, env>>

\* The job a row asks for.
Wanted(r) == IF Exists(r) /\ table[r].on THEN [cron |-> table[r].cron, zone |-> zone] ELSE NoJob

\* SchedulerService.start, before the first request is served: the jobs of all enabled rows;
\* one that cannot be registered (at most one here) is logged.
Restart ==
    /\ env.trouble < MaxTrouble
    /\ env' = [env EXCEPT !.trouble = @ + 1]
    /\ \E lost \in SUBSET JobRows :
         /\ Cardinality(lost) <= 1
         /\ \A r \in lost : Wanted(r) # NoJob
         /\ jobs' = [r \in JobRows |-> IF r \in lost THEN NoJob ELSE Wanted(r)]
         /\ past' = [past EXCEPT !.unsynced = lost]
    /\ reqs' = [q \in Requests |-> IF q \in Live THEN Answered ELSE reqs[q]]
    /\ UNCHANGED <<table, zone>>

Step(q) ==
    \/ Insert(q) \/ Refresh(q) \/ ReadRows(q) \/ Begin(q) \/ RemoveJob(q)
    \/ UserTz(q) \/ AddJob(q) \/ Forget(q)

Request(q) ==
    \/ \E r \in Rows, cron \in Crons, on \in BOOLEAN :
         Count(q, r, Row(cron, on)) \/ Create(q, r, Row(cron, on)) \/ Update(q, r, Row(cron, on))
    \/ \E r \in Rows : Delete(q, r)
    \/ \E z \in Zones : ChangeZone(q, z)

Next == Restart \/ \E q \in Requests : Request(q) \/ Step(q)

Spec == Init /\ [][Next]_vars

-----------------------------------------------------------------------------
\* Properties.

\* Every variable keeps its shape, and a registration under way has a row to register.
TypeOK ==
    /\ table \in [Rows -> [cron : Crons, on : BOOLEAN] \cup {NoRow}]
    /\ zone \in Zones
    /\ jobs \in [JobRows -> [cron : Crons, zone : Zones] \cup {NoJob}]
    /\ \A q \in Requests : reqs[q].pc \in {"task", "remove", "zone", "add"} =>
        /\ Current(q).row \in reqs[q].rows \cap JobRows
        /\ Current(q).as # NoRow
    /\ env \in [account : Accounts, trouble : 0..MaxTrouble]
    /\ past \in [created : SUBSET JobRows, unsynced : SUBSET Rows, crowded : BOOLEAN]

\* A row that no request works on has the job it asks for, in the user's zone, unless its
\* last operations overlapped or failed: the next edit, delete or restart puts it right, and
\* so does a change of zone if the row is on.
JobsFollowRows ==
    \A r \in JobRows :
        r \in past.unsynced \/ jobs[r] = Wanted(r) \/ \E q \in Live : r \in reqs[q].rows

\* The limits hold as long as no two rows of one limit are added at once.
CapHolds ==
    \A S \in {Schedules, Recipients} : past.crowded \/ Cardinality({r \in S : Exists(r)}) <= Cap
=============================================================================
