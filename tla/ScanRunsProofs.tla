---------------------------- MODULE ScanRunsProofs ----------------------------
(***************************************************************************)
(* Theorems about scans, from the schedule to the screen, for any values   *)
(* of the constants: the runs (ScanRuns), the jobs that a user has         *)
(* scheduled (JobRegistry) and the panel that shows a run (ScannerPanel).  *)
(***************************************************************************)
EXTENDS ScanRuns, MCUserRequests, Sequences, FunctionTheorems, FiniteSetTheorems, SequenceTheorems,
        WellFoundedInduction, TLAPS

LEMMA TypeInit == Init => TypeOK
<1> SUFFICES ASSUME Init PROVE TypeOK
  OBVIOUS
<1>0. 0 \in 0..MaxSlot /\ 0 \in 0..MaxRuns /\ 1 \in 1..MaxSlot /\ 1 \in 1..(MaxRuns + 1)
  BY ScanRunsAssumption
<1>1. [status |-> "absent", config |-> NoRun, entries |-> FALSE, note |-> ""] \in Row
  BY DEF Row
<1>2. NoThread \in Thread
  BY <1>0 DEF NoThread, Thread, Phases, Ended, Manual
<1>3. Idle \in Caller
  BY <1>0 DEF Idle, Caller, NoRun, Manual
<1>4. [status |-> "absent", run |-> NoRun] \in Batch
  BY <1>0 DEF Batch, NoRun
<1>5. env \in Server
  BY <1>0 DEF Init, Server
<1>6. rows \in [Runs -> Row]
  BY <1>1 DEF Init
<1>7. batches \in [Keys -> Batch]
  BY <1>4 DEF Init
<1>8. threads \in [Runs -> Thread] /\ callers \in [Callers -> Caller]
  BY <1>2, <1>3 DEF Init
<1>9. events \in [Runs -> SUBSET {"start", "complete", "error", "close"}]
  BY DEF Init
<1>10. sent \in [Runs -> SUBSET Effects]
  BY DEF Init
<1> QED
  BY <1>0, <1>5, <1>6, <1>7, <1>8, <1>9, <1>10 DEF TypeOK, Init

-----------------------------------------------------------------------------
\* What a step that moves a thread on does to the thread, field by field.
LEMMA GotoFields ==
  ASSUME TypeOK, NEW r \in Runs, NEW p \in Phases, Goto(r, p)
  PROVE  /\ threads' \in [Runs -> Thread]
         /\ threads'[r].phase = p
         /\ threads'[r].slot = threads[r].slot
         /\ threads'[r].deliver = threads[r].deliver
         /\ threads'[r].wants = threads[r].wants
         /\ threads'[r].evaluated = threads[r].evaluated
         /\ threads'[r].scored = threads[r].scored
         /\ threads'[r].saved = threads[r].saved
         /\ \A q \in Runs : q # r => threads'[q] = threads[q]
<1>1. threads \in [Runs -> Thread]
  BY DEF TypeOK
<1>2. [threads[r] EXCEPT !.phase = p] \in Thread
  BY <1>1 DEF Thread
<1>3. threads' = [threads EXCEPT ![r] = [threads[r] EXCEPT !.phase = p]]
  BY DEF Goto
<1>4. threads'[r] = [threads[r] EXCEPT !.phase = p]
  BY <1>1, <1>3
<1> QED
  BY <1>1, <1>2, <1>3, <1>4 DEF Thread

\* The same for a step that changes the status of a row.
LEMMA StatusFields ==
  ASSUME TypeOK, NEW r \in Runs, NEW s \in {"PENDING", "RUNNING", "COMPLETE", "ERROR"},
         rows' = [rows EXCEPT ![r].status = s]
  PROVE  /\ rows' \in [Runs -> Row]
         /\ rows'[r].status = s
         /\ rows'[r].config = rows[r].config
         /\ rows'[r].entries = rows[r].entries
         /\ rows'[r].note = rows[r].note
         /\ \A q \in Runs : q # r => rows'[q] = rows[q]
<1>1. rows \in [Runs -> Row]
  BY DEF TypeOK
<1>2. [rows[r] EXCEPT !.status = s] \in Row
  BY <1>1 DEF Row, Terminal
<1>3. rows' = [rows EXCEPT ![r] = [rows[r] EXCEPT !.status = s]]
  OBVIOUS
<1>4. rows'[r] = [rows[r] EXCEPT !.status = s]
  BY <1>1, <1>3
<1> QED
  BY <1>1, <1>2, <1>3, <1>4 DEF Row

\* What the save of the history does to its thread.
LEMMA SavedFields ==
  ASSUME TypeOK, NEW r \in Runs, NEW status, Saved(r, status)
  PROVE  /\ threads' \in [Runs -> Thread]
         /\ threads'[r].phase = AfterSave(r)
         /\ threads'[r].slot = threads[r].slot
         /\ threads'[r].deliver = threads[r].deliver
         /\ threads'[r].wants = threads[r].wants
         /\ threads'[r].evaluated = threads[r].evaluated
         /\ threads'[r].scored = threads[r].scored
         /\ threads'[r].saved = IF status \in Published THEN "yes" ELSE "no"
         /\ \A q \in Runs : q # r => threads'[q] = threads[q]
<1> DEFINE answer == IF status \in Published THEN "yes" ELSE "no"
           new == [[threads[r] EXCEPT !.saved = answer] EXCEPT !.phase = AfterSave(r)]
<1>1. threads \in [Runs -> Thread]
  BY DEF TypeOK
<1>2. AfterSave(r) \in Phases
  BY DEF AfterSave, Phases, Body
<1>3. new \in Thread
  BY <1>1, <1>2 DEF Thread
<1>4. threads' = [threads EXCEPT ![r] = new]
  BY <1>1 DEF Saved
<1>5. threads'[r] = new
  BY <1>1, <1>4
<1> QED
  BY <1>1, <1>3, <1>4, <1>5 DEF Thread

\* A failing store or database only counts the failure.
LEMMA FaultFields ==
  ASSUME TypeOK, UNCHANGED env \/ SqlFault \/ MongoFault
  PROVE  /\ env' \in Server
         /\ env'.up = env.up /\ env'.stale = env.stale /\ env'.drains = env.drains
         /\ SqlFault => env'.sql = env.sql + 1 /\ env'.sql # 0
         /\ MongoFault => env'.mongo = env.mongo + 1
<1>1. env \in Server
  BY DEF TypeOK
<1>2. [env EXCEPT !.sql = @ + 1] \in Server
  BY <1>1 DEF Server
<1>3. [env EXCEPT !.mongo = @ + 1] \in Server
  BY <1>1 DEF Server
<1>4. env' \in Server
  BY <1>1, <1>2, <1>3 DEF SqlFault, MongoFault
<1>5. env'.up = env.up /\ env'.stale = env.stale /\ env'.drains = env.drains
  BY <1>1 DEF SqlFault, MongoFault, Server
<1>6. SqlFault => env'.sql = env.sql + 1 /\ env'.sql # 0
  BY <1>1 DEF SqlFault, Server
<1>7. MongoFault => env'.mongo = env.mongo + 1
  BY <1>1 DEF MongoFault, Server
<1> QED
  BY <1>4, <1>5, <1>6, <1>7

\* A caller that is sent on keeps the rest of its call.
LEMMA CallerMoves ==
  ASSUME TypeOK, NEW a \in Callers
  PROVE  /\ Idle \in Caller
         /\ \A pc \in {"idle", "lookup", "check", "insert", "busy"} :
               [callers[a] EXCEPT !.pc = pc] \in Caller
         /\ \A new \in Caller : [callers EXCEPT ![a] = new] \in [Callers -> Caller]
<1>1. callers \in [Callers -> Caller]
  BY DEF TypeOK
<1>2. 0 \in 0..MaxSlot /\ 0 \in 0..MaxRuns
  BY ScanRunsAssumption
<1>3. Idle \in Caller
  BY <1>2 DEF Idle, Caller, NoRun, Manual
<1>4. \A pc \in {"idle", "lookup", "check", "insert", "busy"} : [callers[a] EXCEPT !.pc = pc] \in Caller
  BY <1>1 DEF Caller
<1> QED
  BY <1>1, <1>3, <1>4

\* What a scan reports of its thread.
LEMMA ScanFields ==
  ASSUME TypeOK, NEW r \in Runs, NEW e \in {"all", "some", "none"}, NEW s \in BOOLEAN,
         Scan(r, e, s)
  PROVE  /\ threads' \in [Runs -> Thread]
         /\ threads'[r].phase = "save"
         /\ threads'[r].evaluated = e
         /\ threads'[r].deliver = threads[r].deliver
         /\ threads'[r].slot = threads[r].slot
         /\ \A q \in Runs : q # r => threads'[q] = threads[q]
<1> DEFINE moved == [threads[r] EXCEPT !.phase = "save"]
           seen == [moved EXCEPT !.evaluated = e]
           new == [seen EXCEPT !.scored = s]
<1>1. threads \in [Runs -> Thread]
  BY DEF TypeOK
<1>2. moved \in Thread /\ moved.phase = "save" /\ moved.deliver = threads[r].deliver
       /\ moved.slot = threads[r].slot
  BY <1>1 DEF Thread, Phases, Body
<1>3. seen \in Thread /\ seen.phase = "save" /\ seen.evaluated = e /\ seen.deliver = threads[r].deliver
       /\ seen.slot = threads[r].slot
  BY <1>2 DEF Thread
<1>4. new \in Thread /\ new.phase = "save" /\ new.evaluated = e /\ new.deliver = threads[r].deliver
       /\ new.slot = threads[r].slot
  BY <1>3 DEF Thread
<1>5. threads' = [threads EXCEPT ![r] = new]
  BY <1>1 DEF Scan
<1> HIDE DEF new
<1> QED
  BY <1>1, <1>4, <1>5

LEMMA InsertFields ==
  ASSUME TypeOK, NEW a \in Callers, NEW w \in MailPlans, Insert(a, w)
  PROVE  /\ nextRun \in Runs
         /\ nextRun' = nextRun + 1
         /\ callers' \in [Callers -> Caller]
         /\ rows' \in [Runs -> Row]
         /\ rows'[nextRun].status = "PENDING"
         /\ rows'[nextRun].entries = rows[nextRun].entries
         /\ rows'[nextRun].config = callers[a].config
         /\ threads' \in [Runs -> Thread]
         /\ threads'[nextRun].phase = "load"
         /\ threads'[nextRun].slot = callers[a].slot
         /\ \A q \in Runs : q # nextRun => rows'[q] = rows[q] /\ threads'[q] = threads[q]
<1> DEFINE r == nextRun
           row1 == [rows[r] EXCEPT !.status = "PENDING"]
           row == [row1 EXCEPT !.config = callers[a].config]
           thread1 == [threads[r] EXCEPT !.phase = "load"]
           thread2 == [thread1 EXCEPT !.slot = callers[a].slot]
           thread3 == [thread2 EXCEPT !.deliver = callers[a].deliver]
           thread == [thread3 EXCEPT !.wants = w]
<1>1. r \in Runs /\ nextRun' = nextRun + 1
  BY ScanRunsAssumption DEF Insert, TypeOK, Runs
<1>2. rows \in [Runs -> Row] /\ threads \in [Runs -> Thread] /\ callers[a] \in Caller
  BY DEF TypeOK
<1>3. /\ row \in Row /\ row.status = "PENDING" /\ row.entries = rows[r].entries
      /\ row.config = callers[a].config
  BY <1>1, <1>2 DEF Row, Caller
<1>4. thread1 \in Thread /\ thread1.phase = "load"
  BY <1>1, <1>2 DEF Thread, Phases
<1>5. thread2 \in Thread /\ thread2.phase = "load" /\ thread2.slot = callers[a].slot
  BY <1>2, <1>4 DEF Thread, Caller
<1>6. thread3 \in Thread /\ thread3.phase = "load" /\ thread3.slot = callers[a].slot
  BY <1>2, <1>5 DEF Thread, Caller
<1>7. w \in SUBSET Flags
  BY ScanRunsAssumption DEF Flags
<1>8. thread \in Thread /\ thread.phase = "load" /\ thread.slot = callers[a].slot
  BY <1>6, <1>7 DEF Thread
<1>9. rows' = [rows EXCEPT ![r] = row]
  BY <1>1, <1>2 DEF Insert
<1>10. threads' = [threads EXCEPT ![r] = thread]
  BY <1>1, <1>2 DEF Insert
<1>11. AfterInsert(a) \in Caller
  <2>1. [callers[a] EXCEPT !.pc = "busy"] \in Caller
    BY CallerMoves
  <2>2. r \in 0..MaxRuns
    BY <1>1, ScanRunsAssumption DEF Runs
  <2>3. [[callers[a] EXCEPT !.pc = "busy"] EXCEPT !.run = r] \in Caller
    BY <2>1, <2>2 DEF Caller
  <2>4. QED
    BY <2>3, CallerMoves DEF AfterInsert
<1>12. callers' \in [Callers -> Caller]
  BY <1>11, CallerMoves DEF Insert
<1> HIDE DEF row, thread
<1>13. rows' \in [Runs -> Row] /\ rows'[r] = row /\ \A q \in Runs : q # r => rows'[q] = rows[q]
  BY <1>1, <1>2, <1>3, <1>9
<1>14. threads' \in [Runs -> Thread] /\ threads'[r] = thread
       /\ \A q \in Runs : q # r => threads'[q] = threads[q]
  BY <1>1, <1>2, <1>8, <1>10
<1> QED
  BY <1>1, <1>3, <1>8, <1>12, <1>13, <1>14

\* A call that fails leaves no row, or a PENDING one without a thread.
LEMMA OrphanFields ==
  ASSUME TypeOK, NEW a \in Callers, InsertFails(a)
  PROVE  /\ callers' \in [Callers -> Caller]
         /\ rows' \in [Runs -> Row]
         /\ nextRun' \in 1..(MaxRuns + 1)
         /\ \/ rows' = rows /\ nextRun' = nextRun
            \/ /\ nextRun \in Runs /\ nextRun' = nextRun + 1
               /\ rows'[nextRun].status = "PENDING"
               /\ rows'[nextRun].entries = rows[nextRun].entries
               /\ \A q \in Runs : q # nextRun => rows'[q] = rows[q]
<1>1. callers' \in [Callers -> Caller]
  BY CallerMoves DEF InsertFails
<1>2. CASE rows' = rows /\ nextRun' = nextRun
  BY <1>1, <1>2 DEF TypeOK
<1>3. CASE /\ nextRun <= MaxRuns /\ nextRun' = nextRun + 1
           /\ rows' = [rows EXCEPT ![nextRun].status = "PENDING",
                                  ![nextRun].config = callers[a].config]
  <2> DEFINE row1 == [rows[nextRun] EXCEPT !.status = "PENDING"]
             row == [row1 EXCEPT !.config = callers[a].config]
  <2>1. nextRun \in Runs /\ rows \in [Runs -> Row] /\ callers[a] \in Caller
    BY <1>3, ScanRunsAssumption DEF TypeOK, Runs
  <2>2. row \in Row /\ row.status = "PENDING" /\ row.entries = rows[nextRun].entries
    BY <2>1 DEF Row, Caller
  <2>3. rows' = [rows EXCEPT ![nextRun] = row]
    BY <1>3, <2>1
  <2>4. nextRun' \in 1..(MaxRuns + 1)
    BY <1>3, <2>1, ScanRunsAssumption DEF Runs
  <2> HIDE DEF row
  <2> QED
    BY <1>1, <1>3, <2>1, <2>2, <2>3, <2>4
<1> QED
  BY <1>2, <1>3 DEF InsertFails

\* The rows a step may write, and the moves of the process.
LEMMA RowMoves ==
  ASSUME TypeOK, NEW r \in Runs
  PROVE  /\ \A e \in BOOLEAN : [rows[r] EXCEPT !.entries = e] \in Row
         /\ [rows[r] EXCEPT !.note = "warning"] \in Row
         /\ \A n \in {"error", "interrupted"} :
               [[rows[r] EXCEPT !.status = "ERROR"] EXCEPT !.note = n] \in Row
         /\ \A new \in Row : [rows EXCEPT ![r] = new] \in [Runs -> Row]
<1>1. rows \in [Runs -> Row]
  BY DEF TypeOK
<1>2. rows[r] \in Row
  BY <1>1
<1>3. \A e \in BOOLEAN : [rows[r] EXCEPT !.entries = e] \in Row
  BY <1>2 DEF Row
<1>4. [rows[r] EXCEPT !.note = "warning"] \in Row
  BY <1>2 DEF Row
<1>5. [rows[r] EXCEPT !.status = "ERROR"] \in Row
  BY <1>2 DEF Row, Terminal
<1>6. \A n \in {"error", "interrupted"} :
         [[rows[r] EXCEPT !.status = "ERROR"] EXCEPT !.note = n] \in Row
  BY <1>5 DEF Row
<1> QED
  BY <1>1, <1>3, <1>4, <1>6

\* A process that ends takes its threads along.
LEMMA KilledThreads ==
  ASSUME TypeOK, NEW R
  PROVE  /\ Killed(R) \in [Runs -> Thread]
         /\ \A q \in Runs :
              \/ Killed(R)[q] = threads[q] /\ (threads[q].phase \in Ended \/ q \notin R)
              \/ /\ threads[q].phase \notin Ended /\ q \in R
                 /\ Killed(R)[q].phase = "killed"
                 /\ Killed(R)[q].slot = threads[q].slot
                 /\ Killed(R)[q].deliver = threads[q].deliver
                 /\ Killed(R)[q].evaluated = threads[q].evaluated
                 /\ Killed(R)[q].scored = threads[q].scored
                 /\ Killed(R)[q].saved = threads[q].saved
<1>0. threads \in [Runs -> Thread]
  BY DEF TypeOK
<1>1. ASSUME NEW q \in Runs
      PROVE  LET t == [threads[q] EXCEPT !.phase = "killed"]
             IN  /\ t \in Thread /\ t.phase = "killed" /\ t.slot = threads[q].slot
                 /\ t.deliver = threads[q].deliver /\ t.evaluated = threads[q].evaluated
                 /\ t.scored = threads[q].scored /\ t.saved = threads[q].saved
  <2>1. threads[q] \in Thread /\ "killed" \in Phases
    BY <1>0 DEF Phases, Ended
  <2> QED
    BY <2>1 DEF Thread
<1>2. \A q \in Runs : Killed(R)[q] = IF q \in R /\ threads[q].phase \notin Ended
                                     THEN [threads[q] EXCEPT !.phase = "killed"] ELSE threads[q]
  BY DEF Killed
<1>3. Killed(R) \in [Runs -> Thread]
  BY <1>0, <1>1 DEF Killed
<1> QED
  BY <1>1, <1>2, <1>3

\* A kill ends every thread, a graceful shutdown none or those of manual scans.
LEMMA ThreadsOfProcess ==
  ASSUME TypeOK, Crash \/ Drain, NEW q \in Runs
  PROVE  /\ threads' \in [Runs -> Thread]
         /\ \/ threads'[q] = threads[q]
            \/ /\ threads[q].phase \notin Ended /\ threads'[q].phase = "killed"
               /\ threads'[q].slot = threads[q].slot
               /\ threads'[q].deliver = threads[q].deliver
               /\ threads'[q].evaluated = threads[q].evaluated
               /\ threads'[q].scored = threads[q].scored
               /\ threads'[q].saved = threads[q].saved
         /\ Crash => threads'[q].phase \in Ended
<1>1. threads \in [Runs -> Thread]
  BY DEF TypeOK
<1>2. "killed" \in Ended
  BY DEF Ended
<1>3. \/ threads' = threads /\ Drain
      \/ \E R \in SUBSET Runs : threads' = Killed(R) /\ (Crash => R = Runs)
  <2>1. CASE Crash
    BY <2>1 DEF Crash
  <2>2. CASE Drain /\ ~Crash
    <3>1. {r \in Runs : threads[r].slot = Manual} \in SUBSET Runs
      OBVIOUS
    <3> QED
      BY <2>2, <3>1 DEF Drain
  <2> QED
    BY <2>1, <2>2
<1>4. CASE threads' = threads /\ Drain
  <2>1. ~Crash
    <3>1. Crash => env'.drains = env.drains
      BY DEF Crash, TypeOK, Server
    <3>2. env'.drains = env.drains + 1 /\ env.drains \in Nat
      BY <1>4 DEF Drain, TypeOK, Server
    <3> QED
      BY <3>1, <3>2
  <2> QED
    BY <1>1, <1>4, <2>1
<1>5. ASSUME NEW R \in SUBSET Runs, threads' = Killed(R), Crash => R = Runs
      PROVE  /\ threads' \in [Runs -> Thread]
             /\ \/ threads'[q] = threads[q]
                \/ /\ threads[q].phase \notin Ended /\ threads'[q].phase = "killed"
                   /\ threads'[q].slot = threads[q].slot
                   /\ threads'[q].deliver = threads[q].deliver
                   /\ threads'[q].evaluated = threads[q].evaluated
                   /\ threads'[q].scored = threads[q].scored
                   /\ threads'[q].saved = threads[q].saved
             /\ Crash => threads'[q].phase \in Ended
  <2>1. Killed(R) \in [Runs -> Thread]
    BY KilledThreads
  <2>2. \/ Killed(R)[q] = threads[q] /\ (threads[q].phase \in Ended \/ q \notin R)
        \/ /\ threads[q].phase \notin Ended /\ q \in R
           /\ Killed(R)[q].phase = "killed"
           /\ Killed(R)[q].slot = threads[q].slot
           /\ Killed(R)[q].deliver = threads[q].deliver
           /\ Killed(R)[q].evaluated = threads[q].evaluated
           /\ Killed(R)[q].scored = threads[q].scored
           /\ Killed(R)[q].saved = threads[q].saved
    BY KilledThreads
  <2> QED
    BY <1>2, <1>5, <2>1, <2>2
<1> QED
  BY <1>3, <1>4, <1>5

\* A start-up lists, or marks one of the rows that it listed.
LEMMA RestartMoves ==
  ASSUME TypeOK, Restart
  PROVE  /\ UNCHANGED <<threads, callers, nextRun, batches, events, sent>>
         /\ rows' \in [Runs -> Row]
         /\ \A q \in Runs : \/ rows'[q] = rows[q]
                             \/ /\ q \in env.stale
                                /\ rows'[q].status = "ERROR" /\ rows'[q].note = "interrupted"
                                /\ rows'[q].config = rows[q].config
                                /\ rows'[q].entries = rows[q].entries
<1>0. rows \in [Runs -> Row]
  BY DEF TypeOK
<1>1. CASE ListRunning
  BY <1>0, <1>1 DEF ListRunning
<1>2. ASSUME NEW r \in Runs, MarkInterrupted(r)
      PROVE  /\ UNCHANGED <<threads, callers, nextRun, batches, events, sent>>
             /\ rows' \in [Runs -> Row]
             /\ \A q \in Runs : \/ rows'[q] = rows[q]
                                 \/ /\ q \in env.stale
                                    /\ rows'[q].status = "ERROR" /\ rows'[q].note = "interrupted"
                                    /\ rows'[q].config = rows[q].config
                                    /\ rows'[q].entries = rows[q].entries
  <2>1. /\ Interrupted(r) \in Row
        /\ Interrupted(r).status = "ERROR" /\ Interrupted(r).note = "interrupted"
        /\ Interrupted(r).config = rows[r].config
        /\ Interrupted(r).entries = rows[r].entries
    <3>1. rows[r] \in Row
      BY <1>0
    <3>2. Interrupted(r) = [[rows[r] EXCEPT !.status = "ERROR"] EXCEPT !.note = "interrupted"]
      BY <3>1 DEF Interrupted, Row
    <3> QED
      BY <3>1, <3>2 DEF Row, Terminal
  <2>2. r \in env.stale
    BY <1>2 DEF MarkInterrupted
  <2>3. rows' = [rows EXCEPT ![r] = Interrupted(r)] \/ rows' = rows
    BY <1>2 DEF MarkInterrupted
  <2>4. CASE rows' = [rows EXCEPT ![r] = Interrupted(r)]
    <3>1. rows' \in [Runs -> Row] /\ rows'[r] = Interrupted(r)
      BY <1>0, <2>1, <2>4
    <3>2. \A q \in Runs : q # r => rows'[q] = rows[q]
      BY <1>0, <2>4
    <3>3. UNCHANGED <<threads, callers, nextRun, batches, events, sent>>
      BY <1>2 DEF MarkInterrupted
    <3> QED
      BY <2>1, <2>2, <3>1, <3>2, <3>3
  <2>5. CASE rows' = rows
    BY <1>0, <1>2, <2>5 DEF MarkInterrupted
  <2> QED
    BY <2>3, <2>4, <2>5
<1> QED
  BY <1>1, <1>2 DEF Restart

\* What start-ups and shutdowns do to the server.
LEMMA ServerFields ==
  ASSUME NEW e \in Server, NEW up \in BOOLEAN, NEW stale \in SUBSET Runs
  PROVE  LET f == [[e EXCEPT !.stale = stale] EXCEPT !.up = up]
         IN  /\ f \in Server /\ f.up = up /\ f.stale = stale /\ f.slot = e.slot
             /\ f.crashes = e.crashes /\ f.drains = e.drains /\ f.sql = e.sql
             /\ f.mongo = e.mongo
<1> DEFINE g == [e EXCEPT !.stale = stale]
<1>1. /\ g \in Server /\ g.stale = stale /\ g.slot = e.slot /\ g.crashes = e.crashes
      /\ g.drains = e.drains /\ g.sql = e.sql /\ g.mongo = e.mongo
  BY DEF Server
<1> HIDE DEF g
<1>2. LET f == [g EXCEPT !.up = up]
      IN  /\ f \in Server /\ f.up = up /\ f.stale = g.stale /\ f.slot = g.slot
          /\ f.crashes = g.crashes /\ f.drains = g.drains /\ f.sql = g.sql
          /\ f.mongo = g.mongo
  BY <1>1 DEF Server
<1> QED
  BY <1>1, <1>2 DEF g

LEMMA ServerCounts ==
  ASSUME NEW e \in Server, NEW n \in Nat
  PROVE  /\ LET f == [e EXCEPT !.sql = n]
            IN  /\ f \in Server /\ f.sql = n /\ f.up = e.up /\ f.stale = e.stale
                /\ f.drains = e.drains /\ f.mongo = e.mongo
         /\ LET f == [e EXCEPT !.crashes = n]
            IN  /\ f \in Server /\ f.sql = e.sql /\ f.up = e.up /\ f.stale = e.stale
                /\ f.drains = e.drains /\ f.mongo = e.mongo
         /\ LET f == [e EXCEPT !.drains = n]
            IN  /\ f \in Server /\ f.sql = e.sql /\ f.up = e.up /\ f.stale = e.stale
                /\ f.drains = n /\ f.mongo = e.mongo
  BY DEF Server

LEMMA RestartServer ==
  ASSUME TypeOK, Restart
  PROVE  /\ env' \in Server
         /\ env'.drains = env.drains /\ env'.mongo = env.mongo /\ env.sql \in Nat
         /\ \/ ListRunning /\ ~env.up
            \/ ~ListRunning /\ env.stale # {}
         /\ \/ env'.sql = env.sql + 1 /\ env'.up /\ env'.stale = {}
            \/ /\ env'.sql = env.sql
               /\ ListRunning /\ env.stale = {} /\ rows' = rows
               /\ env'.stale = {r \in Runs : rows[r].status = "RUNNING"}
               /\ env'.up = (env'.stale = {})
            \/ /\ env'.sql = env.sql
               /\ env'.up = (env'.stale = {})
               /\ \E r \in env.stale : /\ env'.stale = env.stale \ {r}
                                       /\ rows'[r].status = "ERROR"
                                       /\ \A q \in Runs : q # r => rows'[q] = rows[q]
<1>0. env \in Server /\ rows \in [Runs -> Row] /\ env.sql \in Nat /\ env.sql + 1 \in Nat
  BY DEF TypeOK, Server
<1>1. CASE ListRunning
  <2> DEFINE running == {r \in Runs : rows[r].status = "RUNNING"}
  <2>1. running \in SUBSET Runs /\ (running = {}) \in BOOLEAN /\ ~env.up /\ env.stale = {} /\ rows' = rows
    BY <1>1 DEF ListRunning
  <2>2. \/ env' = [[env EXCEPT !.stale = running] EXCEPT !.up = (running = {})]
        \/ env' = [[[env EXCEPT !.stale = {}] EXCEPT !.up = TRUE] EXCEPT !.sql = env.sql + 1]
    <3>1. [env EXCEPT !.stale = {}] = env
      BY <1>0, <2>1 DEF Server
    <3>2. \/ env' = [env EXCEPT !.stale = running, !.up = (running = {})]
          \/ env' = [env EXCEPT !.up = TRUE, !.sql = env.sql + 1]
      BY <1>1 DEF ListRunning
    <3>3. CASE env' = [env EXCEPT !.stale = running, !.up = (running = {})]
      BY <1>0, <3>3
    <3>4. CASE env' = [env EXCEPT !.up = TRUE, !.sql = env.sql + 1]
      BY <1>0, <3>1, <3>4
    <3> QED
      BY <3>2, <3>3, <3>4
  <2> HIDE DEF running
  <2>3. CASE env' = [[env EXCEPT !.stale = running] EXCEPT !.up = (running = {})]
    <3>b. ASSUME NEW now \in BOOLEAN, env' = [[env EXCEPT !.stale = running] EXCEPT !.up = now]
          PROVE  /\ env' \in Server /\ env'.up = now /\ env'.stale = running
                 /\ env'.drains = env.drains /\ env'.sql = env.sql /\ env'.mongo = env.mongo
      <4> DEFINE g == [env EXCEPT !.stale = running]
      <4>1. /\ g \in Server /\ g.stale = running /\ g.drains = env.drains
            /\ g.sql = env.sql /\ g.mongo = env.mongo
        BY <1>0, <2>1 DEF Server
      <4>2. env' = [g EXCEPT !.up = now]
        BY <3>b
      <4> HIDE DEF g
      <4> QED
        BY <3>b, <4>1, <4>2 DEF Server
    <3>1. /\ env' \in Server /\ env'.up = (running = {}) /\ env'.stale = running
          /\ env'.drains = env.drains /\ env'.sql = env.sql /\ env'.mongo = env.mongo
      BY <2>3, <2>1, <3>b
    <3> QED
      BY <1>0, <1>1, <2>1, <3>1 DEF running
  <2>4. CASE env' = [[[env EXCEPT !.stale = {}] EXCEPT !.up = TRUE] EXCEPT !.sql = env.sql + 1]
    <3> DEFINE f == [[env EXCEPT !.stale = {}] EXCEPT !.up = TRUE]
    <3>1. /\ f \in Server /\ f.up = TRUE /\ f.stale = {} /\ f.drains = env.drains
          /\ f.mongo = env.mongo
      BY <1>0, ServerFields
    <3>2. env' = [f EXCEPT !.sql = env.sql + 1]
      BY <2>4
    <3> HIDE DEF f
    <3>3. /\ env' \in Server /\ env'.up = TRUE /\ env'.stale = {} /\ env'.drains = env.drains
          /\ env'.mongo = env.mongo /\ env'.sql = env.sql + 1
      BY <1>0, <3>1, <3>2, ServerCounts
    <3> QED
      BY <1>0, <1>1, <2>1, <3>3
  <2> QED
    BY <2>2, <2>3, <2>4
<1>2. ASSUME NEW r \in Runs, MarkInterrupted(r), ~ListRunning
      PROVE  /\ env' \in Server /\ env.stale # {}
             /\ env'.drains = env.drains /\ env'.mongo = env.mongo
             /\ \/ env'.sql = env.sql + 1 /\ env'.up /\ env'.stale = {}
                \/ /\ env'.sql = env.sql
                   /\ env'.up = (env'.stale = {})
                   /\ \E q \in env.stale : /\ env'.stale = env.stale \ {q}
                                           /\ rows'[q].status = "ERROR"
                                           /\ \A p \in Runs : p # q => rows'[p] = rows[p]
  <2>1. r \in env.stale /\ env.stale \in SUBSET Runs
    BY <1>0, <1>2 DEF MarkInterrupted, Server
  <2>2. CASE /\ rows' = [rows EXCEPT ![r] = Interrupted(r)]
             /\ env' = [env EXCEPT !.stale = @ \ {r}, !.up = (env.stale = {r})]
    <3> DEFINE rest == env.stale \ {r}
    <3>1. env' = [[env EXCEPT !.stale = rest] EXCEPT !.up = (env.stale = {r})]
      BY <1>0, <2>2
    <3>2. rest \in SUBSET Runs /\ (env.stale = {r}) \in BOOLEAN
      BY <2>1
    <3>3. (env.stale = {r}) <=> (rest = {})
      BY <2>1
    <3>4. rest = env.stale \ {r}
      OBVIOUS
    <3> HIDE DEF rest
    <3>b. ASSUME NEW now \in BOOLEAN, env' = [[env EXCEPT !.stale = rest] EXCEPT !.up = now]
          PROVE  /\ env' \in Server /\ env'.up = now /\ env'.stale = rest
                 /\ env'.drains = env.drains /\ env'.sql = env.sql /\ env'.mongo = env.mongo
      <4> DEFINE g == [env EXCEPT !.stale = rest]
      <4>1. /\ g \in Server /\ g.stale = rest /\ g.drains = env.drains
            /\ g.sql = env.sql /\ g.mongo = env.mongo
        BY <1>0, <3>2 DEF Server
      <4>2. env' = [g EXCEPT !.up = now]
        BY <3>b
      <4> HIDE DEF g
      <4> QED
        BY <3>b, <4>1, <4>2 DEF Server
    <3>5. /\ env' \in Server /\ env'.up = (env.stale = {r}) /\ env'.stale = rest
          /\ env'.drains = env.drains /\ env'.sql = env.sql /\ env'.mongo = env.mongo
      BY <3>1, <3>2, <3>b
    <3>6. rows'[r] = Interrupted(r) /\ \A q \in Runs : q # r => rows'[q] = rows[q]
      BY <1>0, <2>2
    <3>7. rows'[r].status = "ERROR"
      <4>1. rows[r] \in Row
        BY <1>0
      <4> QED
        BY <3>6, <4>1 DEF Interrupted, Row
    <3> QED
      BY <2>1, <3>3, <3>4, <3>5, <3>6, <3>7
  <2>3. CASE env' = [env EXCEPT !.stale = {}, !.up = TRUE, !.sql = @ + 1]
    <3> DEFINE f == [[env EXCEPT !.stale = {}] EXCEPT !.up = TRUE]
    <3>1. /\ f \in Server /\ f.up = TRUE /\ f.stale = {} /\ f.drains = env.drains
          /\ f.mongo = env.mongo
      BY <1>0, ServerFields
    <3>2. env' = [f EXCEPT !.sql = env.sql + 1]
      BY <1>0, <2>3
    <3> HIDE DEF f
    <3>3. /\ env' \in Server /\ env'.up = TRUE /\ env'.stale = {} /\ env'.drains = env.drains
          /\ env'.mongo = env.mongo /\ env'.sql = env.sql + 1
      BY <1>0, <3>1, <3>2, ServerCounts
    <3> QED
      BY <2>1, <3>3
  <2> QED
    BY <1>2, <2>2, <2>3 DEF MarkInterrupted
<1> QED
  BY <1>0, <1>1, <1>2 DEF Restart

LEMMA ProcessMoves ==
  ASSUME TypeOK, Crash \/ Drain \/ Tick
  PROVE  /\ env' \in Server
         /\ env'.sql = env.sql /\ env'.mongo = env.mongo
         /\ Crash => ~env'.up /\ env'.stale = {} /\ env'.drains = env.drains
         /\ Drain => /\ ~env'.up /\ env'.stale = env.stale /\ env'.drains = env.drains + 1
                     /\ env.up
         /\ Tick => env'.up = env.up /\ env'.stale = env.stale /\ env'.drains = env.drains
<1>0. env \in Server /\ env.crashes + 1 \in Nat /\ env.drains + 1 \in Nat /\ env.drains \in Nat
      /\ env.stale \in SUBSET Runs
  BY DEF TypeOK, Server
<1>1. Crash => /\ env' \in Server /\ env'.sql = env.sql /\ env'.mongo = env.mongo
               /\ ~env'.up /\ env'.stale = {} /\ env'.drains = env.drains
  <2> SUFFICES ASSUME Crash
               PROVE  /\ env' \in Server /\ env'.sql = env.sql /\ env'.mongo = env.mongo
                      /\ ~env'.up /\ env'.stale = {} /\ env'.drains = env.drains
    OBVIOUS
  <2> DEFINE f == [[env EXCEPT !.stale = {}] EXCEPT !.up = FALSE]
  <2>1. /\ f \in Server /\ f.up = FALSE /\ f.stale = {} /\ f.drains = env.drains
        /\ f.mongo = env.mongo /\ f.sql = env.sql
    BY <1>0, ServerFields
  <2>2. env' = [f EXCEPT !.crashes = env.crashes + 1]
    BY <1>0 DEF Crash
  <2> HIDE DEF f
  <2> QED
    BY <1>0, <2>1, <2>2, ServerCounts
<1>2. Drain => /\ env' \in Server /\ env'.sql = env.sql /\ env'.mongo = env.mongo /\ env.up
               /\ ~env'.up /\ env'.stale = env.stale /\ env'.drains = env.drains + 1
  <2> SUFFICES ASSUME Drain
               PROVE  /\ env' \in Server /\ env'.sql = env.sql /\ env'.mongo = env.mongo /\ env.up
                      /\ ~env'.up /\ env'.stale = env.stale /\ env'.drains = env.drains + 1
    OBVIOUS
  <2> DEFINE f == [[env EXCEPT !.stale = env.stale] EXCEPT !.up = FALSE]
  <2>1. /\ f \in Server /\ f.up = FALSE /\ f.stale = env.stale
        /\ f.mongo = env.mongo /\ f.sql = env.sql
    BY <1>0, ServerFields
  <2>2. env' = [f EXCEPT !.drains = env.drains + 1]
    <3>1. [env EXCEPT !.stale = env.stale] = env
      BY <1>0 DEF Server
    <3> QED
      BY <1>0, <3>1 DEF Drain
  <2>3. env.up
    BY DEF Drain
  <2> HIDE DEF f
  <2> QED
    BY <1>0, <2>1, <2>2, <2>3, ServerCounts
<1>3. Tick => /\ env' \in Server /\ env'.sql = env.sql /\ env'.mongo = env.mongo
              /\ env'.up = env.up /\ env'.stale = env.stale /\ env'.drains = env.drains
  <2> SUFFICES ASSUME Tick
               PROVE  /\ env' \in Server /\ env'.sql = env.sql /\ env'.mongo = env.mongo
                      /\ env'.up = env.up /\ env'.stale = env.stale /\ env'.drains = env.drains
    OBVIOUS
  <2>1. env' = [env EXCEPT !.slot = env.slot + 1] /\ env.slot + 1 \in 1..MaxSlot
    BY <1>0, ScanRunsAssumption DEF Tick, Server
  <2> QED
    BY <1>0, <2>1 DEF Server
<1> QED
  BY <1>1, <1>2, <1>3

-----------------------------------------------------------------------------
\* Type correctness: each step leaves every variable in its type.
LEMMA TypeStep == TypeOK /\ [Next]_vars => TypeOK'
<1> SUFFICES ASSUME TypeOK, [Next]_vars PROVE TypeOK'
  OBVIOUS
<1>0. /\ rows \in [Runs -> Row] /\ threads \in [Runs -> Thread]
      /\ callers \in [Callers -> Caller] /\ nextRun \in 1..(MaxRuns + 1)
      /\ batches \in [Keys -> Batch] /\ env \in Server
      /\ events \in [Runs -> SUBSET {"start", "complete", "error", "close"}]
      /\ sent \in [Runs -> SUBSET Effects]
  BY DEF TypeOK
<1>1. ASSUME NEW c \in Configs, Fire(c) PROVE TypeOK'
  <2>1. [pc |-> "lookup", config |-> c, slot |-> env.slot, deliver |-> TRUE, run |-> NoRun] \in Caller
    BY <1>0, ScanRunsAssumption DEF Caller, NoRun, Server
  <2>2. c \in Callers
    BY DEF Callers, CronCallers
  <2>3. callers' \in [Callers -> Caller]
    BY <1>1, <2>1, <2>2, CallerMoves DEF Fire
  <2> QED
    BY <1>1, <2>3 DEF Fire, TypeOK
<1>2. ASSUME NEW c \in CronCallers, Lookup(c) PROVE TypeOK'
  <2>1. c \in Callers
    BY DEF Callers
  <2>2. Idle \in Caller /\ [callers[c] EXCEPT !.pc = "check"] \in Caller
    BY <2>1, CallerMoves
  <2>a. \/ callers' = [callers EXCEPT ![c] = Idle]
        \/ callers' = [callers EXCEPT ![c] = [callers[c] EXCEPT !.pc = "check"]]
    BY <1>0, <1>2 DEF Lookup
  <2>3. callers' \in [Callers -> Caller]
    BY <1>0, <2>1, <2>2, <2>a
  <2>4. env' \in Server
    BY <1>2, FaultFields DEF Lookup
  <2> QED
    BY <1>2, <2>3, <2>4 DEF Lookup, TypeOK
<1>3. ASSUME NEW m \in Requests, NEW c \in Configs, NEW d \in BOOLEAN, Request(m, c, d)
      PROVE TypeOK'
  <2>1. [pc |-> "check", config |-> c, slot |-> Manual, deliver |-> d, run |-> NoRun] \in Caller
    BY <1>0, ScanRunsAssumption DEF Caller, NoRun, Manual
  <2>2. m \in Callers
    BY DEF Callers
  <2>3. callers' \in [Callers -> Caller]
    BY <1>3, <2>1, <2>2, CallerMoves DEF Request
  <2> QED
    BY <1>3, <2>3 DEF Request, TypeOK
<1>4. ASSUME NEW a \in Callers, Check(a) PROVE TypeOK'
  <2>1. [callers[a] EXCEPT !.pc = "insert"] \in Caller
    BY CallerMoves
  <2>2. callers' \in [Callers -> Caller]
    BY <1>4, <2>1, CallerMoves DEF Check
  <2> QED
    BY <1>4, <2>2 DEF Check, TypeOK
<1>5. ASSUME NEW a \in Callers, InsertFails(a) PROVE TypeOK'
  <2>1. env' \in Server
    BY <1>5, FaultFields DEF InsertFails
  <2> QED
    BY <1>5, <2>1, OrphanFields DEF InsertFails, TypeOK
<1>6. ASSUME NEW a \in Callers, NEW w \in MailPlans, Insert(a, w) PROVE TypeOK'
  <2>1. nextRun' \in 1..(MaxRuns + 1)
    BY <1>6, InsertFields, ScanRunsAssumption DEF Runs
  <2> QED
    BY <1>6, <2>1, InsertFields DEF Insert, TypeOK
<1>7. ASSUME NEW c \in CronCallers, CronReturns(c) PROVE TypeOK'
  <2>1. callers' \in [Callers -> Caller]
    BY <1>7, CallerMoves DEF CronReturns, Callers
  <2> QED
    BY <1>7, <2>1 DEF CronReturns, TypeOK
<1>8. ASSUME NEW r \in Runs, Start(r) PROVE TypeOK'
  <2>1. rows' \in [Runs -> Row] /\ threads' \in [Runs -> Thread]
    BY <1>8, StatusFields, GotoFields DEF Start, Phases, Body
  <2>2. events' \in [Runs -> SUBSET {"start", "complete", "error", "close"}]
    BY <1>0, <1>8 DEF Start
  <2> QED
    BY <1>8, <2>1, <2>2 DEF Start, TypeOK
<1>9. ASSUME NEW r \in Runs, SaveBegin(r) PROVE TypeOK'
  <2>1. threads' \in [Runs -> Thread]
    BY <1>9, SavedFields, GotoFields DEF SaveBegin, Phases, Body
  <2>2. [status |-> "running", run |-> r] \in Batch
    BY DEF Batch, Runs
  <2>3. batches' \in [Keys -> Batch]
    BY <1>0, <1>9, <2>2 DEF SaveBegin
  <2>4. env' \in Server
    BY <1>9, FaultFields DEF SaveBegin
  <2> QED
    BY <1>9, <2>1, <2>3, <2>4 DEF SaveBegin, TypeOK
<1>10. ASSUME NEW r \in Runs, SaveEnd(r) PROVE TypeOK'
  <2>1. threads' \in [Runs -> Thread]
    BY <1>10, SavedFields DEF SaveEnd
  <2>2. PICK s \in Published \cup {"failed", "running"} : batches' = [batches EXCEPT ![Key(r)].status = s]
    BY <1>10 DEF SaveEnd
  <2>3. batches' \in [Keys -> Batch]
    <3>1. CASE Key(r) \in Keys
      <4>1. [batches[Key(r)] EXCEPT !.status = s] \in Batch
        BY <1>0, <3>1 DEF Batch
      <4> QED
        BY <1>0, <2>2, <3>1, <4>1
    <3>2. CASE Key(r) \notin Keys
      BY <1>0, <2>2, <3>2
    <3> QED
      BY <3>1, <3>2
  <2>4. env' \in Server
    BY <1>10, FaultFields DEF SaveEnd
  <2> QED
    BY <1>10, <2>1, <2>3, <2>4 DEF SaveEnd, TypeOK
<1>11. ASSUME NEW r \in Runs, Persist(r) PROVE TypeOK'
  <2>1. threads' \in [Runs -> Thread]
    BY <1>11, GotoFields DEF Persist, Phases, Body
  <2>2. [rows[r] EXCEPT !.entries = threads[r].scored] \in Row
    BY <1>0, RowMoves DEF Thread
  <2>3. rows' \in [Runs -> Row]
    BY <1>0, <1>11, <2>2 DEF Persist
  <2> QED
    BY <1>11, <2>1, <2>3 DEF Persist, TypeOK
<1>12. ASSUME NEW r \in Runs, Complete(r) PROVE TypeOK'
  BY <1>12, StatusFields, GotoFields DEF Complete, Phases, TypeOK
<1>13. ASSUME NEW r \in Runs, Warn(r) PROVE TypeOK'
  <2>1. threads' \in [Runs -> Thread]
    BY <1>13, GotoFields DEF Warn, Phases
  <2>2. [rows[r] EXCEPT !.note = "warning"] \in Row
    BY RowMoves
  <2>3. rows' \in [Runs -> Row]
    BY <1>0, <1>13, <2>2 DEF Warn
  <2> QED
    BY <1>13, <2>1, <2>3 DEF Warn, TypeOK
<1>14. ASSUME NEW r \in Runs, NEW e \in {"all", "some", "none"}, NEW s \in BOOLEAN,
              Scan(r, e, s) PROVE TypeOK'
  BY <1>14, ScanFields DEF Scan, TypeOK
<1>15. ASSUME NEW r \in Runs, Announce(r) PROVE TypeOK'
  <2>1. threads' \in [Runs -> Thread]
    BY <1>15, GotoFields DEF Announce, Phases, Followup
  <2>2. events' \in [Runs -> SUBSET {"start", "complete", "error", "close"}]
    BY <1>0, <1>15 DEF Announce
  <2> QED
    BY <1>15, <2>1, <2>2 DEF Announce, TypeOK
<1>16. ASSUME NEW r \in Runs, MarkError(r) PROVE TypeOK'
  <2>1. threads' \in [Runs -> Thread]
    BY <1>16, GotoFields DEF MarkError, Phases
  <2>2. [[rows[r] EXCEPT !.status = "ERROR"] EXCEPT !.note = "error"] \in Row
    BY RowMoves
  <2>3. rows' \in [Runs -> Row]
    BY <1>0, <1>16, <2>2 DEF MarkError
  <2>4. env' \in Server
    BY <1>16, FaultFields DEF MarkError
  <2> QED
    BY <1>16, <2>1, <2>3, <2>4 DEF MarkError, TypeOK
<1>17. ASSUME NEW r \in Runs, Abort(r) PROVE TypeOK'
  <2>1. threads' \in [Runs -> Thread]
    BY <1>17, GotoFields DEF Abort, Phases, Ended
  <2>2. events' \in [Runs -> SUBSET {"start", "complete", "error", "close"}]
    BY <1>0, <1>17 DEF Abort
  <2> QED
    BY <1>17, <2>1, <2>2 DEF Abort, TypeOK
<1>18. ASSUME NEW r \in Runs, EmailWatchlist(r) PROVE TypeOK'
  <2>1. threads' \in [Runs -> Thread]
    BY <1>18, GotoFields DEF EmailWatchlist, Phases, Followup
  <2>2. sent[r] \cup {"recipient mail"} \in SUBSET Effects
    BY <1>0 DEF Effects
  <2>3. sent' \in [Runs -> SUBSET Effects]
    BY <1>0, <1>18, <2>2 DEF EmailWatchlist
  <2> QED
    BY <1>18, <2>1, <2>3 DEF EmailWatchlist, TypeOK
<1>19. ASSUME NEW r \in Runs, AutoSop(r) PROVE TypeOK'
  <2>1. threads' \in [Runs -> Thread]
    BY <1>19, GotoFields DEF AutoSop, Phases, Followup
  <2>2. PICK mail \in SUBSET Effects : sent' = [sent EXCEPT ![r] = @ \cup mail]
    <3>1. {"bundle", "recipient mail"} \in SUBSET Effects /\ {"bundle"} \in SUBSET Effects
          /\ {} \in SUBSET Effects
      BY DEF Effects
    <3>2. sent[r] \cup {} = sent[r]
      OBVIOUS
    <3>3. sent = [sent EXCEPT ![r] = @ \cup {}]
      BY <1>0, <3>2
    <3> QED
      BY <1>19, <3>1, <3>3 DEF AutoSop
  <2>3. sent[r] \cup mail \in SUBSET Effects
    BY <1>0
  <2>4. sent' \in [Runs -> SUBSET Effects]
    BY <1>0, <2>2, <2>3
  <2> QED
    BY <1>19, <2>1, <2>4 DEF AutoSop, TypeOK
<1>20. ASSUME NEW r \in Runs, Raises(r) PROVE TypeOK'
  <2>1. threads' \in [Runs -> Thread]
    BY <1>20, GotoFields DEF Raises, Phases
  <2>2. env' \in Server
    BY <1>20, FaultFields DEF Raises
  <2>3. batches' \in [Keys -> Batch]
    <3>1. CASE batches' = batches
      BY <1>0, <3>1
    <3>2. CASE batches' = [batches EXCEPT ![Key(r)].status = "failed"]
      <4>1. CASE Key(r) \in Keys
        <5>1. [batches[Key(r)] EXCEPT !.status = "failed"] \in Batch
          BY <1>0, <4>1 DEF Batch
        <5> QED
          BY <1>0, <3>2, <4>1, <5>1
      <4>2. CASE Key(r) \notin Keys
        BY <1>0, <3>2, <4>2
      <4> QED
        BY <4>1, <4>2
    <3> QED
      BY <1>20, <3>1, <3>2 DEF Raises
  <2> QED
    BY <1>20, <2>1, <2>2, <2>3 DEF Raises, TypeOK
<1>r. ASSUME NEW r \in Runs, RefreshFails(r) PROVE TypeOK'
  <2>1. threads' \in [Runs -> Thread]
    BY <1>r, GotoFields DEF RefreshFails, Phases
  <2>2. rows' \in [Runs -> Row]
    BY <1>r, StatusFields DEF RefreshFails
  <2>3. env' \in Server
    BY <1>r, FaultFields DEF RefreshFails
  <2> QED
    BY <1>r, <2>1, <2>2, <2>3 DEF RefreshFails, TypeOK
<1>21. CASE Crash
  <2>1. threads' \in [Runs -> Thread]
    BY <1>21, KilledThreads DEF Crash
  <2>2. callers' \in [Callers -> Caller]
    BY <1>21, CallerMoves DEF Crash
  <2>3. env' \in Server
    BY <1>21, ProcessMoves
  <2> QED
    BY <1>21, <2>1, <2>2, <2>3 DEF Crash, TypeOK
<1>22. CASE Drain
  <2>1. threads' \in [Runs -> Thread]
    BY <1>0, <1>22, KilledThreads DEF Drain
  <2>2. callers' \in [Callers -> Caller]
    <3>1. \A a \in Configs \X {env.drains + 1} : a[1] \in Callers
      BY DEF Callers, CronCallers
    <3>2. Idle \in Caller
      <4>1. 0 \in 0..MaxSlot /\ 0 \in 0..MaxRuns
        BY ScanRunsAssumption
      <4> QED
        BY <4>1 DEF Idle, Caller, NoRun, Manual
    <3>3. \A a \in Callers : /\ Idle \in Caller /\ callers[a] \in Caller
                             /\ a \in Configs \X {env.drains + 1} => callers[a[1]] \in Caller
      BY <1>0, <3>1, <3>2
    <3> QED
      BY <1>22, <3>3 DEF Drain
  <2>3. env' \in Server
    BY <1>22, ProcessMoves
  <2> QED
    BY <1>22, <2>1, <2>2, <2>3 DEF Drain, TypeOK
<1>23. CASE Restart
  BY <1>23, RestartMoves, RestartServer DEF TypeOK
<1>24. CASE Tick
  <2>1. env' \in Server
    BY <1>24, ProcessMoves
  <2> QED
    BY <1>24, <2>1 DEF Tick, TypeOK
<1>25. CASE UNCHANGED vars
  BY <1>25 DEF vars, TypeOK
<1> QED
  BY <1>1, <1>2, <1>3, <1>4, <1>5, <1>6, <1>7, <1>8, <1>9, <1>10, <1>11, <1>12, <1>13, <1>14,
     <1>15, <1>16, <1>17, <1>18, <1>19, <1>20, <1>r, <1>21, <1>22, <1>23, <1>24, <1>25
     DEF Next, CallerStep, ThreadStep

\* Every reachable state has the shape TypeOK gives it.
THEOREM TypeCorrect == Spec => []TypeOK
<1>1. TypeOK /\ [Next]_vars => TypeOK'
  BY TypeStep
<1>2. QED
  BY TypeInit, <1>1, PTL DEF Spec

-----------------------------------------------------------------------------
\* Failures and shutdowns are only counted up.
LEMMA CountersGrow ==
  ASSUME TypeOK, [Next]_vars
  PROVE  /\ env'.sql = 0 => env.sql = 0
         /\ env'.mongo = 0 => env.mongo = 0
         /\ env'.drains = 0 => env.drains = 0
         /\ env.drains > 0 => env'.drains > 0
<1> DEFINE Grows == /\ env'.sql >= env.sql /\ env'.mongo >= env.mongo
                    /\ env'.drains >= env.drains
<1>0. /\ env.sql \in Nat /\ env.mongo \in Nat /\ env.drains \in Nat
      /\ env'.sql \in Nat /\ env'.mongo \in Nat /\ env'.drains \in Nat
  BY TypeStep DEF TypeOK, Server
<1>1. env \in Server
  BY DEF TypeOK
<1>2. CASE env' = env
  BY <1>0, <1>2
<1>3. CASE SqlFault
  BY <1>0, <1>1, <1>3 DEF SqlFault, Server
<1>4. CASE MongoFault
  BY <1>0, <1>1, <1>4 DEF MongoFault, Server
<1>5. ASSUME Grows
      PROVE  /\ env'.sql = 0 => env.sql = 0
             /\ env'.mongo = 0 => env.mongo = 0
             /\ env'.drains = 0 => env.drains = 0
             /\ env.drains > 0 => env'.drains > 0
  BY <1>0, <1>5
<1>6. CASE Crash \/ Drain \/ Tick
  <2>1. Crash => env'.drains = env.drains
    BY ProcessMoves
  <2>2. Drain => env'.drains = env.drains + 1
    BY ProcessMoves
  <2>3. Tick => env'.drains = env.drains
    BY ProcessMoves
  <2>4. env'.sql = env.sql /\ env'.mongo = env.mongo
    BY <1>6, ProcessMoves
  <2> QED
    BY <1>0, <1>5, <1>6, <2>1, <2>2, <2>3, <2>4
<1>7. CASE Restart
  <2>1. env'.drains = env.drains /\ env'.mongo = env.mongo
        /\ (env'.sql = env.sql + 1 \/ env'.sql = env.sql)
    BY <1>7, RestartServer
  <2> QED
    BY <1>0, <1>5, <2>1
<1>8. ~(Crash \/ Drain \/ Tick \/ Restart) => UNCHANGED env \/ SqlFault \/ MongoFault
  BY DEF Next, CallerStep, ThreadStep, Raises, RefreshFails, Fire, Lookup, CronReturns, Request,
     Check, InsertFails, Insert, Start, SaveBegin, SaveEnd, Persist, Complete, Warn, Scan,
     Announce, MarkError, Abort, EmailWatchlist, AutoSop, vars
<1> QED
  BY <1>2, <1>3, <1>4, <1>6, <1>7, <1>8

-----------------------------------------------------------------------------
\* A thread works on its own run only.
LEMMA OtherRunsUntouched ==
  ASSUME TypeOK, NEW r \in Runs, ThreadStep(r) \/ Raises(r) \/ RefreshFails(r), NEW q \in Runs, q # r
  PROVE  /\ rows'[q] = rows[q] /\ threads'[q] = threads[q]
         /\ events'[q] = events[q] /\ sent'[q] = sent[q]
         /\ nextRun' = nextRun
<1>0. /\ rows \in [Runs -> Row] /\ threads \in [Runs -> Thread]
      /\ events \in [Runs -> SUBSET {"start", "complete", "error", "close"}]
      /\ sent \in [Runs -> SUBSET Effects]
  BY DEF TypeOK
<1>1. nextRun' = nextRun
  BY DEF ThreadStep, Raises, RefreshFails, Start, SaveBegin, SaveEnd, Persist, Complete, Warn, Scan, Announce,
         MarkError, Abort, EmailWatchlist, AutoSop
<1>2. rows'[q] = rows[q]
  BY <1>0 DEF ThreadStep, Raises, RefreshFails, Start, SaveBegin, SaveEnd, Persist, Complete, Warn, Scan,
              Announce, MarkError, Abort, EmailWatchlist, AutoSop
<1>3. events'[q] = events[q]
  BY <1>0 DEF ThreadStep, Raises, RefreshFails, Start, SaveBegin, SaveEnd, Persist, Complete, Warn, Scan,
              Announce, MarkError, Abort, EmailWatchlist, AutoSop
<1>4. sent'[q] = sent[q]
  BY <1>0 DEF ThreadStep, Raises, RefreshFails, Start, SaveBegin, SaveEnd, Persist, Complete, Warn, Scan,
              Announce, MarkError, Abort, EmailWatchlist, AutoSop
<1>5. threads'[q] = threads[q]
  <2>1. \A p : Goto(r, p) => threads'[q] = threads[q]
    BY <1>0 DEF Goto
  <2>2. \A status : Saved(r, status) => threads'[q] = threads[q]
    BY <1>0 DEF Saved
  <2>3. \A e, s : Scan(r, e, s) => threads'[q] = threads[q]
    BY <1>0 DEF Scan
  <2> QED
    BY <2>1, <2>2, <2>3 DEF ThreadStep, Raises, RefreshFails, Start, SaveBegin, SaveEnd, Persist, Complete,
       Warn, Announce, MarkError, Abort, EmailWatchlist, AutoSop
<1> QED
  BY <1>1, <1>2, <1>3, <1>4, <1>5

\* A scheduled slot is scanned once, while MongoDB answers and one process runs at a
\* time: first what no step but an insert changes of a run.
Stays(q) ==
    /\ threads[q].phase # "none" => rows'[q].config = rows[q].config
    /\ threads'[q].slot = threads[q].slot
    /\ threads'[q].phase = "none" <=> threads[q].phase = "none"
    /\ threads[q].phase \in Ended => threads'[q].phase \in Ended

LEMMA StaysInPlace ==
  ASSUME TypeOK, NEW q \in Runs, rows'[q] = rows[q], threads'[q] = threads[q]
  PROVE  Stays(q)
  BY DEF Stays

LEMMA ThreadStays ==
  ASSUME TypeOK, NEW r \in Runs, ThreadStep(r) \/ Raises(r) \/ RefreshFails(r)
  PROVE  Stays(r) /\ threads[r].phase \notin Ended
<1>0. /\ rows \in [Runs -> Row] /\ threads \in [Runs -> Thread] /\ rows[r] \in Row
  BY DEF TypeOK
<1>1. rows'[r].config = rows[r].config
  <2>1. \/ rows' = rows
        \/ \E s \in {"PENDING", "RUNNING", "COMPLETE", "ERROR"} : rows' = [rows EXCEPT ![r].status = s]
        \/ rows' = [rows EXCEPT ![r].entries = threads[r].scored]
        \/ rows' = [rows EXCEPT ![r].note = "warning"]
        \/ rows' = [rows EXCEPT ![r].status = "ERROR", ![r].note = "error"]
    BY DEF ThreadStep, Raises, RefreshFails, Start, SaveBegin, SaveEnd, Persist, Complete, Warn, Scan, Announce,
       MarkError, Abort, EmailWatchlist, AutoSop
  <2>2. CASE \E s \in {"PENDING", "RUNNING", "COMPLETE", "ERROR"} : rows' = [rows EXCEPT ![r].status = s]
    BY <2>2, StatusFields
  <2>3. CASE rows' = [rows EXCEPT ![r].entries = threads[r].scored]
    <3>1. rows'[r] = [rows[r] EXCEPT !.entries = threads[r].scored]
      BY <1>0, <2>3
    <3> QED
      BY <1>0, <3>1 DEF Row
  <2>4. CASE rows' = [rows EXCEPT ![r].note = "warning"]
    <3>1. rows'[r] = [rows[r] EXCEPT !.note = "warning"]
      BY <1>0, <2>4
    <3> QED
      BY <1>0, <3>1 DEF Row
  <2>5. CASE rows' = [rows EXCEPT ![r].status = "ERROR", ![r].note = "error"]
    <3>1. rows'[r] = [[rows[r] EXCEPT !.status = "ERROR"] EXCEPT !.note = "error"]
      BY <1>0, <2>5
    <3> QED
      BY <1>0, <3>1 DEF Row
  <2> QED
    BY <2>1, <2>2, <2>3, <2>4, <2>5
<1>2. threads[r].phase \notin Ended
  BY DEF Ended, ThreadStep, Raises, RefreshFails, Start, SaveBegin, SaveEnd, Persist, Complete, Warn, Scan,
     Announce, MarkError, Abort, EmailWatchlist, AutoSop
<1>3. threads'[r].slot = threads[r].slot /\ threads'[r].phase # "none"
  <2>1. \/ \E p \in Phases \ {"none"} : Goto(r, p)
        \/ \E status : Saved(r, status)
        \/ \E e \in {"all", "some", "none"}, s \in BOOLEAN : Scan(r, e, s)
    BY DEF Phases, Body, Followup, Ended, ThreadStep, Raises, RefreshFails, Start, SaveBegin, SaveEnd, Persist,
       Complete, Warn, Announce, MarkError, Abort, EmailWatchlist, AutoSop
  <2>2. CASE \E p \in Phases \ {"none"} : Goto(r, p)
    BY <2>2, GotoFields
  <2>3. CASE \E status : Saved(r, status)
    BY <2>3, SavedFields DEF AfterSave
  <2>4. CASE \E e \in {"all", "some", "none"}, s \in BOOLEAN : Scan(r, e, s)
    <3>1. PICK e \in {"all", "some", "none"}, s \in BOOLEAN : Scan(r, e, s)
      BY <2>4
    <3>2. threads'[r].phase = "save"
      BY <3>1, ScanFields
    <3>3. threads'[r].slot = threads[r].slot
      BY <3>1, ScanFields
    <3> QED
      BY <3>2, <3>3
  <2> QED
    BY <2>1, <2>2, <2>3, <2>4
<1> QED
  BY <1>1, <1>2, <1>3 DEF Stays, Ended

\* Of all steps only an insert gives a run a config or a slot.
LEMMA RunsStay ==
  ASSUME TypeOK, CallInv, [Next]_vars, ~ \E a \in Callers, w \in MailPlans : Insert(a, w),
         NEW q \in Runs
  PROVE  Stays(q)
<1>1. ASSUME NEW r \in Runs, ThreadStep(r) \/ Raises(r) \/ RefreshFails(r) PROVE Stays(q)
  BY <1>1, ThreadStays, OtherRunsUntouched, StaysInPlace
<1>2. CASE Crash \/ Drain
  <2>1. rows' = rows
    BY <1>2 DEF Crash, Drain
  <2>2. \/ threads'[q] = threads[q]
        \/ /\ threads[q].phase \notin Ended /\ threads'[q].phase = "killed"
           /\ threads'[q].slot = threads[q].slot
    BY <1>2, ThreadsOfProcess
  <2> QED
    BY <2>1, <2>2 DEF Stays, Ended
<1>3. CASE Restart
  BY <1>3, RestartMoves DEF Stays
<1>4. ASSUME NEW a \in Callers, InsertFails(a) PROVE Stays(q)
  <2>1. threads' = threads
    BY <1>4 DEF InsertFails
  <2>2. rows'[q] = rows[q] \/ q = nextRun
    BY <1>4, OrphanFields
  <2>3. q = nextRun => threads[q].phase = "none"
    <3>1. nextRun \in Nat
      BY ScanRunsAssumption DEF TypeOK
    <3>2. q >= nextRun => threads[q].phase = "none"
      BY DEF CallInv
    <3> QED
      BY <3>1, <3>2
  <2> QED
    BY <2>1, <2>2, <2>3 DEF Stays
<1>5. ASSUME UNCHANGED <<rows, threads>> PROVE Stays(q)
  BY <1>5, StaysInPlace
<1> QED
  BY <1>1, <1>2, <1>3, <1>4, <1>5 DEF Next, CallerStep, Fire, Lookup, CronReturns, Check,
     Request, Tick, vars

LEMMA KeyStays ==
  ASSUME NEW q \in Runs, Stays(q)
  PROVE  /\ threads[q].phase # "none" => Key(q)' = Key(q)
         /\ Cron(q)' = Cron(q)
  BY DEF Stays, Key, Cron

\* A run's key is a key of the store, and it is a scheduled key exactly for a
\* scheduled run.
LEMMA KeyOfRun ==
  ASSUME TypeOK, CallInv, NEW r \in Runs, threads[r].phase # "none"
  PROVE  /\ Key(r) \in Keys
         /\ Key(r) \in CronKeys <=> Cron(r)
         /\ Cron(r) => Key(r) = <<rows[r].config, threads[r].slot>>
<1>1. rows[r].config \in Configs /\ threads[r].slot \in 0..MaxSlot
  BY DEF TypeOK, CallInv, Thread
<1>2. CASE threads[r].slot = Manual
  <2>1. Key(r) = <<"sql-scan", r>> /\ "sql-scan" \notin Configs
    BY <1>2, ScanRunsAssumption DEF Key
  <2> QED
    BY <1>2, <2>1 DEF Keys, CronKeys, Cron
<1>3. CASE threads[r].slot # Manual
  <2>1. Key(r) = <<rows[r].config, threads[r].slot>> /\ threads[r].slot \in 1..MaxSlot
    BY <1>1, <1>3, ScanRunsAssumption DEF Key, Manual
  <2> QED
    BY <1>1, <1>3, <2>1 DEF Keys, CronKeys, Cron
<1> QED
  BY <1>2, <1>3

\* What the steps of a call do to it.
LEMMA PcFields ==
  ASSUME TypeOK, NEW a \in Callers, NEW pc, callers' = [callers EXCEPT ![a].pc = pc]
  PROVE  /\ callers'[a].pc = pc
         /\ callers'[a].config = callers[a].config
         /\ callers'[a].slot = callers[a].slot
         /\ callers'[a].run = callers[a].run
         /\ \A b \in Callers : b # a => callers'[b] = callers[b]
<1>1. callers \in [Callers -> Caller] /\ callers[a] \in Caller
  BY DEF TypeOK
<1>2. callers'[a] = [callers[a] EXCEPT !.pc = pc]
  BY <1>1
<1> QED
  BY <1>1, <1>2 DEF Caller

LEMMA InsertedCaller ==
  ASSUME TypeOK, NEW a \in Callers, NEW w, Insert(a, w)
  PROVE  /\ a \notin Requests => /\ callers'[a].pc = "busy" /\ callers'[a].run = nextRun
                                 /\ callers'[a].config = callers[a].config
                                 /\ callers'[a].slot = callers[a].slot
         /\ a \in Requests => callers'[a] = Idle
         /\ \A b \in Callers : b # a => callers'[b] = callers[b]
<1> DEFINE busy == [callers[a] EXCEPT !.pc = "busy"]
           new == [busy EXCEPT !.run = nextRun]
<1>1. callers \in [Callers -> Caller] /\ callers[a] \in Caller
  BY DEF TypeOK
<1>2. callers'[a] = AfterInsert(a) /\ \A b \in Callers : b # a => callers'[b] = callers[b]
  BY <1>1 DEF Insert
<1>3. a \notin Requests => AfterInsert(a) = new
  BY DEF AfterInsert
<1>4. a \in Requests => AfterInsert(a) = Idle
  BY DEF AfterInsert
<1>5. /\ busy \in [pc : {"busy"}, config : Configs \cup {NoRun}, slot : 0..MaxSlot,
                   deliver : BOOLEAN, run : 0..MaxRuns]
      /\ busy.config = callers[a].config /\ busy.slot = callers[a].slot
  BY <1>1 DEF Caller
<1>6. /\ new.pc = "busy" /\ new.run = nextRun
      /\ new.config = callers[a].config /\ new.slot = callers[a].slot
  BY <1>5
<1> QED
  BY <1>2, <1>3, <1>4, <1>6

\* Only the history's own steps write a batch.
LEMMA BatchesStay ==
  ASSUME TypeOK, [Next]_vars, ~ \E r \in Runs : SaveBegin(r) \/ SaveEnd(r) \/ Raises(r)
  PROVE  batches' = batches
  BY RestartMoves DEF Next, CallerStep, ThreadStep, RefreshFails, Fire, Lookup, CronReturns, Request, Check,
     InsertFails, Insert, Start, Persist, Complete, Warn, Scan, Announce, MarkError, Abort,
     EmailWatchlist, AutoSop, Crash, Drain, Tick, vars

-----------------------------------------------------------------------------
\* Calls and batches know whose they are.
LEMMA CallInit == Init => CallInv
<1> SUFFICES ASSUME Init PROVE CallInv
  OBVIOUS
<1>1. \A a \in Callers : callers[a].pc = "idle"
  BY DEF Init, Idle
<1>2. \A r \in Runs : threads[r].phase = "none"
  BY DEF Init, NoThread
<1>3. env.stale = {}
  BY DEF Init
<1> QED
  BY <1>1, <1>2, <1>3 DEF CallInv, StoppedIsQuiet, Callers, CronCallers

CallerOK(a) ==
    callers[a].pc # "idle" =>
        /\ env.up \/ env.drains > 0
        /\ callers[a].config \in Configs
        /\ a \in Configs => callers[a].config = a
        /\ a \in Leftovers => env.drains > 0
        /\ IF a \in Requests THEN callers[a].pc \in {"check", "insert"} /\ callers[a].slot = Manual
           ELSE callers[a].slot # Manual

RunKnown(r) ==
    /\ r >= nextRun => threads[r].phase = "none"
    /\ threads[r].phase # "none" => rows[r].config \in Configs
    /\ threads[r].phase = "saving" => batches[Key(r)] = [status |-> "running", run |-> r]

\* Jobs, the calls that shutdowns left over and requests are told apart.
LEMMA CallersDiffer ==
  /\ \A c \in Configs : c \notin Leftovers /\ c \notin Requests
  /\ \A l \in Leftovers : l \notin Requests
  BY ScanRunsAssumption DEF Leftovers

LEMMA CallByPart ==
  ASSUME TypeOK
  PROVE  CallInv <=> /\ env.up => env.stale = {}
                     /\ \A a \in Callers : CallerOK(a)
                     /\ \A r \in Runs : RunKnown(r)
<1>0. env.drains \in Nat
  BY DEF TypeOK, Server
<1>1. ASSUME CallInv, NEW a \in Callers PROVE CallerOK(a)
  <2>1. a \in Configs \/ a \in Leftovers \/ a \in Requests
    BY DEF Callers, CronCallers
  <2>2. StoppedIsQuiet
    BY <1>1 DEF CallInv
  <2>3. callers[a].pc # "idle" => env.up \/ env.drains > 0
    BY <1>0, <2>2 DEF StoppedIsQuiet
  <2> QED
    BY <1>1, <2>1, <2>3, CallersDiffer DEF CallInv, CallerOK
<1>2. ASSUME CallInv, NEW r \in Runs PROVE RunKnown(r)
  BY <1>2 DEF CallInv, RunKnown
<1>3. ASSUME env.up => env.stale = {},
             \A a \in Callers : CallerOK(a), \A r \in Runs : RunKnown(r)
      PROVE  CallInv
  <2>1. StoppedIsQuiet
    BY <1>0, <1>3 DEF CallerOK, StoppedIsQuiet
  <2> QED
    BY <1>3, <2>1, CallersDiffer DEF CallInv, CallerOK, RunKnown, Callers, CronCallers
<1>4. CallInv => (env.up => env.stale = {})
  BY DEF CallInv, StoppedIsQuiet
<1> QED
  BY <1>1, <1>2, <1>3, <1>4

LEMMA CallerKept ==
  ASSUME TypeOK, CallInv, [Next]_vars, NEW b \in Callers
  PROVE  CallerOK(b)'
<1>0. /\ CallerOK(b) /\ callers \in [Callers -> Caller]
      /\ env.slot \in 1..MaxSlot /\ MaxSlot \in Nat /\ env.drains \in Nat
  BY CallByPart, ScanRunsAssumption DEF TypeOK, Server
<1>d. env.drains > 0 => env'.drains > 0
  BY CountersGrow
<1>1. ASSUME callers'[b] = callers[b], env'.up = env.up \/ env'.up \/ env'.drains > 0
      PROVE  CallerOK(b)'
  BY <1>0, <1>1, <1>d DEF CallerOK
<1>2. ASSUME callers'[b] = Idle PROVE CallerOK(b)'
  BY <1>2 DEF CallerOK, Idle
<1>3. ASSUME NEW c \in Configs, Fire(c) PROVE CallerOK(b)'
  <2>0. c \in Callers /\ env' = env /\ env.up
    BY <1>3 DEF Callers, CronCallers, Fire
  <2>1. c # b => callers'[b] = callers[b]
    BY <1>0, <1>3 DEF Fire
  <2>2. c = b => /\ callers'[b].config = b /\ callers'[b].slot = env.slot
    BY <1>0, <1>3 DEF Fire
  <2>3. c = b => CallerOK(b)'
    BY <1>0, <2>0, <2>2, CallersDiffer DEF CallerOK, Manual
  <2> QED
    BY <1>1, <2>0, <2>1, <2>3
<1>4. ASSUME NEW m \in Requests, NEW c \in Configs, NEW d \in BOOLEAN, Request(m, c, d)
      PROVE  CallerOK(b)'
  <2>0. m \in Callers /\ env' = env /\ env.up
    BY <1>4 DEF Callers, Request
  <2>1. m # b => callers'[b] = callers[b]
    BY <1>0, <1>4 DEF Request
  <2>2. m = b => /\ callers'[b].pc = "check" /\ callers'[b].config = c
                 /\ callers'[b].slot = Manual
    BY <1>0, <1>4 DEF Request
  <2>3. m = b => CallerOK(b)'
    BY <2>0, <2>2, CallersDiffer DEF CallerOK
  <2> QED
    BY <1>1, <2>0, <2>1, <2>3
<1>5. ASSUME NEW c \in CronCallers, Lookup(c) PROVE CallerOK(b)'
  <2>0. c \in Callers /\ callers[c].pc = "lookup" /\ c \notin Requests
    BY <1>5, CallersDiffer DEF Callers, CronCallers, Lookup
  <2>e. env'.up = env.up
    BY <1>5, FaultFields DEF Lookup
  <2>1. CASE callers' = [callers EXCEPT ![c] = Idle]
    BY <1>0, <1>1, <1>2, <2>0, <2>1, <2>e
  <2>2. CASE callers' = [callers EXCEPT ![c].pc = "check"]
    <3>1. c = b => /\ callers'[b].config = callers[b].config
                   /\ callers'[b].slot = callers[b].slot
      BY <2>0, <2>2, PcFields
    <3>2. c # b => callers'[b] = callers[b]
      BY <2>0, <2>2, PcFields
    <3>3. c = b => CallerOK(b)'
      BY <1>0, <1>d, <2>0, <2>e, <3>1 DEF CallerOK
    <3> QED
      BY <1>1, <2>e, <3>2, <3>3
  <2> QED
    BY <1>5, <2>1, <2>2 DEF Lookup
<1>6. ASSUME NEW a \in Callers, Check(a) PROVE CallerOK(b)'
  <2>0. callers[a].pc = "check" /\ env' = env
    BY <1>6 DEF Check
  <2>1. CASE callers' = [callers EXCEPT ![a] = Idle]
    BY <1>0, <1>1, <1>2, <2>0, <2>1
  <2>2. CASE callers' = [callers EXCEPT ![a].pc = "insert"]
    <3>1. a = b => /\ callers'[b].pc = "insert" /\ callers'[b].config = callers[b].config
                   /\ callers'[b].slot = callers[b].slot
      BY <2>2, PcFields
    <3>2. a # b => callers'[b] = callers[b]
      BY <2>2, PcFields
    <3>3. a = b => CallerOK(b)'
      BY <1>0, <2>0, <3>1 DEF CallerOK
    <3> QED
      BY <1>1, <2>0, <3>2, <3>3
  <2> QED
    BY <1>6, <2>1, <2>2 DEF Check
<1>7. ASSUME NEW a \in Callers, CronReturns(a) \/ InsertFails(a) PROVE CallerOK(b)'
  <2>1. env'.up = env.up
    BY <1>7, FaultFields DEF CronReturns, InsertFails
  <2>2. callers' = [callers EXCEPT ![a] = Idle]
    BY <1>7 DEF CronReturns, InsertFails
  <2> QED
    BY <1>0, <1>1, <1>2, <2>1, <2>2
<1>8. ASSUME NEW a \in Callers, NEW w \in MailPlans, Insert(a, w) PROVE CallerOK(b)'
  <2>0. callers[a].pc = "insert" /\ env' = env
    BY <1>8 DEF Insert
  <2>1. CASE a # b
    BY <1>1, <1>8, <2>0, <2>1, InsertedCaller
  <2>2. CASE a = b /\ a \in Requests
    BY <1>2, <1>8, <2>2, InsertedCaller
  <2>3. CASE a = b /\ a \notin Requests
    <3>2. callers'[b].config = callers[b].config /\ callers'[b].slot = callers[b].slot
      BY <1>8, <2>3, InsertedCaller
    <3> QED
      BY <1>0, <2>0, <2>3, <3>2 DEF CallerOK
  <2> QED
    BY <2>1, <2>2, <2>3
<1>9. CASE Crash
  BY <1>2, <1>9 DEF Crash
<1>10. CASE Drain
  <2>a. env'.drains = env.drains + 1
    BY <1>10, ProcessMoves
  <2>b. env.drains \in Nat
    BY DEF TypeOK, Server
  <2>0. env'.drains > 0
    BY <2>a, <2>b
  <2>1. CASE b \in Configs
    <3>1. callers' = [a \in Callers |-> CASE a \in Configs -> Idle
                                          [] a \in Configs \X {env.drains + 1} -> callers[a[1]]
                                          [] OTHER -> callers[a]]
      BY <1>10 DEF Drain
    <3>2. b \notin Configs \X {env.drains + 1}
      <4>1. env.drains + 1 \in 1..MaxDrains
        BY <1>10, <2>b, ScanRunsAssumption DEF Drain
      <4> QED
        BY <2>1, <4>1, CallersDiffer DEF Leftovers
    <3>3. callers'[b] = Idle
      BY <2>1, <3>1, <3>2
    <3> QED
      BY <1>2, <3>3
  <2>2. CASE b \in Configs \X {env.drains + 1} /\ b \notin Configs
    <3>1. callers'[b] = callers[b[1]]
      BY <1>10, <2>2 DEF Drain
    <3>2. b[1] \in Configs /\ b[1] \in Callers
      BY <2>2 DEF Callers, CronCallers
    <3>3. CallerOK(b[1])
      BY <3>2, CallByPart
    <3>4. b \notin Requests
      <4>1. env.drains + 1 \in 1..MaxDrains
        BY <1>0, <1>10, ScanRunsAssumption DEF Drain
      <4> QED
        BY <2>2, <4>1, CallersDiffer DEF Leftovers
    <3> QED
      BY <2>0, <2>2, <3>1, <3>2, <3>3, <3>4, CallersDiffer DEF CallerOK
  <2>3. CASE b \notin Configs \X {env.drains + 1} /\ b \notin Configs
    BY <1>1, <1>10, <2>0, <2>3 DEF Drain
  <2> QED
    BY <2>1, <2>2, <2>3
<1>11. CASE Restart
  <2>1. callers' = callers
    BY <1>11, RestartMoves
  <2>2. env'.up = env.up \/ env'.up
    <3>1. ~env.up
      BY <1>11, RestartServer, CallByPart
    <3>2. env' \in Server /\ env \in Server
      BY <1>11, RestartServer DEF TypeOK
    <3> QED
      BY <3>1, <3>2 DEF Server
  <2> QED
    BY <1>1, <2>1, <2>2
<1>12. ASSUME UNCHANGED callers, env'.up = env.up PROVE CallerOK(b)'
  BY <1>1, <1>12
<1>13. ASSUME NEW r \in Runs, ThreadStep(r) \/ Raises(r) \/ RefreshFails(r) PROVE CallerOK(b)'
  <2>1. UNCHANGED callers /\ (UNCHANGED env \/ SqlFault \/ MongoFault)
    BY <1>13 DEF ThreadStep, Raises, RefreshFails, Start, SaveBegin, SaveEnd, Persist, Complete,
       Warn, Scan, Announce, MarkError, Abort, EmailWatchlist, AutoSop
  <2> QED
    BY <1>12, <2>1, FaultFields
<1>14. CASE Tick \/ UNCHANGED vars
  BY <1>12, <1>14, ProcessMoves DEF Tick, vars
<1> QED
  BY <1>3, <1>4, <1>5, <1>6, <1>7, <1>8, <1>9, <1>10, <1>11, <1>13, <1>14
     DEF Next, CallerStep, Callers

LEMMA RunStaysKnown ==
  ASSUME TypeOK, CallInv, [Next]_vars, NEW q \in Runs
  PROVE  RunKnown(q)'
<1>0. /\ RunKnown(q) /\ batches \in [Keys -> Batch] /\ nextRun \in Nat /\ nextRun' \in Nat
      /\ \A a \in Callers : CallerOK(a)
  BY CallByPart, TypeStep, ScanRunsAssumption DEF TypeOK
<1>1. ASSUME NEW a \in Callers, NEW w \in MailPlans, Insert(a, w) PROVE RunKnown(q)'
  <2>0. UNCHANGED batches /\ callers[a].pc = "insert" /\ nextRun' = nextRun + 1
    BY <1>1 DEF Insert
  <2>1. CASE q = nextRun
    <3>1. threads'[q].phase = "load" /\ rows'[q].config = callers[a].config
      BY <1>1, <2>1, InsertFields
    <3>2. callers[a].config \in Configs
      BY <1>0, <2>0 DEF CallerOK
    <3> QED
      BY <1>0, <2>0, <2>1, <3>1, <3>2 DEF RunKnown
  <2>2. CASE q # nextRun
    <3>1. rows'[q] = rows[q] /\ threads'[q] = threads[q]
      BY <1>1, <2>2, InsertFields
    <3>2. Key(q)' = Key(q)
      BY <3>1 DEF Key
    <3>3. q >= nextRun' => q >= nextRun
      BY <1>0, <2>0 DEF Runs
    <3> QED
      BY <1>0, <2>0, <3>1, <3>2, <3>3 DEF RunKnown
  <2> QED
    BY <2>1, <2>2
<1>2. ASSUME ~ \E a \in Callers, w \in MailPlans : Insert(a, w) PROVE RunKnown(q)'
  <2>1. Stays(q) /\ (threads[q].phase # "none" => Key(q)' = Key(q))
    BY <1>2, RunsStay, KeyStays
  <2>n. q >= nextRun' => q >= nextRun
    <3>1. nextRun' = nextRun \/ nextRun' = nextRun + 1
      BY <1>2, RestartMoves, OrphanFields DEF Next, CallerStep, ThreadStep, Raises, RefreshFails,
         Fire, Lookup, CronReturns, Request, Check, Start, SaveBegin, SaveEnd, Persist, Complete,
         Warn, Scan, Announce, MarkError, Abort, EmailWatchlist, AutoSop, Crash, Drain, Tick, vars
    <3> QED
      BY <1>0, <3>1 DEF Runs
  <2>2. SUFFICES ASSUME threads'[q].phase = "saving"
                 PROVE  batches'[Key(q)] = [status |-> "running", run |-> q]
    BY <1>0, <2>1, <2>n, <2>2 DEF RunKnown, Stays
  <2>3. threads[q].phase # "none"
    BY <2>1, <2>2 DEF Stays
  <2>4. Key(q) \in Keys
    BY <2>3, KeyOfRun
  <2>5. CASE ThreadStep(q) \/ Raises(q) \/ RefreshFails(q)
    <3>1. Goto(q, "saving") /\ SaveBegin(q)
      <4>1. ASSUME NEW p \in Phases \ {"saving"} PROVE ~Goto(q, p)
        BY <2>2, <4>1, GotoFields
      <4>2. ASSUME NEW status PROVE ~Saved(q, status)
        BY <2>2, <4>2, SavedFields DEF AfterSave
      <4>3. ASSUME NEW e \in {"all", "some", "none"}, NEW s \in BOOLEAN PROVE ~Scan(q, e, s)
        BY <2>2, <4>3, ScanFields
      <4> QED
        BY <2>5, <4>1, <4>2, <4>3 DEF Phases, Body, Followup, Ended, ThreadStep, Raises, RefreshFails, Start,
           SaveBegin, SaveEnd, Persist, Complete, Warn, Announce, MarkError, Abort,
           EmailWatchlist, AutoSop
    <3>2. \A status : ~Saved(q, status)
      BY <2>2, SavedFields DEF AfterSave
    <3>3. batches' = [batches EXCEPT ![Key(q)] = [status |-> "running", run |-> q]]
      BY <3>1, <3>2 DEF SaveBegin
    <3> QED
      BY <1>0, <2>4, <3>3
  <2>6. CASE ~(ThreadStep(q) \/ Raises(q) \/ RefreshFails(q))
    <3>1. threads[q].phase = "saving"
      <4>1. ASSUME NEW r \in Runs, ThreadStep(r) \/ Raises(r) \/ RefreshFails(r)
            PROVE threads'[q] = threads[q]
        BY <2>6, <4>1, OtherRunsUntouched
      <4>2. ASSUME Crash \/ Drain PROVE threads'[q] = threads[q]
        BY <2>2, <4>2, ThreadsOfProcess
      <4> QED
        BY <1>2, <2>2, <4>1, <4>2, RestartMoves DEF Next, CallerStep, Fire, Lookup, CronReturns,
           Check, InsertFails, Request, Tick, vars
    <3>2. batches[Key(q)] = [status |-> "running", run |-> q]
      BY <1>0, <3>1 DEF RunKnown
    <3>3. ASSUME NEW r \in Runs, SaveBegin(r) \/ SaveEnd(r) \/ Raises(r)
          PROVE  batches'[Key(q)] = batches[Key(q)]
      <4>1. r # q
        BY <2>6, <3>3 DEF ThreadStep
      <4>2. CASE batches' = batches
        BY <4>2
      <4>3. CASE SaveBegin(r) /\ batches' # batches
        <5>1. batches[Key(r)].status = "absent"
              /\ batches' = [batches EXCEPT ![Key(r)] = [status |-> "running", run |-> r]]
          BY <4>3 DEF SaveBegin
        <5>2. Key(r) # Key(q)
          BY <3>2, <5>1
        <5> QED
          BY <1>0, <2>4, <5>1, <5>2
      <4>4. CASE (SaveEnd(r) \/ Raises(r)) /\ batches' # batches
        <5>1. threads[r].phase = "saving" /\ \E s : batches' = [batches EXCEPT ![Key(r)].status = s]
          BY <4>4 DEF SaveEnd, Raises
        <5>2. batches[Key(r)] = [status |-> "running", run |-> r]
          BY <5>1, CallByPart DEF RunKnown
        <5>3. Key(r) # Key(q)
          BY <3>2, <4>1, <5>2
        <5> QED
          BY <1>0, <2>4, <5>1, <5>3
      <4> QED
        BY <3>3, <4>2, <4>3, <4>4
    <3> QED
      BY <3>2, <3>3, BatchesStay
  <2> QED
    BY <2>5, <2>6
<1> QED
  BY <1>1, <1>2

LEMMA CallStep == TypeOK /\ CallInv /\ [Next]_vars => CallInv'
<1> SUFFICES ASSUME TypeOK, CallInv, [Next]_vars PROVE CallInv'
  OBVIOUS
<1>0. env.up => env.stale = {}
  BY CallByPart
<1>1. env'.up => env'.stale = {}
  <2>1. CASE Restart
    <3>1. env'.up \in BOOLEAN
      BY TypeStep DEF TypeOK, Server
    <3> QED
      BY <2>1, <3>1, RestartServer
  <2>2. CASE Crash \/ Drain \/ Tick
    BY <1>0, <2>2, ProcessMoves
  <2>3. CASE UNCHANGED env \/ SqlFault \/ MongoFault
    BY <1>0, <2>3, FaultFields
  <2>4. Restart \/ Crash \/ Drain \/ Tick \/ UNCHANGED env \/ SqlFault \/ MongoFault
    BY DEF Next, CallerStep, ThreadStep, Raises, RefreshFails, Fire, Lookup, CronReturns, Request,
       Check, InsertFails, Insert, Start, SaveBegin, SaveEnd, Persist, Complete, Warn, Scan,
       Announce, MarkError, Abort, EmailWatchlist, AutoSop, vars
  <2> QED
    BY <2>1, <2>2, <2>3, <2>4
<1>2. (\A a \in Callers : CallerOK(a))' /\ (\A r \in Runs : RunKnown(r))'
  BY CallerKept, RunStaysKnown
<1>3. env'.drains \in Nat
  BY TypeStep DEF TypeOK, Server
<1>4. StoppedIsQuiet'
  BY <1>1, <1>2, <1>3 DEF CallerOK, StoppedIsQuiet
<1> QED
  BY <1>2, <1>4, CallersDiffer DEF CallInv, CallerOK, RunKnown, Callers, CronCallers

\* Every call in progress knows its config and slot, and a batch being written names
\* the run that writes it, whatever failed and however often the process died.
THEOREM CallsKnowTheirConfig == Spec => []CallInv
<1>1. TypeOK /\ CallInv /\ [Next]_vars => CallInv'
  BY CallStep
<1>2. QED
  BY CallInit, <1>1, TypeCorrect, PTL DEF Spec
-----------------------------------------------------------------------------
\* The lifecycle invariant, run by run.
RunOK(r) ==
    /\ rows[r].status = "COMPLETE" => /\ threads[r].evaluated \in {"all", "some"}
                                      /\ rows[r].entries = threads[r].scored
    /\ RunInv(r)

LEMMA LifecycleByRun == LifecycleInv <=> \A r \in Runs : RunOK(r) /\ StaleInv(r)
  BY DEF LifecycleInv, CompleteHasResults, RunOK

LEMMA LifecycleInit == Init => LifecycleInv
<1> SUFFICES ASSUME Init, NEW r \in Runs PROVE RunOK(r) /\ StaleInv(r)
  BY LifecycleByRun
<1>1. rows[r].status = "absent" /\ threads[r].phase = "none" /\ events[r] = {} /\ sent[r] = {}
  BY DEF Init, NoThread
<1>2. env.stale = {} /\ env.up
  BY DEF Init
<1> QED
  BY <1>1, <1>2 DEF RunOK, RunInv, StaleInv, Body, Followup, Completed

\* A run keeps its invariant when a step leaves it alone.
LEMMA Untouched ==
  ASSUME NEW q \in Runs, RunOK(q), nextRun' \in Nat, nextRun \in Nat, nextRun' >= nextRun,
         env.drains > 0 => env'.drains > 0,
         rows'[q] = rows[q], threads'[q] = threads[q], events'[q] = events[q], sent'[q] = sent[q]
  PROVE  RunOK(q)'
<1>1. q >= nextRun' => q >= nextRun
  BY DEF Runs
<1>2. Deserves(q)' <=> Deserves(q)
  BY DEF Deserves
<1>3. Overtaken(q) => Overtaken(q)'
  BY DEF Overtaken
<1>4. Completed(q) => Completed(q)'
  BY <1>3 DEF Completed
<1> QED
  BY <1>1, <1>2, <1>3, <1>4 DEF RunOK, RunInv

\* One step of a run's thread, whatever action it is, keeps the run's invariant.
LEMMA ThreadKeepsRunOK ==
  ASSUME TypeOK, NEW r \in Runs, RunOK(r), nextRun' = nextRun,
         ThreadStep(r) \/ Raises(r) \/ RefreshFails(r)
  PROVE  RunOK(r)'
<1> DEFINE Moves(from, to) == /\ threads[r].phase = from
                              /\ threads'[r].phase = to
                              /\ threads'[r].deliver = threads[r].deliver
           SameFindings == /\ threads'[r].evaluated = threads[r].evaluated
                           /\ threads'[r].scored = threads[r].scored
           SameSaved == threads'[r].saved = threads[r].saved
           SameRow == rows'[r] = rows[r]
           Silent == events'[r] = events[r] /\ sent'[r] = sent[r]
           Concl == RunOK(r)'
<1>0. rows \in [Runs -> Row] /\ events \in [Runs -> SUBSET {"start", "complete", "error", "close"}]
      /\ sent \in [Runs -> SUBSET Effects] /\ threads \in [Runs -> Thread]
  BY DEF TypeOK
<1>e. env'.drains = env.drains
  <2>1. UNCHANGED env \/ SqlFault \/ MongoFault
    BY DEF ThreadStep, Raises, RefreshFails, Start, SaveBegin, SaveEnd, Persist, Complete, Warn,
       Scan, Announce, MarkError, Abort, EmailWatchlist, AutoSop
  <2> QED
    BY <2>1, FaultFields
<1>f. threads[r].evaluated \in {"unknown", "all", "some", "none"}
  BY <1>0 DEF Thread
<1>1. CASE Start(r)
  <2>1. /\ Moves("load", "scan") /\ SameFindings /\ SameSaved
        /\ rows'[r].status = "RUNNING"
        /\ events'[r] = events[r] \cup {"start"} /\ sent'[r] = sent[r]
    BY <1>0, <1>1, StatusFields, GotoFields DEF Start, Phases, Body
  <2> QED
    BY <1>e, <2>1 DEF RunOK, RunInv, Body, Followup, Deserves, Completed, Overtaken
<1>2. CASE SaveBegin(r)
  <2>1. CASE Goto(r, "saving")
    <3>1. Moves("save", "saving") /\ SameFindings /\ SameSaved /\ SameRow /\ Silent
      BY <1>2, <2>1, GotoFields DEF SaveBegin, Phases, Body
    <3> QED
      BY <1>e, <3>1 DEF RunOK, RunInv, Body, Followup, Deserves, Completed, Overtaken
  <2>2. CASE \E status : Saved(r, status)
    <3>1. Moves("save", AfterSave(r)) /\ SameFindings /\ SameRow /\ Silent
      BY <1>2, <2>2, SavedFields DEF SaveBegin
    <3>2. threads[r].evaluated \in {"all", "some"} \/ AfterSave(r) = "fail"
      BY <1>f, <3>1 DEF RunOK, RunInv, AfterSave
    <3>3. AfterSave(r) \in {"persist", "fail"}
      BY DEF AfterSave
    <3> QED
      BY <1>e, <3>1, <3>2, <3>3 DEF RunOK, RunInv, Body, Followup, Deserves, Completed, Overtaken
  <2> QED
    BY <1>2, <2>1, <2>2 DEF SaveBegin
<1>3. CASE SaveEnd(r)
  <2>1. Moves("saving", AfterSave(r)) /\ SameFindings /\ SameRow /\ Silent
    BY <1>3, SavedFields DEF SaveEnd
  <2>2. threads[r].evaluated \in {"all", "some"} \/ AfterSave(r) = "fail"
    BY <1>f, <2>1 DEF RunOK, RunInv, AfterSave
  <2>3. AfterSave(r) \in {"persist", "fail"}
    BY DEF AfterSave
  <2> QED
    BY <1>e, <2>1, <2>2, <2>3 DEF RunOK, RunInv, Body, Followup, Deserves, Completed, Overtaken
<1>4. CASE Persist(r)
  <2>1. Moves("persist", "complete") /\ SameFindings /\ SameSaved /\ Silent
    BY <1>4, GotoFields DEF Persist, Phases, Body
  <2>2. rows'[r] = [rows[r] EXCEPT !.entries = threads[r].scored]
    BY <1>0, <1>4 DEF Persist
  <2>3. rows'[r].status = rows[r].status /\ rows'[r].entries = threads[r].scored
    <3>1. rows[r] \in Row
      BY <1>0
    <3> QED
      BY <2>2, <3>1 DEF Row
  <2> QED
    BY <1>e, <2>1, <2>3 DEF RunOK, RunInv, Body, Followup, Deserves, Completed, Overtaken
<1>5. CASE Complete(r)
  <2>1. Moves("complete", "warn") /\ SameFindings /\ SameSaved /\ Silent
    BY <1>5, GotoFields DEF Complete, Phases
  <2>2. rows'[r].status = "COMPLETE" /\ rows'[r].entries = rows[r].entries
    BY <1>5, StatusFields DEF Complete
  <2> QED
    BY <1>e, <2>1, <2>2 DEF RunOK, RunInv, Body, Followup, Deserves, Completed, Overtaken
<1>6. CASE Warn(r)
  <2>1. Moves("warn", "announce") /\ SameFindings /\ SameSaved /\ Silent
    BY <1>6, GotoFields DEF Warn, Phases
  <2>2. CASE Deserves(r)
    <3>1. rows'[r] = [rows[r] EXCEPT !.note = "warning"]
      BY <1>0, <1>6, <2>2 DEF Warn
    <3>2. rows'[r].status = rows[r].status /\ rows'[r].entries = rows[r].entries
          /\ rows'[r].note = "warning"
      BY <1>0, <3>1 DEF Row
    <3> QED
      BY <1>e, <2>1, <3>2 DEF RunOK, RunInv, Body, Followup, Deserves, Completed, Overtaken
  <2>3. CASE ~Deserves(r)
    <3>1. SameRow
      BY <1>6, <2>3 DEF Warn
    <3>2. ~Deserves(r)'
      BY <2>1, <2>3 DEF Deserves
    <3> QED
      BY <1>e, <2>1, <2>3, <3>1, <3>2 DEF RunOK, RunInv, Body, Followup, Completed, Overtaken
  <2> QED
    BY <2>2, <2>3
<1>7. ASSUME NEW e \in {"all", "some", "none"}, NEW s \in BOOLEAN, Scan(r, e, s)
      PROVE  Concl
  <2>1. Moves("scan", "save") /\ threads'[r].evaluated = e /\ SameRow /\ Silent
    BY <1>7, ScanFields DEF Scan
  <2> QED
    BY <1>e, <2>1 DEF RunOK, RunInv, Body, Followup, Deserves, Completed, Overtaken
<1>8. CASE Announce(r)
  <2>1. /\ Moves("announce", "email") /\ SameFindings /\ SameSaved /\ SameRow
        /\ events'[r] = events[r] \cup {"complete", "close"} /\ sent'[r] = sent[r]
    BY <1>0, <1>8, GotoFields DEF Announce, Phases, Followup
  <2> QED
    BY <1>e, <2>1 DEF RunOK, RunInv, Body, Followup, Deserves, Completed, Overtaken
<1>9. CASE MarkError(r)
  <2>1. Moves("fail", "abort") /\ SameFindings /\ SameSaved /\ Silent
    BY <1>9, GotoFields DEF MarkError, Phases
  <2>2. "complete" \notin events[r] /\ events'[r] = events[r]
    BY <2>1 DEF RunOK, RunInv, Followup
  <2>3. SameRow \/ rows'[r].status = "ERROR"
    <3>1. CASE UNCHANGED rows
      BY <3>1
    <3>2. CASE rows' = [rows EXCEPT ![r].status = "ERROR", ![r].note = "error"]
      <4>1. rows'[r] = [[rows[r] EXCEPT !.status = "ERROR"] EXCEPT !.note = "error"]
        BY <1>0, <3>2
      <4>2. rows[r] \in Row
        BY <1>0
      <4> QED
        BY <4>1, <4>2 DEF Row
    <3> QED
      BY <1>9, <3>1, <3>2 DEF MarkError
  <2> QED
    BY <1>e, <2>1, <2>2, <2>3 DEF RunOK, RunInv, Body, Followup, Deserves, Completed, Overtaken
<1>10. CASE Abort(r)
  <2>1. /\ Moves("abort", "failed") /\ SameFindings /\ SameSaved /\ SameRow
        /\ events'[r] = events[r] \cup {"error", "close"} /\ sent'[r] = sent[r]
    BY <1>0, <1>10, GotoFields DEF Abort, Phases, Ended
  <2> QED
    BY <1>e, <2>1 DEF RunOK, RunInv, Body, Followup, Deserves, Completed, Overtaken
<1>11. CASE EmailWatchlist(r)
  <2>1. Moves("email", "sop") /\ SameFindings /\ SameSaved /\ SameRow /\ events'[r] = events[r]
    BY <1>11, GotoFields DEF EmailWatchlist, Phases, Followup
  <2>2. sent'[r] = sent[r] \/ threads[r].deliver
    BY <1>11 DEF EmailWatchlist
  <2> QED
    BY <1>e, <2>1, <2>2 DEF RunOK, RunInv, Body, Followup, Deserves, Completed, Overtaken
<1>12. CASE AutoSop(r)
  <2>1. Moves("sop", "done") /\ SameFindings /\ SameSaved /\ SameRow /\ events'[r] = events[r]
    BY <1>12, GotoFields DEF AutoSop, Phases, Followup
  <2>2. \/ threads[r].deliver
        \/ sent'[r] = sent[r]
        \/ sent'[r] = sent[r] \cup {"bundle"}
    BY <1>0, <1>12 DEF AutoSop
  <2> QED
    BY <1>e, <2>1, <2>2 DEF RunOK, RunInv, Body, Followup, Deserves, Completed, Overtaken
<1>13. CASE Raises(r)
  <2>1. /\ threads[r].phase \in {"load", "scan", "save", "saving", "persist", "complete", "warn"}
        /\ threads'[r].phase = "fail" /\ threads'[r].deliver = threads[r].deliver
        /\ SameFindings /\ SameSaved /\ SameRow /\ Silent
    BY <1>13, GotoFields DEF Raises, Phases
  <2> QED
    BY <1>e, <2>1 DEF RunOK, RunInv, Body, Followup, Deserves, Completed, Overtaken
<1>14. CASE RefreshFails(r)
  <2>1. /\ threads'[r].phase = "fail" /\ threads'[r].deliver = threads[r].deliver
        /\ SameFindings /\ SameSaved /\ Silent
    BY <1>14, GotoFields DEF RefreshFails, Phases
  <2>2. \/ threads[r].phase = "load" /\ rows' = [rows EXCEPT ![r].status = "RUNNING"]
        \/ threads[r].phase = "complete" /\ rows' = [rows EXCEPT ![r].status = "COMPLETE"]
    BY <1>14 DEF RefreshFails
  <2>3. \/ threads[r].phase = "load" /\ rows'[r].status = "RUNNING"
        \/ /\ threads[r].phase = "complete" /\ rows'[r].status = "COMPLETE"
           /\ rows'[r].entries = rows[r].entries
    BY <2>2, StatusFields
  <2> QED
    BY <1>e, <2>1, <2>3 DEF RunOK, RunInv, Body, Followup, Deserves, Completed, Overtaken
<1> QED
  BY <1>1, <1>2, <1>3, <1>4, <1>5, <1>6, <1>7, <1>8, <1>9, <1>10, <1>11, <1>12, <1>13, <1>14
     DEF ThreadStep

\* What a start-up has listed stays listed until it is marked, and no thread of its own
\* process works on it.
LEMMA StaleStays ==
  ASSUME TypeOK, CallInv, LifecycleInv, [Next]_vars, NEW q \in Runs
  PROVE  StaleInv(q)'
<1>0. RunOK(q) /\ StaleInv(q) /\ (env.up => env.stale = {}) /\ env.up \in BOOLEAN
      /\ env.drains \in Nat
  BY LifecycleByRun, CallByPart DEF TypeOK, Server
<1>1. ASSUME env'.up = env.up, env'.stale = env.stale, env'.drains = env.drains,
             rows'[q] = rows[q], threads'[q] = threads[q]
      PROVE  StaleInv(q)'
  BY <1>0, <1>1 DEF StaleInv
<1>2. ASSUME NEW a \in Callers, NEW w \in MailPlans, Insert(a, w) PROVE StaleInv(q)'
  <2>1. env' = env /\ callers[a].pc = "insert"
    BY <1>2 DEF Insert
  <2>2. CASE q # nextRun
    BY <1>1, <1>2, <2>1, <2>2, InsertFields
  <2>3. CASE q = nextRun
    <3>1. q \notin env.stale
      <4>1. q >= nextRun
        BY <2>3, ScanRunsAssumption DEF TypeOK
      <4>2. threads[q].phase = "none"
        BY <4>1 DEF CallInv
      <4> QED
        BY <1>0, <4>2 DEF StaleInv
    <3>2. ~(env.drains = 0 /\ ~env.up)
      BY <2>1 DEF CallInv, StoppedIsQuiet
    <3> QED
      BY <2>1, <3>1, <3>2 DEF StaleInv
  <2> QED
    BY <2>2, <2>3
<1>3. ASSUME NEW r \in Runs, ThreadStep(r) \/ Raises(r) \/ RefreshFails(r) PROVE StaleInv(q)'
  <2>1. UNCHANGED env \/ SqlFault \/ MongoFault
    BY <1>3 DEF ThreadStep, Raises, RefreshFails, Start, SaveBegin, SaveEnd, Persist, Complete,
       Warn, Scan, Announce, MarkError, Abort, EmailWatchlist, AutoSop
  <2>2. env'.up = env.up /\ env'.stale = env.stale /\ env'.drains = env.drains
    BY <2>1, FaultFields
  <2>3. CASE q # r
    BY <1>1, <1>3, <2>2, <2>3, OtherRunsUntouched
  <2>4. CASE q = r
    <3>1. threads[q].phase \notin Ended /\ threads'[q].phase # "none"
      BY <1>3, <2>4, ThreadStays DEF Stays, Ended
    <3>2. threads'[q].phase # "load"
      <4>1. ASSUME NEW p \in Phases \ {"load"} PROVE Goto(q, p) => threads'[q].phase # "load"
        BY GotoFields
      <4>2. ASSUME NEW status PROVE Saved(q, status) => threads'[q].phase # "load"
        BY SavedFields DEF AfterSave
      <4>3. ASSUME NEW e \in {"all", "some", "none"}, NEW s \in BOOLEAN
            PROVE  Scan(q, e, s) => threads'[q].phase # "load"
        BY ScanFields
      <4> QED
        BY <1>3, <2>4, <4>1, <4>2, <4>3 DEF Phases, Body, Followup, Ended, ThreadStep, Raises,
           RefreshFails, Start, SaveBegin, SaveEnd, Persist, Complete, Warn, Announce, MarkError,
           Abort, EmailWatchlist, AutoSop
    <3> QED
      BY <1>0, <2>2, <3>1, <3>2 DEF StaleInv
  <2> QED
    BY <2>3, <2>4
<1>4. CASE Crash
  BY <1>4, ProcessMoves, ThreadsOfProcess DEF StaleInv
<1>5. CASE Drain
  <2>1. env'.drains = env.drains + 1 /\ env'.stale = {}
    BY <1>0, <1>5, ProcessMoves
  <2> QED
    BY <1>0, <2>1 DEF StaleInv
<1>6. CASE Restart
  <2>0. /\ threads' = threads /\ env'.drains = env.drains /\ rows \in [Runs -> Row] /\ ~env.up
        /\ env'.up \in BOOLEAN
    BY <1>0, <1>6, RestartMoves, RestartServer DEF TypeOK, Server
  <2>1. CASE env'.stale = {}
    BY <1>0, <2>0, <2>1 DEF StaleInv
  <2>2. CASE env'.stale = {r \in Runs : rows[r].status = "RUNNING"} /\ rows' = rows
    <3>1. rows[q].status = "RUNNING" => threads[q].phase \notin {"none", "load"}
      BY <1>0 DEF RunOK, RunInv
    <3> QED
      BY <1>0, <2>0, <2>2, <3>1 DEF StaleInv
  <2>3. ASSUME NEW r \in env.stale, env'.stale = env.stale \ {r},
               \A p \in Runs : p # r => rows'[p] = rows[p]
        PROVE  StaleInv(q)'
    BY <1>0, <2>0, <2>3 DEF StaleInv
  <2> QED
    BY <1>6, <2>1, <2>2, <2>3, RestartServer
<1>7. ASSUME NEW a \in Callers, InsertFails(a) PROVE StaleInv(q)'
  <2>1. threads' = threads /\ (UNCHANGED env \/ SqlFault)
    BY <1>7 DEF InsertFails
  <2>2. env'.up = env.up /\ env'.stale = env.stale /\ env'.drains = env.drains
    BY <2>1, FaultFields
  <2>3. rows'[q] = rows[q] \/ q \notin env.stale
    <3>1. q >= nextRun => threads[q].phase = "none"
      BY DEF CallInv
    <3>2. q = nextRun => q >= nextRun
      BY ScanRunsAssumption DEF TypeOK
    <3>3. q = nextRun => q \notin env.stale
      BY <1>0, <3>1, <3>2 DEF StaleInv
    <3> QED
      BY <1>7, <3>3, OrphanFields
  <2> QED
    BY <1>0, <2>1, <2>2, <2>3 DEF StaleInv
<1>8. ASSUME NEW a \in Callers,
             \/ Fire(a) \/ Lookup(a) \/ CronReturns(a) \/ Check(a)
             \/ \E c \in Configs, d \in BOOLEAN : Request(a, c, d)
      PROVE  StaleInv(q)'
  <2>1. UNCHANGED <<rows, threads>> /\ (UNCHANGED env \/ SqlFault \/ MongoFault)
    BY <1>8 DEF Fire, Lookup, CronReturns, Check, Request
  <2> QED
    BY <1>1, <2>1, FaultFields
<1>9. CASE Tick \/ UNCHANGED vars
  BY <1>1, <1>9, ProcessMoves DEF Tick, vars
<1> QED
  BY <1>2, <1>3, <1>4, <1>5, <1>6, <1>7, <1>8, <1>9 DEF Next, CallerStep, Callers, CronCallers

LEMMA LifecycleStep == TypeOK /\ CallInv /\ LifecycleInv /\ [Next]_vars => LifecycleInv'
<1> SUFFICES ASSUME TypeOK, CallInv, LifecycleInv, [Next]_vars, NEW q \in Runs PROVE RunOK(q)'
  BY StaleStays DEF LifecycleInv, CompleteHasResults, RunOK
<1>0. RunOK(q) /\ StaleInv(q) /\ nextRun \in Nat /\ q \in Nat
  BY LifecycleByRun, ScanRunsAssumption DEF TypeOK, Runs
<1>d. env.drains > 0 => env'.drains > 0
  BY CountersGrow
<1>1. ASSUME UNCHANGED <<rows, threads, nextRun, events, sent>> PROVE RunOK(q)'
  BY <1>0, <1>d, <1>1, Untouched
<1>2. ASSUME NEW a \in Callers, NEW w \in MailPlans, Insert(a, w) PROVE RunOK(q)'
  <2>0. nextRun \in Runs /\ nextRun' = nextRun + 1 /\ UNCHANGED <<events, sent>>
    BY <1>2, InsertFields DEF Insert
  <2>1. CASE q # nextRun
    <3>1. rows'[q] = rows[q] /\ threads'[q] = threads[q] /\ events'[q] = events[q]
          /\ sent'[q] = sent[q]
      BY <1>2, <2>0, <2>1, InsertFields
    <3> QED
      BY <1>0, <1>d, <2>0, <3>1, Untouched
  <2>2. CASE q = nextRun
    <3>1. q >= nextRun /\ ~(q >= nextRun')
      BY <1>0, <2>0, <2>2
    <3>2. events'[q] = {} /\ sent'[q] = {}
      BY <1>0, <2>0, <3>1 DEF RunOK, RunInv
    <3>3. rows'[q].status = "PENDING" /\ threads'[q].phase = "load"
      BY <1>2, <2>2, InsertFields
    <3> QED
      BY <3>1, <3>2, <3>3 DEF RunOK, RunInv, Body, Followup
  <2> QED
    BY <2>1, <2>2
<1>3. ASSUME NEW r \in Runs, ThreadStep(r) \/ Raises(r) \/ RefreshFails(r) PROVE RunOK(q)'
  <2>1. nextRun' = nextRun
    BY <1>3 DEF ThreadStep, Raises, RefreshFails, Start, SaveBegin, SaveEnd, Persist, Complete, Warn, Scan,
       Announce, MarkError, Abort, EmailWatchlist, AutoSop
  <2>2. CASE q = r
    BY <1>0, <1>3, <2>1, <2>2, ThreadKeepsRunOK
  <2>3. CASE q # r
    <3>1. rows'[q] = rows[q] /\ threads'[q] = threads[q] /\ events'[q] = events[q]
          /\ sent'[q] = sent[q]
      BY <1>3, <2>3, OtherRunsUntouched
    <3> QED
      BY <1>0, <1>d, <2>1, <3>1, Untouched
  <2> QED
    BY <2>2, <2>3
<1>4. CASE Crash \/ Drain
  <2>1. UNCHANGED <<rows, nextRun, events, sent>>
    BY <1>4 DEF Crash, Drain
  <2>2. CASE threads'[q] = threads[q]
    BY <1>0, <1>d, <2>1, <2>2, Untouched
  <2>3. CASE /\ threads[q].phase \notin Ended /\ threads'[q].phase = "killed"
             /\ threads'[q].deliver = threads[q].deliver
             /\ threads'[q].evaluated = threads[q].evaluated
             /\ threads'[q].scored = threads[q].scored /\ threads'[q].saved = threads[q].saved
    <3>1. threads[q].phase \notin {"none", "failed"}
      BY <2>3 DEF Ended
    <3>2. Overtaken(q) => Overtaken(q)'
      BY <1>d, <2>1 DEF Overtaken
    <3> QED
      BY <1>0, <2>1, <2>3, <3>1, <3>2 DEF RunOK, RunInv, Body, Followup, Deserves, Completed
  <2> QED
    BY <1>4, <2>2, <2>3, ThreadsOfProcess
<1>5. CASE Restart
  <2>1. UNCHANGED <<threads, nextRun, events, sent>>
    BY <1>5, RestartMoves
  <2>2. CASE rows'[q] = rows[q]
    BY <1>0, <1>d, <2>1, <2>2, Untouched
  <2>3. CASE /\ q \in env.stale
             /\ rows'[q].status = "ERROR" /\ rows'[q].note = "interrupted"
             /\ rows'[q].entries = rows[q].entries
    <3>0. env.drains \in Nat
      BY DEF TypeOK, Server
    <3>1. threads[q].phase \notin {"none", "load"} /\ ~(q >= nextRun)
      BY <1>0, <2>3 DEF StaleInv, RunOK, RunInv
    <3>2. Completed(q) => Overtaken(q)'
      <4>1. CASE env.drains > 0
        BY <1>d, <2>3, <4>1 DEF Overtaken
      <4>2. CASE env.drains = 0
        BY <1>0, <2>3, <4>2 DEF StaleInv, Completed, Overtaken
      <4> QED
        BY <3>0, <4>1, <4>2
    <3>3. Overtaken(q) => Overtaken(q)'
      BY <3>2 DEF Completed
    <3>4. Deserves(q)' <=> Deserves(q)
      BY <2>1 DEF Deserves
    <3>5. threads[q].phase \in {"warn", "announce"} => Completed(q)
      BY <1>0 DEF RunOK, RunInv
    <3>6. "complete" \in events[q] => Completed(q)
      BY <1>0 DEF RunOK, RunInv
    <3> QED
      BY <1>0, <2>1, <2>3, <3>1, <3>2, <3>3, <3>4, <3>5, <3>6
         DEF RunOK, RunInv, Body, Followup, Completed
  <2> QED
    BY <1>5, <2>2, <2>3, RestartMoves
<1>6. CASE Tick \/ UNCHANGED vars
  BY <1>1, <1>6 DEF Tick, vars
<1>7. ASSUME NEW a \in Callers,
             \/ Fire(a) \/ Lookup(a) \/ CronReturns(a) \/ Check(a)
             \/ \E c \in Configs, d \in BOOLEAN : Request(a, c, d)
      PROVE  RunOK(q)'
  BY <1>1, <1>7 DEF Fire, Lookup, CronReturns, Check, Request
<1>8. ASSUME NEW a \in Callers, InsertFails(a) PROVE RunOK(q)'
  <2>1. UNCHANGED <<threads, events, sent>>
    BY <1>8 DEF InsertFails
  <2>2. nextRun' = nextRun \/ nextRun' = nextRun + 1
    BY <1>8, OrphanFields
  <2>3. CASE rows'[q] = rows[q]
    BY <1>0, <1>d, <2>1, <2>2, <2>3, Untouched
  <2>4. CASE q = nextRun /\ nextRun' = nextRun + 1 /\ rows'[q].status = "PENDING"
    <3>1. q >= nextRun /\ ~(q >= nextRun')
      BY <1>0, <2>4
    <3>2. threads[q].phase = "none" /\ events[q] = {} /\ sent[q] = {}
      BY <1>0, <3>1 DEF RunOK, RunInv
    <3> QED
      BY <2>1, <2>4, <3>1, <3>2 DEF RunOK, RunInv, Body, Followup
  <2> QED
    BY <1>8, <2>3, <2>4, OrphanFields
<1> QED
  BY <1>2, <1>3, <1>4, <1>5, <1>6, <1>7, <1>8 DEF Next, CallerStep, Callers, CronCallers

\* Whatever configs run, whatever fails and however the process stops, every run is where
\* its row, its stream and its mail say it is; only a start-up that listed the run of a
\* process still finishing may have put its message over a completed run's.
THEOREM LifecycleHolds == Spec => []LifecycleInv
<1>1. Init => TypeOK /\ LifecycleInv
  BY TypeInit, LifecycleInit
<1>2. TypeOK /\ CallInv /\ LifecycleInv /\ [Next]_vars => LifecycleInv'
  BY LifecycleStep
<1>3. QED
  BY <1>1, <1>2, TypeCorrect, CallsKnowTheirConfig, PTL DEF Spec

\* A COMPLETE run evaluated something and its entries are what the scan scored.
THEOREM CompleteRunsHaveResults == Spec => []CompleteHasResults
<1>1. LifecycleInv => CompleteHasResults
  BY DEF LifecycleInv
<1>2. QED
  BY <1>1, LifecycleHolds, PTL

\* Mail about a run needs its completion, said and on its row (which a start-up may have
\* overtaken since), and recipient mail the delivery flag.
THEOREM MailNeedsCompletion == Spec => []MailFollowsComplete
<1>1. LifecycleInv => MailFollowsComplete
  BY DEF LifecycleInv, RunInv, Completed, MailFollowsComplete
<1>2. QED
  BY <1>1, LifecycleHolds, PTL

\* A run announced complete with a gap carries its warning, or the message of the
\* start-up that overtook it.
THEOREM GapsAlwaysReported == Spec => []GapsAreReported
<1>1. LifecycleInv => GapsAreReported
  BY DEF LifecycleInv, RunInv, GapsAreReported
<1>2. QED
  BY <1>1, LifecycleHolds, PTL

\* The row of a run that was announced complete never changes again, but for the start-up
\* that listed it before it completed in a process left finishing.
THEOREM CompletionStays == Spec => CompletionIsFinal
<1> DEFINE Excused(r) == /\ env.drains > 0 /\ r \in env.stale
                         /\ Overtaken(r)' /\ rows'[r].entries = rows[r].entries
           Frozen == \A r \in Runs : "complete" \in events[r] =>
                        \/ rows'[r] = rows[r]
                        \/ Excused(r)
<1>1. TypeOK /\ CallInv /\ LifecycleInv /\ [Next]_vars => [Frozen]_vars
  <2> SUFFICES ASSUME TypeOK, CallInv, LifecycleInv, Next, NEW r \in Runs, "complete" \in events[r]
               PROVE  rows'[r] = rows[r] \/ Excused(r)
    OBVIOUS
  <2>1. /\ threads[r].phase \in Followup \cup {"killed"} /\ Completed(r)
        /\ rows \in [Runs -> Row] /\ StaleInv(r) /\ env.drains \in Nat
    BY DEF LifecycleInv, RunInv, TypeOK, Server
  <2>2. r # nextRun
    <3>1. r >= nextRun => threads[r].phase = "none"
      BY DEF LifecycleInv, RunInv
    <3>2. nextRun \in Nat /\ r \in Nat
      BY ScanRunsAssumption DEF TypeOK, Runs
    <3> QED
      BY <2>1, <3>1, <3>2 DEF Followup
  <2>3. ASSUME NEW a \in Callers, NEW w \in MailPlans, Insert(a, w) PROVE rows'[r] = rows[r]
    BY <2>2, <2>3, InsertFields
  <2>4. ASSUME NEW a \in Callers, InsertFails(a) PROVE rows'[r] = rows[r]
    BY <2>2, <2>4, OrphanFields
  <2>5. ASSUME NEW q \in Runs, ThreadStep(q) \/ Raises(q) \/ RefreshFails(q) PROVE rows'[r] = rows[r]
    <3>1. CASE q # r
      BY <2>5, <3>1, OtherRunsUntouched
    <3>2. CASE q = r
      BY <2>1, <2>5, <3>2 DEF Followup, ThreadStep, Raises, RefreshFails, Start, SaveBegin, SaveEnd, Persist,
         Complete, Warn, Scan, Announce, MarkError, Abort, EmailWatchlist, AutoSop
    <3> QED
      BY <3>1, <3>2
  <2>6. CASE Restart
    <3>1. rows'[r] = rows[r] \/ r \in env.stale
      BY <2>6, RestartMoves
    <3>2. ASSUME r \in env.stale, rows'[r] # rows[r] PROVE Excused(r)
      <4>1. rows'[r].status = "ERROR" /\ rows'[r].note = "interrupted"
            /\ rows'[r].entries = rows[r].entries
        BY <2>6, <3>2, RestartMoves
      <4>2. env.drains > 0
        BY <2>1, <3>2 DEF StaleInv, Completed, Overtaken
      <4>3. env'.drains = env.drains
        BY <2>6, RestartServer
      <4> QED
        BY <3>2, <4>1, <4>2, <4>3 DEF Overtaken
    <3> QED
      BY <3>1, <3>2
  <2>7. ASSUME UNCHANGED rows PROVE rows'[r] = rows[r]
    BY <2>7
  <2> QED
    BY <2>3, <2>4, <2>5, <2>6, <2>7 DEF Next, CallerStep, Fire, Lookup, CronReturns, Check,
       Request, Crash, Drain, Tick
<1>2. QED
  BY <1>1, TypeCorrect, CallsKnowTheirConfig, LifecycleHolds, PTL DEF Spec, CompletionIsFinal
-----------------------------------------------------------------------------
\* RUNNING rows have their threads and announcements are true, run by run.
LEMMA VerdictInit == Init => \A r \in Runs : VerdictInv(r)
<1> SUFFICES ASSUME Init, NEW r \in Runs PROVE VerdictInv(r)
  OBVIOUS
<1>1. rows[r].status = "absent" /\ threads[r].phase = "none" /\ events[r] = {}
  BY DEF Init, NoThread
<1> QED
  BY <1>1 DEF VerdictInv

\* A run that a step leaves alone keeps its verdict while the server stays as it is.
LEMMA VerdictUntouched ==
  ASSUME NEW q \in Runs, VerdictInv(q), env'.sql = 0 => env.sql = 0, env'.up = env.up,
         env'.stale = env.stale, rows'[q] = rows[q], threads'[q] = threads[q], events'[q] = events[q]
  PROVE  VerdictInv(q)'
  BY DEF VerdictInv

\* The same for every action of its own thread.
LEMMA ThreadKeepsVerdict ==
  ASSUME TypeOK, NEW r \in Runs, RunInv(r), VerdictInv(r), env'.sql = 0 => env.sql = 0,
         ThreadStep(r) \/ Raises(r) \/ RefreshFails(r)
  PROVE  VerdictInv(r)'
<1> DEFINE Moves(from, to) == threads[r].phase = from /\ threads'[r].phase = to
           SameRow == rows'[r] = rows[r]
           Silent == events'[r] = events[r]
           Concl == VerdictInv(r)'
<1>0. /\ rows \in [Runs -> Row] /\ threads \in [Runs -> Thread]
      /\ events \in [Runs -> SUBSET {"start", "complete", "error", "close"}]
      /\ env \in Server
  BY DEF TypeOK
<1>1. CASE Start(r)
  <2>1. /\ Moves("load", "scan") /\ rows'[r].status = "RUNNING"
        /\ events'[r] = events[r] \cup {"start"}
    BY <1>0, <1>1, StatusFields, GotoFields DEF Start, Phases, Body
  <2> QED
    BY <2>1 DEF VerdictInv, Body
<1>2. CASE SaveBegin(r) \/ SaveEnd(r)
  <2>1. threads'[r].phase \in {"saving", "persist", "fail"}
    <3>1. CASE Goto(r, "saving")
      BY <3>1, GotoFields DEF Phases, Body
    <3>2. CASE \E status : Saved(r, status)
      BY <3>2, SavedFields DEF AfterSave
    <3> QED
      BY <1>2, <3>1, <3>2 DEF SaveBegin, SaveEnd
  <2>2. SameRow /\ Silent
    BY <1>2 DEF SaveBegin, SaveEnd
  <2> QED
    BY <2>1, <2>2 DEF VerdictInv, Body
<1>3. CASE Persist(r)
  <2>1. Moves("persist", "complete") /\ Silent
    BY <1>3, GotoFields DEF Persist, Phases, Body
  <2> QED
    BY <2>1 DEF VerdictInv, Body
<1>4. CASE Complete(r)
  <2>1. Moves("complete", "warn") /\ Silent
    BY <1>4, GotoFields DEF Complete, Phases
  <2>2. rows'[r].status = "COMPLETE"
    BY <1>4, StatusFields DEF Complete
  <2> QED
    BY <2>1, <2>2 DEF VerdictInv
<1>5. CASE Warn(r)
  <2>1. Moves("warn", "announce") /\ Silent
    BY <1>5, GotoFields DEF Warn, Phases
  <2>2. rows'[r].status = rows[r].status
    <3>1. rows[r] \in Row
      BY <1>0
    <3>2. SameRow \/ rows'[r] = [rows[r] EXCEPT !.note = "warning"]
      BY <1>0, <1>5 DEF Warn
    <3> QED
      BY <3>1, <3>2 DEF Row
  <2>3. rows[r].status # "RUNNING"
    BY <2>1 DEF RunInv, Completed, Overtaken
  <2> QED
    BY <2>1, <2>2, <2>3 DEF VerdictInv
<1>6. ASSUME NEW e \in {"all", "some", "none"}, NEW s \in BOOLEAN, Scan(r, e, s)
      PROVE  Concl
  <2>1. threads'[r].phase = "save" /\ SameRow /\ Silent
    BY <1>6, ScanFields DEF Scan
  <2> QED
    BY <2>1 DEF VerdictInv, Body
<1>7. CASE Announce(r)
  <2>1. /\ Moves("announce", "email") /\ SameRow
        /\ events'[r] = events[r] \cup {"complete", "close"}
    BY <1>0, <1>7, GotoFields DEF Announce, Phases, Followup
  <2>2. rows[r].status # "RUNNING"
    BY <2>1 DEF RunInv, Completed, Overtaken
  <2> QED
    BY <2>1, <2>2 DEF VerdictInv
<1>8. CASE MarkError(r)
  <2>1. Moves("fail", "abort") /\ Silent
    BY <1>8, GotoFields DEF MarkError, Phases
  <2>2. rows'[r].status = "ERROR" \/ env'.sql # 0
    <3>1. CASE SqlFault
      BY <3>1, FaultFields
    <3>2. CASE rows' = [rows EXCEPT ![r].status = "ERROR", ![r].note = "error"]
      <4>1. rows'[r] = [[rows[r] EXCEPT !.status = "ERROR"] EXCEPT !.note = "error"]
        BY <1>0, <3>2
      <4>2. rows[r] \in Row
        BY <1>0
      <4> QED
        BY <4>1, <4>2 DEF Row
    <3> QED
      BY <1>8, <3>1, <3>2 DEF MarkError
  <2> QED
    BY <2>1, <2>2 DEF VerdictInv
<1>9. CASE Abort(r)
  <2>1. /\ Moves("abort", "failed") /\ SameRow
        /\ events'[r] = events[r] \cup {"error", "close"}
    BY <1>0, <1>9, GotoFields DEF Abort, Phases, Ended
  <2> QED
    BY <2>1 DEF VerdictInv, Body
<1>10. CASE EmailWatchlist(r) \/ AutoSop(r)
  <2>1. threads[r].phase \in Followup /\ threads'[r].phase \in {"sop", "done"}
    BY <1>10, GotoFields DEF EmailWatchlist, AutoSop, Phases, Followup
  <2>2. SameRow /\ Silent
    BY <1>10 DEF EmailWatchlist, AutoSop
  <2>3. rows[r].status # "RUNNING"
    BY <2>1 DEF RunInv, Completed, Overtaken
  <2> QED
    BY <2>1, <2>2, <2>3 DEF VerdictInv
<1>11. CASE Raises(r)
  <2>1. threads'[r].phase = "fail" /\ SameRow /\ Silent
    BY <1>11, GotoFields DEF Raises, Phases
  <2> QED
    BY <2>1 DEF VerdictInv
<1>12. CASE RefreshFails(r)
  <2>1. threads'[r].phase = "fail" /\ Silent
    BY <1>12, GotoFields DEF RefreshFails, Phases
  <2>2. env'.sql # 0
    BY <1>12, FaultFields DEF RefreshFails
  <2> QED
    BY <2>1, <2>2 DEF VerdictInv
<1> QED
  BY <1>1, <1>2, <1>3, <1>4, <1>5, <1>6, <1>7, <1>8, <1>9, <1>10, <1>11, <1>12 DEF ThreadStep

LEMMA VerdictStep ==
  TypeOK /\ CallInv /\ LifecycleInv /\ (\A r \in Runs : VerdictInv(r)) /\ [Next]_vars
    => (\A r \in Runs : VerdictInv(r))'
<1> SUFFICES ASSUME TypeOK, CallInv, LifecycleInv, \A r \in Runs : VerdictInv(r), [Next]_vars,
                    NEW q \in Runs
             PROVE  VerdictInv(q)'
  OBVIOUS
<1>0. /\ VerdictInv(q) /\ RunInv(q) /\ (env'.sql = 0 => env.sql = 0)
      /\ rows \in [Runs -> Row] /\ threads \in [Runs -> Thread]
      /\ env \in Server
  BY CountersGrow DEF LifecycleInv, TypeOK
<1>e. UNCHANGED env \/ SqlFault \/ MongoFault => env'.up = env.up /\ env'.stale = env.stale
  BY FaultFields
<1>1. ASSUME NEW a \in Callers, NEW w \in MailPlans, Insert(a, w) PROVE VerdictInv(q)'
  <2>0. UNCHANGED <<events, env>>
    BY <1>1 DEF Insert
  <2>1. CASE q # nextRun
    BY <1>0, <1>1, <2>0, <2>1, InsertFields, VerdictUntouched
  <2>2. CASE q = nextRun
    <3>1. rows'[q].status = "PENDING" /\ threads'[q].phase = "load"
      BY <1>1, <2>2, InsertFields
    <3> QED
      BY <1>0, <2>0, <3>1 DEF VerdictInv
  <2> QED
    BY <2>1, <2>2
<1>2. ASSUME NEW r \in Runs, ThreadStep(r) \/ Raises(r) \/ RefreshFails(r) PROVE VerdictInv(q)'
  <2>1. CASE q = r
    BY <1>0, <1>2, <2>1, ThreadKeepsVerdict
  <2>2. CASE q # r
    <3>1. env'.up = env.up /\ env'.stale = env.stale
      BY <1>2, <1>e DEF ThreadStep, Raises, RefreshFails, Start, SaveBegin, SaveEnd, Persist, Complete, Warn,
         Scan, Announce, MarkError, Abort, EmailWatchlist, AutoSop
    <3> QED
      BY <1>0, <1>2, <2>2, <3>1, OtherRunsUntouched, VerdictUntouched
  <2> QED
    BY <2>1, <2>2
<1>3. CASE Crash \/ Drain
  <2>1. UNCHANGED <<rows, events>>
    BY <1>3 DEF Crash, Drain
  <2>2. env'.up = FALSE /\ env'.stale = {}
    <3>1. env.up => env.stale = {}
      BY CallByPart
    <3>2. ~env'.up /\ env'.stale = {} /\ env' \in Server
      BY <1>3, <3>1, ProcessMoves
    <3> QED
      BY <3>2 DEF Server
  <2>3. Drain => env.up
    BY ProcessMoves
  <2>4. threads'[q] = threads[q] \/ threads'[q].phase = "killed"
    BY <1>3, ThreadsOfProcess
  <2> QED
    BY <1>0, <2>1, <2>2, <2>3, <2>4 DEF VerdictInv
<1>5. CASE Restart
  <2>0. UNCHANGED <<threads, events>>
    BY <1>5, RestartMoves
  <2>1. CASE env'.sql = env.sql + 1
    <3>1. env.sql + 1 # 0
      BY <1>0 DEF Server
    <3>2. env'.sql # 0
      BY <2>1, <3>1
    <3> QED
      <4>1. threads'[q].phase \in {"abort", "failed"} /\ env'.sql = 0 => FALSE
        BY <3>2
      <4> QED
        BY <1>0, <2>0, <3>2 DEF VerdictInv
  <2>2. CASE /\ rows' = rows /\ env'.stale = {r \in Runs : rows[r].status = "RUNNING"}
             /\ env'.up = (env'.stale = {})
    BY <1>0, <2>0, <2>2 DEF VerdictInv
  <2>3. CASE /\ env'.up = (env'.stale = {})
             /\ \E r \in env.stale : /\ env'.stale = env.stale \ {r}
                                     /\ rows'[r].status = "ERROR"
                                     /\ \A p \in Runs : p # r => rows'[p] = rows[p]
    <3>1. PICK r \in env.stale : /\ env'.stale = env.stale \ {r}
                                 /\ rows'[r].status = "ERROR"
                                 /\ \A p \in Runs : p # r => rows'[p] = rows[p]
      BY <2>3
    <3>2. CASE q = r
      BY <1>0, <2>0, <3>1, <3>2 DEF VerdictInv
    <3>3. CASE q # r
      BY <1>0, <2>0, <2>3, <3>1, <3>3 DEF VerdictInv
    <3> QED
      BY <3>2, <3>3
  <2> QED
    BY <1>5, <2>1, <2>2, <2>3, RestartServer
<1>6. ASSUME rows'[q] = rows[q], UNCHANGED <<threads, events>>,
             env'.up = env.up, env'.stale = env.stale
      PROVE  VerdictInv(q)'
  BY <1>0, <1>6, VerdictUntouched
<1>7. CASE Tick \/ UNCHANGED vars
  BY <1>6, <1>7, ProcessMoves DEF Tick, vars
<1>8. ASSUME NEW a \in Callers,
             \/ Fire(a) \/ Lookup(a) \/ CronReturns(a) \/ Check(a)
             \/ \E c \in Configs, d \in BOOLEAN : Request(a, c, d)
      PROVE  VerdictInv(q)'
  BY <1>6, <1>8, <1>e DEF Fire, Lookup, CronReturns, Check, Request
<1>9. ASSUME NEW a \in Callers, InsertFails(a) PROVE VerdictInv(q)'
  <2>1. UNCHANGED <<threads, events>> /\ env'.up = env.up /\ env'.stale = env.stale
    BY <1>9, <1>e DEF InsertFails
  <2>2. CASE rows'[q] = rows[q]
    BY <1>6, <2>1, <2>2
  <2>3. CASE q = nextRun /\ rows'[q].status = "PENDING"
    <3>1. q >= nextRun
      BY <2>3, ScanRunsAssumption DEF TypeOK
    <3>2. threads[q].phase = "none"
      BY <1>0, <3>1 DEF RunInv
    <3> QED
      BY <1>0, <2>1, <2>3, <3>2 DEF VerdictInv
  <2> QED
    BY <1>9, <2>2, <2>3, OrphanFields
<1> QED
  BY <1>1, <1>2, <1>3, <1>5, <1>7, <1>8, <1>9 DEF Next, CallerStep, Callers, CronCallers

LEMMA VerdictHolds == Spec => [](\A r \in Runs : VerdictInv(r))
<1> DEFINE AllVerdicts == \A r \in Runs : VerdictInv(r)
<1>1. Init => AllVerdicts
  BY VerdictInit
<1>2. TypeOK /\ CallInv /\ LifecycleInv /\ AllVerdicts /\ [Next]_vars => AllVerdicts'
  BY VerdictStep
<1> HIDE DEF AllVerdicts
<1>3. Spec => []AllVerdicts
  BY <1>1, <1>2, TypeCorrect, CallsKnowTheirConfig, LifecycleHolds, PTL DEF Spec
<1> QED
  BY <1>3 DEF AllVerdicts

\* While the server is up and no SQL write failed, whatever the configs and however
\* often the process died, every RUNNING row has a thread working on it.
THEOREM RunningRowsHaveThreads == Spec => []RunningHasThread
<1>1. (\A r \in Runs : VerdictInv(r)) => RunningHasThread
  BY DEF VerdictInv, RunningHasThread
<1>2. QED
  BY <1>1, VerdictHolds, PTL

\* What the stream announced is what the row says (unless a start-up overtook the run),
\* and no stream carries both a complete and an error event.
THEOREM AnnouncementsMatchRows == Spec => []AnnouncementsAreTrue
<1>1. LifecycleInv /\ (\A r \in Runs : VerdictInv(r)) => AnnouncementsAreTrue
  BY DEF LifecycleInv, RunInv, Completed, VerdictInv, AnnouncementsAreTrue, Followup
<1>2. QED
  BY <1>1, VerdictHolds, LifecycleHolds, PTL
-----------------------------------------------------------------------------
\* The slot invariant, one part per lemma.  Calm is its hypothesis: no MongoDB
\* operation failed and no process was drained.
Calm == env.mongo = 0 /\ env.drains = 0

SlotParts == LiveScanHoldsJob /\ SlotIsOpen /\ BusyWithNewest /\ SlotScansOnce

\* Without a shutdown only the jobs have scheduled calls.
LEMMA CalmCalls ==
  ASSUME TypeOK, CallInv, [Next]_vars, Calm'
  PROVE  /\ Calm /\ ~Drain
         /\ \A a \in Callers : callers[a].pc # "idle" /\ callers[a].slot # Manual =>
               /\ a \in Configs /\ a \notin Requests /\ callers[a].config = a
<1>1. Calm
  BY CountersGrow DEF Calm
<1>2. ~Drain
  <2>1. env.drains \in Nat
    BY DEF TypeOK, Server
  <2>2. Drain => env'.drains = env.drains + 1
    BY ProcessMoves
  <2>3. env.drains + 1 # 0
    BY <2>1
  <2> QED
    BY <2>2, <2>3 DEF Calm
<1>3. ASSUME NEW a \in Callers, callers[a].pc # "idle", callers[a].slot # Manual
      PROVE  a \in Configs /\ a \notin Requests /\ callers[a].config = a
  <2>1. CallerOK(a) /\ ~(env.drains > 0)
    BY <1>1, CallByPart DEF Calm
  <2> QED
    BY <1>3, <2>1 DEF CallerOK, Callers, CronCallers
<1> QED
  BY <1>1, <1>2, <1>3

LEMMA LiveScanKeepsJob ==
  ASSUME TypeOK, CallInv, [Next]_vars, Calm', LiveScanHoldsJob
  PROVE  LiveScanHoldsJob'
<1> SUFFICES ASSUME NEW q \in Runs, Cron(q)', threads'[q].phase \notin Ended
             PROVE  /\ callers'[rows'[q].config].pc = "busy"
                    /\ callers'[rows'[q].config].run = q
  BY DEF LiveScanHoldsJob
<1>0. callers \in [Callers -> Caller] /\ \A a \in Callers : CallerOK(a)
  BY CallByPart DEF TypeOK
<1>1. ASSUME NEW a \in Callers, NEW w \in MailPlans, Insert(a, w), q = nextRun
      PROVE  callers'[rows'[q].config].pc = "busy" /\ callers'[rows'[q].config].run = q
  <2>1. rows'[q].config = callers[a].config /\ threads'[q].slot = callers[a].slot
    BY <1>1, InsertFields
  <2>2. a \in Configs /\ a \notin Requests /\ callers[a].config = a
    BY <1>1, <2>1, CalmCalls DEF Cron, Insert
  <2> QED
    BY <1>1, <2>1, <2>2, InsertedCaller
<1>2. ASSUME \A a \in Callers, w \in MailPlans : Insert(a, w) => q # nextRun
      PROVE  callers'[rows'[q].config].pc = "busy" /\ callers'[rows'[q].config].run = q
  <2>1. Stays(q)
    <3>1. ASSUME NEW a \in Callers, NEW w \in MailPlans, Insert(a, w) PROVE Stays(q)
      BY <1>2, <3>1, InsertFields, StaysInPlace
    <3> QED
      BY <3>1, RunsStay
  <2>2. Cron(q) /\ threads[q].phase \notin Ended /\ rows'[q].config = rows[q].config
    BY <2>1, KeyStays DEF Stays, Cron
  <2> DEFINE c == rows[q].config
  <2>3. callers[c].pc = "busy" /\ callers[c].run = q
    BY <2>2 DEF LiveScanHoldsJob
  <2>4. c \in Configs /\ c \in Callers
    BY <2>2 DEF CallInv, Cron, Callers, CronCallers
  <2>5. callers'[c] = callers[c]
    <3>1. ASSUME NEW a \in Callers, NEW w \in MailPlans, Insert(a, w) PROVE callers'[c] = callers[c]
      <4>1. a # c
        BY <2>3, <3>1 DEF Insert
      <4> QED
        BY <2>4, <3>1, <4>1, InsertedCaller
    <3>2. ASSUME NEW a \in Callers,
                 \/ Fire(a) \/ Lookup(a) \/ Check(a) \/ InsertFails(a) \/ CronReturns(a)
                 \/ \E d \in Configs, deliver \in BOOLEAN : Request(a, d, deliver)
          PROVE  callers'[c] = callers[c]
      <4>1. a # c
        BY <2>2, <2>3, <3>2 DEF Fire, Lookup, Check, InsertFails, CronReturns, Request
      <4> QED
        BY <1>0, <2>4, <3>2, <4>1 DEF Fire, Lookup, Check, InsertFails, CronReturns, Request
    <3>3. ASSUME NEW r \in Runs, ThreadStep(r) \/ Raises(r) \/ RefreshFails(r) PROVE callers'[c] = callers[c]
      BY <3>3 DEF ThreadStep, Raises, RefreshFails, Start, SaveBegin, SaveEnd, Persist, Complete, Warn, Scan,
         Announce, MarkError, Abort, EmailWatchlist, AutoSop
    <3>4. ~Crash
      BY ThreadsOfProcess
    <3>5. Restart => callers'[c] = callers[c]
      BY RestartMoves
    <3> QED
      BY <3>1, <3>2, <3>3, <3>4, <3>5, CalmCalls DEF Next, CallerStep, Callers, CronCallers, Tick, vars
  <2> QED
    BY <2>2, <2>3, <2>5
<1> QED
  BY <1>1, <1>2
\* What the history's steps do to the batch of a scheduled slot.
LEMMA BatchMoves ==
  ASSUME TypeOK, CallInv, NEW r \in Runs, SaveBegin(r) \/ SaveEnd(r) \/ Raises(r), NEW k \in CronKeys,
         batches'[k] # batches[k]
  PROVE  /\ Key(r) = k /\ Cron(r) /\ threads[r].phase \in {"save", "saving"}
         /\ batches'[k].run = r
         /\ batches'[k].status \in Published => threads[r].phase = "saving"
<1>0. batches \in [Keys -> Batch] /\ k \in Keys /\ threads[r].phase \in {"save", "saving"}
  BY DEF TypeOK, Keys, SaveBegin, SaveEnd, Raises
<1>1. CASE SaveBegin(r)
  <2>1. batches' = [batches EXCEPT ![Key(r)] = [status |-> "running", run |-> r]]
    BY <1>1 DEF SaveBegin
  <2>2. Key(r) = k /\ batches'[k] = [status |-> "running", run |-> r]
    BY <1>0, <2>1
  <2> QED
    BY <1>0, <2>2, KeyOfRun DEF Published
<1>2. CASE SaveEnd(r) \/ Raises(r)
  <2>1. PICK s : batches' = [batches EXCEPT ![Key(r)].status = s]
    BY <1>2 DEF SaveEnd, Raises
  <2>2. Key(r) = k /\ batches'[k] = [batches[k] EXCEPT !.status = s]
    BY <1>0, <2>1
  <2>3. threads[r].phase = "saving" /\ batches[k].run = r
    <3>1. threads[r].phase = "saving"
      BY <1>2 DEF SaveEnd, Raises
    <3>2. batches[k] = [status |-> "running", run |-> r]
      BY <2>2, <3>1 DEF CallInv
    <3> QED
      BY <3>1, <3>2
  <2>4. batches'[k].run = r
    BY <1>0, <2>2, <2>3 DEF Batch
  <2> QED
    BY <1>0, <2>2, <2>3, <2>4, KeyOfRun
<1> QED
  BY <1>1, <1>2

LEMMA SlotStaysOpen ==
  ASSUME TypeOK, CallInv, [Next]_vars, Calm', LiveScanHoldsJob, SlotIsOpen
  PROVE  SlotIsOpen'
<1> SUFFICES ASSUME NEW c \in Configs, callers'[c].pc \in {"check", "insert"}
             PROVE  batches'[<<c, callers'[c].slot>>].status \notin Published
  BY DEF SlotIsOpen
<1>0. /\ callers \in [Callers -> Caller] /\ \A a \in Callers : CallerOK(a)
      /\ c \in Callers /\ c \notin Requests
      /\ env \in Server
  BY CallByPart, CallersDiffer DEF TypeOK, Callers, CronCallers
<1>1. ASSUME callers'[c] = callers[c] \/ Lookup(c) \/ Check(c)
      PROVE  /\ callers'[c].slot = callers[c].slot /\ callers[c].pc # "idle"
             /\ callers[c].pc \in {"check", "insert"} \/ Lookup(c)
  <2>1. CASE callers'[c] = callers[c]
    BY <2>1
  <2>2. ASSUME NEW pc, callers' = [callers EXCEPT ![c].pc = pc]
        PROVE  callers'[c].slot = callers[c].slot
    BY <1>0, <2>2, PcFields
  <2>3. callers' # [callers EXCEPT ![c] = Idle]
    BY <1>0 DEF Idle
  <2> QED
    BY <1>1, <2>1, <2>2, <2>3 DEF Lookup, Check
<1>2. ASSUME NEW r \in Runs, SaveBegin(r) \/ SaveEnd(r) \/ Raises(r)
      PROVE  batches'[<<c, callers'[c].slot>>].status \notin Published
  <2> DEFINE k == <<c, callers[c].slot>>
  <2>0. callers' = callers
    BY <1>2 DEF SaveBegin, SaveEnd, Raises
  <2>1. batches[k].status \notin Published
    BY <2>0 DEF SlotIsOpen
  <2>2. k \in CronKeys
    <3>1. callers[c].slot \in 0..MaxSlot /\ callers[c].slot # Manual
      BY <1>0, <2>0 DEF Caller, CallerOK
    <3> QED
      BY <3>1, ScanRunsAssumption DEF CronKeys, Manual
  <2>3. ASSUME batches'[k] # batches[k], batches'[k].status \in Published PROVE FALSE
    <3>1. Key(r) = k /\ Cron(r) /\ threads[r].phase = "saving"
      BY <1>2, <2>2, <2>3, BatchMoves
    <3>2. rows[r].config = c
      BY <3>1 DEF Key, Cron
    <3>3. callers[c].pc = "busy"
      BY <3>1, <3>2 DEF LiveScanHoldsJob, Ended
    <3> QED
      BY <2>0, <3>3
  <2> HIDE DEF k
  <2>4. batches'[k].status \notin Published
    BY <2>1, <2>3
  <2> QED
    BY <2>0, <2>4 DEF k
<1>3. ASSUME batches' = batches
      PROVE  batches'[<<c, callers'[c].slot>>].status \notin Published
  <2>1. ASSUME callers'[c] = callers[c] PROVE batches'[<<c, callers'[c].slot>>].status \notin Published
    BY <1>3, <2>1 DEF SlotIsOpen
  <2>2. CASE Lookup(c)
    <3>1. ~MongoFault
      <4>1. MongoFault => env'.mongo = env.mongo + 1
        BY FaultFields
      <4>2. env.mongo + 1 # 0
        BY DEF TypeOK, Server
      <4> QED
        BY <4>1, <4>2 DEF Calm
    <3>2. callers' # [callers EXCEPT ![c] = Idle]
      BY <1>0 DEF Idle
    <3> QED
      <4>1. callers[c].config = c /\ c \in CronCallers
        BY <1>0, <1>1, <2>2 DEF CallerOK, CronCallers
      <4> QED
        BY <1>1, <1>3, <2>2, <3>1, <3>2, <4>1 DEF Lookup
  <2>3. CASE Check(c)
    <3>1. callers[c].pc = "check" /\ callers'[c].slot = callers[c].slot
      BY <1>1, <2>3 DEF Check
    <3> QED
      BY <1>3, <3>1 DEF SlotIsOpen
  <2>4. ASSUME NEW a \in Callers,
               \/ Fire(a) \/ Lookup(a) \/ Check(a) \/ InsertFails(a) \/ CronReturns(a)
               \/ \E d \in Configs, deliver \in BOOLEAN : Request(a, d, deliver) /\ a \in Requests
               \/ \E w \in MailPlans : Insert(a, w)
        PROVE  callers'[c] = callers[c] \/ Lookup(c) \/ Check(c)
    <3>1. CASE a # c
      BY <1>0, <2>4, <3>1, InsertedCaller DEF Fire, Lookup, Check, InsertFails, CronReturns, Request
    <3>2. CASE a = c
      BY <1>0, <2>4, <3>2, InsertedCaller DEF Fire, InsertFails, CronReturns, Idle
    <3> QED
      BY <3>1, <3>2
  <2>5. ASSUME NEW r \in Runs, ThreadStep(r) \/ Raises(r) \/ RefreshFails(r) PROVE callers' = callers
    BY <2>5 DEF ThreadStep, Raises, RefreshFails, Start, SaveBegin, SaveEnd, Persist, Complete, Warn, Scan,
       Announce, MarkError, Abort, EmailWatchlist, AutoSop
  <2>6. ~Crash
    <3>1. Crash => callers'[c] = Idle
      BY <1>0 DEF Crash
    <3> QED
      BY <3>1 DEF Idle
  <2>7. Restart => callers' = callers
    BY RestartMoves
  <2> QED
    BY <2>1, <2>2, <2>3, <2>4, <2>5, <2>6, <2>7, CalmCalls
       DEF Next, CallerStep, Callers, CronCallers, Tick, vars
<1> QED
  BY <1>2, <1>3, BatchesStay

LEMMA NewestStaysBusy ==
  ASSUME TypeOK, CallInv, [Next]_vars, Calm', BusyWithNewest
  PROVE  BusyWithNewest'
<1> SUFFICES ASSUME NEW c \in Configs, callers'[c].pc = "busy",
                    NEW q \in Runs, Cron(q)', rows'[q].config = c
             PROVE  q <= callers'[c].run
  BY DEF BusyWithNewest
<1>0. /\ callers \in [Callers -> Caller] /\ \A a \in Callers : CallerOK(a)
      /\ c \in Callers /\ c \notin Requests
  BY CallByPart, CallersDiffer DEF TypeOK, Callers, CronCallers
<1>1. ASSUME NEW a \in Callers, NEW w \in MailPlans, Insert(a, w)
      PROVE  q <= callers'[c].run
  <2>0. q \in Nat /\ nextRun \in Nat /\ callers[a].pc = "insert"
    <3>1. nextRun \in Runs /\ q \in Runs
      BY <1>1, InsertFields
    <3> QED
      BY <1>1, <3>1 DEF Insert, Runs
  <2>1. CASE a = c
    <3>1. callers'[c].run = nextRun
      BY <1>0, <1>1, <2>1, InsertedCaller
    <3>2. q # nextRun => threads'[q] = threads[q]
      BY <1>1, InsertFields
    <3>3. q # nextRun => ~(q >= nextRun)
      BY <3>2 DEF Cron, CallInv
    <3> QED
      BY <2>0, <3>1, <3>3
  <2>2. CASE a # c
    <3>1. callers'[c] = callers[c]
      BY <1>0, <1>1, <2>2, InsertedCaller
    <3>2. CASE q = nextRun
      <4>1. callers[a].config = c /\ callers[a].slot # Manual
        BY <1>1, <3>2, InsertFields DEF Cron
      <4> QED
        BY <2>0, <2>2, <4>1, CalmCalls
    <3>3. CASE q # nextRun
      <4>1. rows'[q] = rows[q] /\ threads'[q] = threads[q]
        BY <1>1, <3>3, InsertFields
      <4>2. Cron(q) /\ rows[q].config = c
        BY <4>1 DEF Cron
      <4> QED
        BY <3>1, <4>2 DEF BusyWithNewest
    <3> QED
      BY <3>2, <3>3
  <2> QED
    BY <2>1, <2>2
<1>2. ASSUME ~ \E a \in Callers, w \in MailPlans : Insert(a, w)
      PROVE  q <= callers'[c].run
  <2>1. Cron(q) /\ rows[q].config = c
    BY <1>2, RunsStay, KeyStays DEF Stays, Cron
  <2>2. callers'[c] = callers[c]
    <3>1. ASSUME NEW a \in Callers,
                 \/ Fire(a) \/ Lookup(a) \/ Check(a) \/ InsertFails(a) \/ CronReturns(a)
                 \/ \E d \in Configs, deliver \in BOOLEAN : Request(a, d, deliver) /\ a \in Requests
          PROVE  callers'[c] = callers[c]
      <4>1. CASE a # c
        BY <1>0, <3>1, <4>1 DEF Fire, Lookup, Check, InsertFails, CronReturns, Request
      <4>2. CASE a = c
        <5>1. ASSUME NEW pc \in {"check", "insert"} PROVE callers' # [callers EXCEPT ![c].pc = pc]
          BY <1>0, <5>1, PcFields
        <5> QED
          BY <1>0, <3>1, <4>2, <5>1 DEF Fire, Lookup, Check, InsertFails, CronReturns, Idle
      <4> QED
        BY <4>1, <4>2
    <3>2. ASSUME NEW r \in Runs, ThreadStep(r) \/ Raises(r) \/ RefreshFails(r) PROVE callers' = callers
      BY <3>2 DEF ThreadStep, Raises, RefreshFails, Start, SaveBegin, SaveEnd, Persist, Complete, Warn, Scan,
         Announce, MarkError, Abort, EmailWatchlist, AutoSop
    <3>3. ~Crash
      <4>1. Crash => callers'[c] = Idle
        BY <1>0 DEF Crash
      <4> QED
        BY <4>1 DEF Idle
    <3>4. Restart => callers' = callers
      BY RestartMoves
    <3> QED
      BY <1>2, <3>1, <3>2, <3>3, <3>4, CalmCalls
         DEF Next, CallerStep, Callers, CronCallers, Tick, vars
  <2> QED
    BY <2>1, <2>2 DEF BusyWithNewest
<1> QED
  BY <1>1, <1>2

LEMMA SlotStaysScannedOnce ==
  ASSUME TypeOK, CallInv, [Next]_vars, Calm', LiveScanHoldsJob, SlotIsOpen, BusyWithNewest,
         SlotScansOnce
  PROVE  SlotScansOnce'
<1> SUFFICES ASSUME NEW k \in CronKeys, batches'[k].status \in Published, NEW q \in Runs,
                    Cron(q)', Key(q)' = k
             PROVE  q <= batches'[k].run
  BY DEF SlotScansOnce, Cron
<1>0. Calm
  BY CalmCalls
<1>1. ASSUME NEW a \in Callers, NEW w \in MailPlans, Insert(a, w), q = nextRun
      PROVE  FALSE
  <2>1. rows'[q].config = callers[a].config /\ threads'[q].slot = callers[a].slot
    BY <1>1, InsertFields
  <2>2. a \in Configs /\ callers[a].config = a /\ callers[a].slot # Manual
    BY <1>1, <2>1, CalmCalls DEF Cron, Insert
  <2>3. k = <<a, callers[a].slot>>
    BY <2>1, <2>2 DEF Key
  <2>4. batches[k].status \notin Published /\ batches' = batches
    BY <1>1, <2>2, <2>3 DEF Insert, SlotIsOpen
  <2> QED
    BY <2>4
<1>2. ASSUME ~ \E a \in Callers, w \in MailPlans : Insert(a, w) /\ q = nextRun
      PROVE  q <= batches'[k].run
  <2>1. Stays(q)
    <3>1. ASSUME NEW a \in Callers, NEW w \in MailPlans, Insert(a, w) PROVE Stays(q)
      BY <1>2, <3>1, InsertFields, StaysInPlace
    <3> QED
      BY <3>1, RunsStay
  <2>2. Cron(q) /\ Key(q) = k
    BY <2>1, KeyStays DEF Cron
  <2>3. CASE batches'[k] = batches[k]
    BY <1>0, <2>2, <2>3 DEF SlotScansOnce, Calm, Cron
  <2>4. CASE batches'[k] # batches[k]
    <3>1. PICK r \in Runs : SaveBegin(r) \/ SaveEnd(r) \/ Raises(r)
      BY <2>4, BatchesStay
    <3>2. /\ Key(r) = k /\ Cron(r) /\ threads[r].phase = "saving"
          /\ batches'[k].run = r
      BY <2>4, <3>1, BatchMoves
    <3>3. rows[q].config = rows[r].config
      BY <2>2, <3>2 DEF Key, Cron
    <3>4. callers[rows[r].config].pc = "busy" /\ callers[rows[r].config].run = r
      BY <3>2 DEF LiveScanHoldsJob, Ended
    <3>5. rows[r].config \in Configs
      BY <3>2 DEF CallInv
    <3> QED
      BY <2>2, <3>2, <3>3, <3>4, <3>5 DEF BusyWithNewest
  <2> QED
    BY <2>3, <2>4
<1> QED
  BY <1>1, <1>2

LEMMA SlotInit == Init => SlotInv
<1> SUFFICES ASSUME Init PROVE SlotInv
  OBVIOUS
<1>1. \A a \in Callers : callers[a].pc = "idle"
  BY DEF Init, Idle
<1>2. \A r \in Runs : threads[r].phase = "none"
  BY DEF Init, NoThread
<1> QED
  BY <1>1, <1>2 DEF SlotInv, LiveScanHoldsJob, SlotIsOpen, BusyWithNewest,
     SlotScansOnce, Cron, Callers, CronCallers

LEMMA SlotStep == TypeOK /\ CallInv /\ SlotInv /\ [Next]_vars => SlotInv'
<1> SUFFICES ASSUME TypeOK, CallInv, SlotInv, [Next]_vars, Calm'
             PROVE  SlotParts'
  BY DEF SlotInv, SlotParts, Calm
<1>1. Calm /\ SlotParts
  BY CountersGrow DEF Calm, SlotInv, SlotParts
<1>2. LiveScanHoldsJob'
  BY <1>1, LiveScanKeepsJob DEF SlotParts
<1>3. SlotIsOpen'
  BY <1>1, SlotStaysOpen DEF SlotParts
<1>4. BusyWithNewest'
  BY <1>1, NewestStaysBusy DEF SlotParts
<1>5. SlotScansOnce'
  BY <1>1, SlotStaysScannedOnce DEF SlotParts
<1> QED
  BY <1>2, <1>3, <1>4, <1>5 DEF SlotParts

\* While MongoDB answers and nothing is drained, no scheduled slot is scanned again
\* once its batch is published, however many configs, requests and crashes there are.
THEOREM SlotsScanOnce == Spec => []SlotScansOnce
<1>1. TypeOK /\ CallInv /\ SlotInv /\ [Next]_vars => SlotInv'
  BY SlotStep
<1>2. Spec => []SlotInv
  BY SlotInit, <1>1, TypeCorrect, CallsKnowTheirConfig, PTL DEF Spec
<1>3. SlotInv => SlotScansOnce
  BY DEF SlotInv, SlotScansOnce
<1>4. QED
  BY <1>2, <1>3, PTL

-----------------------------------------------------------------------------
\* A row, a job, a registration to do and a request.
RegRow == [cron : Crons, on : BOOLEAN]
RegJob == [cron : Crons, zone : Zones]
RegTask == [row : Registry!JobRows, as : RegRow]
RegTodo == Seq(RegTask)
RegReq ==
    [pc : {"none", "done", "insert", "refresh", "task", "remove", "zone", "add", "forget", "read"},
     rows : SUBSET Registry!Rows, mends : SUBSET Registry!Rows, new : RegRow \cup {Registry!NoRow},
     todo : RegTodo, zone : Zones \cup {""}, alone : BOOLEAN]
RegWorking == {"task", "remove", "zone", "add"}

RegData ==
    /\ table \in [Registry!Rows -> RegRow \cup {Registry!NoRow}]
    /\ zone \in Zones
    /\ jobs \in [Registry!JobRows -> RegJob \cup {Registry!NoJob}]
RegTypes ==
    /\ RegData
    /\ reqs \in [Registry!Requests -> RegReq]
    /\ user \in [account : Accounts, trouble : 0..MaxTrouble]
    /\ past \in [created : SUBSET Registry!JobRows, unsynced : SUBSET Registry!Rows, crowded : BOOLEAN]

\* The job a row asks for.
RegAsk(row, z) == IF row.on THEN [cron |-> row.cron, zone |-> z] ELSE Registry!NoJob

\* What a request may be at work on.
RegShape(req, account) ==
    /\ req.rows \subseteq account /\ req.mends \subseteq req.rows
    /\ \A i \in DOMAIN req.todo : req.todo[i].row \in req.mends
    /\ req.pc \in RegWorking => req.todo # <<>>
    /\ req.pc \in {"zone", "add"} => req.todo[1].as.on
    /\ req.pc = "add" => req.zone \in Zones
    /\ req.pc = "insert" => req.new \in RegRow /\ req.mends = req.rows /\ \E r \in Registry!Capped : req.rows = {r}
    /\ req.pc = "refresh" => req.mends = req.rows /\ \E r \in Registry!JobRows : req.rows = {r}
    /\ req.pc = "read" => req.rows = Registry!JobRows \cap account

\* What a request has read is true, and what it has done is in order, while nobody else works on
\* its rows.
RegTrue(req, db, z) ==
    /\ req.pc \in RegWorking => \A i \in DOMAIN req.todo : req.todo[i].as = db[req.todo[i].row]
    /\ req.pc = "add" => req.zone = z
    /\ req.pc = "forget" => \A r \in req.rows : db[r] = Registry!NoRow
RegDone(req, db, z, job, unsynced) ==
    /\ req.pc \in RegWorking => \A r \in req.rows \cap Registry!JobRows :
         \/ job[r] = RegAsk(db[r], z)
         \/ r \in unsynced \ req.mends
         \/ r \in req.mends /\ \E i \in DOMAIN req.todo : req.todo[i].row = r
    /\ req.pc = "read" => \A r \in req.rows : r \in unsynced \/ db[r].on \/ job[r] = Registry!NoJob
RegCalm(req, db, z, job, unsynced) ==
    req.alone => RegTrue(req, db, z) /\ RegDone(req, db, z, job, unsynced)

RegLive(all) == {q \in Registry!Requests : all[q].pc \notin {"none", "done"}}

RegOwn ==
    /\ \A r \in Registry!Rows : table[r] # Registry!NoRow => r \in user.account
    /\ \A q \in RegLive(reqs) : RegShape(reqs[q], user.account)
    /\ \A q \in RegLive(reqs) : RegCalm(reqs[q], table, zone, jobs, past.unsynced)
    /\ \A p, q \in RegLive(reqs) : p # q /\ reqs[p].rows \cap reqs[q].rows # {} => ~reqs[p].alone

RegFollow ==
    \A r \in Registry!JobRows :
        r \in past.unsynced \/ jobs[r] = RegAsk(table[r], zone) \/ \E q \in RegLive(reqs) : r \in reqs[q].rows

\* The rows of one limit, those about to be added to them, and that there is room for these.
RegBound(S, db) == {r \in S : db[r] # Registry!NoRow}
RegInserts(S, all) == {q \in Registry!Requests : all[q].pc = "insert" /\ all[q].rows \subseteq S}
RegRoom ==
    ~past.crowded => \A S \in {Schedules, Recipients} :
        /\ Cardinality(RegBound(S, table)) <= Cap
        /\ RegInserts(S, reqs) # {} => Cardinality(RegBound(S, table)) < Cap
        /\ \A p, q \in RegInserts(S, reqs) : p = q

RegInv == RegTypes /\ RegOwn /\ RegFollow /\ RegRoom

-----------------------------------------------------------------------------
LEMMA RegFacts ==
    /\ IsFiniteSet(Registry!Rows)
    /\ Scanners \cap (Schedules \cup Presets \cup Recipients) = {}
    /\ Schedules \cap (Presets \cup Recipients) = {} /\ Presets \cap Recipients = {}
    /\ Accounts \subseteq SUBSET Registry!Rows
    /\ "" \notin Crons
    /\ Cap \in Nat /\ MaxRequests \in Nat /\ MaxTrouble \in Nat
    /\ \A row \in RegRow : row # Registry!NoRow
    /\ \A S \in {Schedules, Recipients} : \A T \in SUBSET S : IsFiniteSet(T) /\ Cardinality(T) \in Nat
<1>0. Registry!JobRegistryAssumption
  BY UserRequestsAssumption
<1>1. \A S : Registry!IsFiniteSet(S) <=> IsFiniteSet(S)
  BY DEF Registry!IsFiniteSet, IsFiniteSet
<1>2. IsFiniteSet(Registry!Rows)
  BY <1>0, <1>1 DEF Registry!JobRegistryAssumption
<1>3. \A S \in {Schedules, Recipients} : \A T \in SUBSET S : IsFiniteSet(T) /\ Cardinality(T) \in Nat
  <2> SUFFICES ASSUME NEW S \in {Schedules, Recipients}, NEW T \in SUBSET S
               PROVE  IsFiniteSet(T) /\ Cardinality(T) \in Nat
    OBVIOUS
  <2>1. T \in SUBSET Registry!Rows
    BY DEF Registry!Rows, Registry!JobRows
  <2> QED BY <1>2, <2>1, FS_Subset, FS_CardinalityType
<1>4. \A row \in RegRow : row # Registry!NoRow
  <2> SUFFICES ASSUME NEW row \in RegRow PROVE row # Registry!NoRow
    OBVIOUS
  <2>1. row.cron # "" /\ Registry!NoRow.cron = ""
    BY <1>0 DEF Registry!JobRegistryAssumption, RegRow, Registry!NoRow, Registry!Row
  <2> QED BY <2>1
<1> QED BY <1>0, <1>2, <1>3, <1>4 DEF Registry!JobRegistryAssumption

\* What the registry asks of a row.
LEMMA RegWanted ==
    ASSUME RegTypes, NEW r \in Registry!JobRows
    PROVE  Registry!Wanted(r) = RegAsk(table[r], zone)
<1>1. table[r] \in RegRow \cup {Registry!NoRow} /\ Registry!NoRow.on = FALSE
  BY DEF RegTypes, RegData, Registry!Rows, Registry!NoRow, Registry!Row
<1> QED BY <1>1 DEF Registry!Wanted, RegAsk, Registry!Exists

LEMMA RegInit == Registry!Init => RegInv
<1> SUFFICES ASSUME Registry!Init PROVE RegInv
  OBVIOUS
<1>0. Registry!NoRequest \in RegReq /\ Registry!NoRequest.pc = "none"
  <2>1. <<>> \in RegTodo
    BY DEF RegTodo
  <2> QED BY <2>1 DEF Registry!NoRequest, RegReq
<1>1. RegTypes
  <2>0. 0 \in 0..MaxTrouble
    <3>1. MaxTrouble \in Nat
      BY RegFacts
    <3> QED BY <3>1
  <2>1. user \in [account : Accounts, trouble : 0..MaxTrouble]
    BY <2>0 DEF Registry!Init
  <2>2. reqs \in [Registry!Requests -> RegReq]
    BY <1>0 DEF Registry!Init
  <2> QED BY <2>1, <2>2 DEF RegTypes, RegData, Registry!Init
<1>2. RegLive(reqs) = {} /\ \A S : RegInserts(S, reqs) = {}
  BY <1>0 DEF Registry!Init, RegLive, RegInserts
<1>3. RegOwn
  BY <1>2 DEF RegOwn, Registry!Init
<1>4. RegFollow
  BY DEF RegFollow, Registry!Init, RegAsk, Registry!NoRow, Registry!Row, Registry!Rows
<1>5. RegRoom
  <2>1. \A S \in {Schedules, Recipients} : RegBound(S, table) = {}
    BY DEF Registry!Init, RegBound, Registry!Rows, Registry!JobRows
  <2>2. Cap \in Nat
    BY RegFacts
  <2> QED BY <1>2, <2>1, <2>2, FS_EmptySet DEF RegRoom
<1> QED BY <1>1, <1>3, <1>4, <1>5 DEF RegInv

\* The room stays where no row and no insert is added.
LEMMA RegRoomStays ==
    ASSUME RegInv, past'.crowded = past.crowded,
           \A S \in {Schedules, Recipients} : /\ RegInserts(S, reqs') \subseteq RegInserts(S, reqs)
                                              /\ RegBound(S, table') \subseteq RegBound(S, table)
    PROVE  RegRoom'
<1> SUFFICES ASSUME ~past.crowded, NEW S \in {Schedules, Recipients}
             PROVE  /\ Cardinality(RegBound(S, table')) <= Cap
                    /\ RegInserts(S, reqs') # {} => Cardinality(RegBound(S, table')) < Cap
                    /\ \A p, q \in RegInserts(S, reqs') : p = q
  BY DEF RegRoom
<1>1. /\ Cardinality(RegBound(S, table)) <= Cap
      /\ RegInserts(S, reqs) # {} => Cardinality(RegBound(S, table)) < Cap
      /\ \A p, q \in RegInserts(S, reqs) : p = q
  BY DEF RegInv, RegRoom
<1>2. RegBound(S, table') \subseteq RegBound(S, table) /\ RegBound(S, table) \subseteq S
  BY DEF RegBound
<1>3. /\ IsFiniteSet(RegBound(S, table)) /\ Cardinality(RegBound(S, table)) \in Nat
      /\ Cardinality(RegBound(S, table')) \in Nat
  BY <1>2, RegFacts
<1>4. Cardinality(RegBound(S, table')) <= Cardinality(RegBound(S, table))
  BY <1>2, <1>3, FS_Subset
<1>5. Cap \in Nat
  BY RegFacts
<1> QED BY <1>1, <1>3, <1>4, <1>5

\* What is left to do.
LEMMA RegTodos ==
    ASSUME NEW todo \in RegTodo
    PROVE  /\ \A i \in DOMAIN todo : todo[i].row \in Registry!JobRows /\ todo[i].as \in RegRow
           /\ todo # <<>> => /\ 1 \in DOMAIN todo /\ Tail(todo) \in RegTodo /\ Head(todo) = todo[1]
                             /\ \A i \in DOMAIN todo : i = 1 \/ \E j \in DOMAIN Tail(todo) : Tail(todo)[j] = todo[i]
                             /\ \A j \in DOMAIN Tail(todo) : \E i \in DOMAIN todo : Tail(todo)[j] = todo[i]
<1>1. todo \in Seq(RegTask) /\ DOMAIN todo = 1..Len(todo) /\ Len(todo) \in Nat
  BY DEF RegTodo
<1>2. \A i \in DOMAIN todo : todo[i].row \in Registry!JobRows /\ todo[i].as \in RegRow
  <2> SUFFICES ASSUME NEW i \in DOMAIN todo PROVE todo[i].row \in Registry!JobRows /\ todo[i].as \in RegRow
    OBVIOUS
  <2>1. todo[i] \in RegTask
    BY <1>1
  <2> QED BY <2>1 DEF RegTask
<1>3. ASSUME todo # <<>>
      PROVE  /\ 1 \in DOMAIN todo /\ Tail(todo) \in RegTodo /\ Head(todo) = todo[1]
             /\ \A i \in DOMAIN todo : i = 1 \/ \E j \in DOMAIN Tail(todo) : Tail(todo)[j] = todo[i]
             /\ \A j \in DOMAIN Tail(todo) : \E i \in DOMAIN todo : Tail(todo)[j] = todo[i]
  <2> DEFINE n == Len(todo)
             rest == Tail(todo)
  <2>1. /\ n > 0 /\ rest \in Seq(RegTask) /\ Len(rest) = n - 1 /\ Head(todo) = todo[1]
        /\ \A j \in 1..(n - 1) : rest[j] = todo[j + 1]
    BY <1>1, <1>3
  <2>2. DOMAIN rest = 1..(n - 1) /\ DOMAIN todo = 1..n /\ n \in Nat
    BY <1>1, <2>1
  <2> HIDE DEF n, rest
  <2>3. \A i \in DOMAIN todo : i = 1 \/ \E j \in DOMAIN rest : rest[j] = todo[i]
    <3> SUFFICES ASSUME NEW i \in DOMAIN todo, i # 1 PROVE \E j \in DOMAIN rest : rest[j] = todo[i]
      OBVIOUS
    <3>1. i - 1 \in DOMAIN rest /\ (i - 1) + 1 = i
      BY <2>2
    <3> QED BY <2>1, <2>2, <3>1
  <2>4. \A j \in DOMAIN rest : \E i \in DOMAIN todo : rest[j] = todo[i]
    <3> SUFFICES ASSUME NEW j \in DOMAIN rest PROVE \E i \in DOMAIN todo : rest[j] = todo[i]
      OBVIOUS
    <3>1. j + 1 \in DOMAIN todo
      BY <2>2
    <3> QED BY <2>1, <2>2, <3>1
  <2>5. 1 \in DOMAIN todo
    BY <2>1, <2>2
  <2> QED BY <2>1, <2>3, <2>4, <2>5 DEF rest, RegTodo
<1> QED BY <1>2, <1>3

\* What was true and done for a request stays so where its rows and their jobs stay.
LEMMA RegCalmStays ==
    ASSUME NEW req \in RegReq, NEW account, RegShape(req, account),
           NEW t1, NEW t2, NEW z1, NEW z2, NEW j1, NEW j2, NEW u1, NEW u2,
           \A r \in req.rows : t2[r] = t1[r] /\ (r \in u2 <=> r \in u1) /\ (r \in Registry!JobRows => j2[r] = j1[r]),
           z2 = z1 \/ req.rows \cap Registry!JobRows = {},
           RegCalm(req, t1, z1, j1, u1)
    PROVE  RegCalm(req, t2, z2, j2, u2)
<1> SUFFICES ASSUME req.alone PROVE RegTrue(req, t2, z2) /\ RegDone(req, t2, z2, j2, u2)
  BY DEF RegCalm
<1>1. RegTrue(req, t1, z1) /\ RegDone(req, t1, z1, j1, u1)
  BY DEF RegCalm
<1>2. /\ req.todo \in RegTodo /\ \A i \in DOMAIN req.todo : req.todo[i].row \in req.rows \cap Registry!JobRows
  BY RegTodos DEF RegReq, RegShape
<1>3. req.pc \in RegWorking => req.rows \cap Registry!JobRows # {}
  <2>1. req.pc \in RegWorking => 1 \in DOMAIN req.todo
    BY <1>2, RegTodos DEF RegShape
  <2> QED BY <1>2, <2>1
<1>4. req.pc \in RegWorking => z1 = z2
  BY <1>3
<1>5. RegTrue(req, t2, z2)
  BY <1>1, <1>2, <1>4 DEF RegTrue, RegWorking
<1>6. RegDone(req, t2, z2, j2, u2)
  <2>1. ASSUME req.pc \in RegWorking, NEW r \in req.rows \cap Registry!JobRows
        PROVE  \/ j2[r] = RegAsk(t2[r], z2)
               \/ r \in u2 \ req.mends
               \/ r \in req.mends /\ \E i \in DOMAIN req.todo : req.todo[i].row = r
    <3>1. \/ j1[r] = RegAsk(t1[r], z1)
          \/ r \in u1 \ req.mends
          \/ r \in req.mends /\ \E i \in DOMAIN req.todo : req.todo[i].row = r
      BY <1>1, <2>1 DEF RegDone
    <3>2. t2[r] = t1[r] /\ (r \in u2 <=> r \in u1) /\ j2[r] = j1[r] /\ z1 = z2
      BY <1>4, <2>1
    <3> QED BY <3>1, <3>2
  <2>2. ASSUME req.pc = "read", NEW r \in req.rows PROVE r \in u2 \/ t2[r].on \/ j2[r] = Registry!NoJob
    BY <1>1, <2>2 DEF RegDone, RegShape
  <2> QED BY <2>1, <2>2 DEF RegDone
<1> QED BY <1>5, <1>6

\* One request takes a step or ends.
LEMMA RegOne ==
    ASSUME RegInv, NEW q \in RegLive(reqs), NEW new \in RegReq, reqs' = [reqs EXCEPT ![q] = new],
           zone' = zone, user'.account = user.account,
           \A r \in Registry!Rows : r \notin reqs[q].rows =>
                table'[r] = table[r] /\ (r \in past'.unsynced <=> r \in past.unsynced),
           \A r \in Registry!JobRows : r \notin reqs[q].rows => jobs'[r] = jobs[r],
           \A r \in Registry!Rows : table'[r] # Registry!NoRow => r \in user.account,
           new.pc # "done" =>
                /\ new.pc # "none" /\ new.rows = reqs[q].rows /\ (new.alone => reqs[q].alone)
                /\ RegShape(new, user.account)
                /\ RegCalm(new, table', zone, jobs', past'.unsynced),
           new.pc = "done" => \A r \in reqs[q].rows \cap Registry!JobRows :
                r \in past'.unsynced \/ jobs'[r] = RegAsk(table'[r], zone)
    PROVE  RegOwn' /\ RegFollow'
<1>1. /\ q \in Registry!Requests /\ reqs \in [Registry!Requests -> RegReq]
      /\ reqs'[q] = new /\ \A p \in Registry!Requests : p # q => reqs'[p] = reqs[p]
      /\ reqs' \in [Registry!Requests -> RegReq]
  BY DEF RegInv, RegTypes, RegLive
<1>2. \A p \in RegLive(reqs') : p \in Registry!Requests /\ (p # q => p \in RegLive(reqs) /\ reqs'[p] = reqs[p])
  BY <1>1 DEF RegLive
<1>3. q \in RegLive(reqs') => new.pc # "done"
  BY <1>1 DEF RegLive
<1>4. \A p \in RegLive(reqs') : reqs'[p].rows = reqs[p].rows /\ (reqs'[p].alone => reqs[p].alone) /\ p \in RegLive(reqs)
  BY <1>1, <1>2, <1>3
<1>5. \A p \in RegLive(reqs) : reqs[p].rows \subseteq Registry!Rows
  BY <1>1 DEF RegLive, RegReq
<1>6. \A p, s \in RegLive(reqs') : p # s /\ reqs'[p].rows \cap reqs'[s].rows # {} => ~reqs'[p].alone
  BY <1>4 DEF RegInv, RegOwn
<1>7. \A p \in RegLive(reqs') : RegShape(reqs'[p], user'.account)
  BY <1>1, <1>2, <1>3 DEF RegInv, RegOwn
<1>8. ASSUME NEW p \in RegLive(reqs') PROVE RegCalm(reqs'[p], table', zone', jobs', past'.unsynced)
  <2>1. CASE p = q
    BY <1>1, <1>3, <1>8, <2>1
  <2>2. CASE p # q /\ ~reqs[p].alone
    BY <1>2, <2>2 DEF RegCalm
  <2>3. CASE p # q /\ reqs[p].alone
    <3>1. p \in RegLive(reqs) /\ reqs'[p] = reqs[p] /\ reqs[p] \in RegReq
      BY <1>1, <1>2, <2>3
    <3>2. reqs[p].rows \cap reqs[q].rows = {}
      BY <2>3, <3>1 DEF RegInv, RegOwn
    <3>3. \A r \in reqs[p].rows : /\ table'[r] = table[r] /\ (r \in past'.unsynced <=> r \in past.unsynced)
                                  /\ (r \in Registry!JobRows => jobs'[r] = jobs[r])
      BY <1>5, <3>1, <3>2
    <3>4. /\ RegShape(reqs[p], user.account) /\ RegCalm(reqs[p], table, zone, jobs, past.unsynced)
      BY <3>1 DEF RegInv, RegOwn
    <3>5. RegCalm(reqs[p], table', zone', jobs', past'.unsynced)
      BY <3>1, <3>3, <3>4, RegCalmStays
    <3> QED BY <3>1, <3>5
  <2> QED BY <2>1, <2>2, <2>3
<1>9. RegOwn'
  BY <1>6, <1>7, <1>8 DEF RegOwn
<1>10. RegFollow'
  <2> SUFFICES ASSUME NEW r \in Registry!JobRows
               PROVE  r \in past'.unsynced \/ jobs'[r] = RegAsk(table'[r], zone') \/ \E p \in RegLive(reqs') : r \in reqs'[p].rows
    BY DEF RegFollow
  <2>0. r \in Registry!Rows
    BY DEF Registry!Rows
  <2>1. CASE r \in reqs[q].rows
    <3>1. CASE new.pc = "done"
      BY <2>1, <3>1
    <3>2. CASE new.pc # "done"
      <4>1. q \in RegLive(reqs') /\ reqs'[q].rows = reqs[q].rows
        BY <1>1, <3>2 DEF RegLive
      <4> QED BY <2>1, <4>1
    <3> QED BY <3>1, <3>2
  <2>2. CASE r \notin reqs[q].rows
    <3>1. r \in past.unsynced \/ jobs[r] = RegAsk(table[r], zone) \/ \E p \in RegLive(reqs) : r \in reqs[p].rows
      BY DEF RegInv, RegFollow
    <3>2. table'[r] = table[r] /\ (r \in past'.unsynced <=> r \in past.unsynced) /\ jobs'[r] = jobs[r]
      BY <2>0, <2>2
    <3>3. ASSUME NEW p \in RegLive(reqs), r \in reqs[p].rows PROVE p \in RegLive(reqs') /\ reqs'[p] = reqs[p]
      BY <1>1, <2>2, <3>3 DEF RegLive
    <3> QED BY <3>1, <3>2, <3>3
  <2> QED BY <2>1, <2>2
<1> QED BY <1>9, <1>10

\* A request is over: RegOne, once for all its ends.
LEMMA RegEnds ==
    ASSUME RegInv, NEW q \in RegLive(reqs), NEW req \in RegReq, NEW ok \in BOOLEAN, Registry!Ends(q, req, ok),
           req.rows = reqs[q].rows, req.mends \subseteq req.rows,
           RegData', zone' = zone, user'.account = user.account, user' \in [account : Accounts, trouble : 0..MaxTrouble],
           \A r \in Registry!Rows : r \notin req.rows => table'[r] = table[r],
           \A r \in Registry!JobRows : r \notin req.rows => jobs'[r] = jobs[r],
           \A r \in Registry!Rows : table'[r] # Registry!NoRow => r \in user.account,
           req.alone /\ ok => \A r \in req.rows \cap Registry!JobRows :
                jobs'[r] = RegAsk(table'[r], zone) \/ r \in past.unsynced \ req.mends
    PROVE  /\ RegTypes' /\ RegOwn' /\ RegFollow'
           /\ past'.crowded = past.crowded
           /\ \A S : RegInserts(S, reqs') = RegInserts(S, reqs) \ {q}
<1>1. /\ Registry!Answered \in RegReq /\ Registry!Answered.pc = "done"
  <2>1. <<>> \in RegTodo
    BY DEF RegTodo
  <2> QED BY <2>1 DEF Registry!Answered, Registry!NoRequest, RegReq
<1>2. /\ reqs' = [reqs EXCEPT ![q] = Registry!Answered]
      /\ past' = [past EXCEPT !.unsynced = IF req.alone /\ ok THEN @ \ req.mends ELSE @ \cup req.rows]
  BY DEF Registry!Ends
<1>3. past \in [created : SUBSET Registry!JobRows, unsynced : SUBSET Registry!Rows, crowded : BOOLEAN]
  BY DEF RegInv, RegTypes
<1>4. req.rows \in SUBSET Registry!Rows
  BY DEF RegReq
<1>5. /\ past'.unsynced = IF req.alone /\ ok THEN past.unsynced \ req.mends ELSE past.unsynced \cup req.rows
      /\ past'.crowded = past.crowded
      /\ past' \in [created : SUBSET Registry!JobRows, unsynced : SUBSET Registry!Rows, crowded : BOOLEAN]
  BY <1>2, <1>3, <1>4
<1>6. q \in Registry!Requests /\ reqs \in [Registry!Requests -> RegReq]
  BY DEF RegInv, RegTypes, RegLive
<1>7. RegTypes'
  <2>1. reqs' \in [Registry!Requests -> RegReq]
    BY <1>1, <1>2, <1>6
  <2> QED BY <1>5, <2>1 DEF RegTypes
<1>8. RegOwn' /\ RegFollow'
  <2> DEFINE new == Registry!Answered
  <2>1. \A r \in Registry!Rows : r \notin reqs[q].rows =>
           table'[r] = table[r] /\ (r \in past'.unsynced <=> r \in past.unsynced)
    BY <1>5
  <2>2. \A r \in reqs[q].rows \cap Registry!JobRows : r \in past'.unsynced \/ jobs'[r] = RegAsk(table'[r], zone)
    BY <1>5
  <2>3. new \in RegReq /\ new.pc = "done" /\ reqs' = [reqs EXCEPT ![q] = new]
    BY <1>1, <1>2
  <2> HIDE DEF new
  <2> QED BY <2>1, <2>2, <2>3, RegOne
<1>9. \A S : RegInserts(S, reqs') = RegInserts(S, reqs) \ {q}
  BY <1>1, <1>2, <1>6 DEF RegInserts
<1> QED BY <1>5, <1>7, <1>8, <1>9

\* A request takes a step within its rows and goes on.
LEMMA RegGoesOn ==
    ASSUME RegInv, NEW q \in RegLive(reqs), NEW new \in RegReq, reqs' = [reqs EXCEPT ![q] = new],
           RegData', zone' = zone, user'.account = user.account, user' \in [account : Accounts, trouble : 0..MaxTrouble],
           past' = past,
           \A r \in Registry!Rows : r \notin reqs[q].rows => table'[r] = table[r],
           \A r \in Registry!JobRows : r \notin reqs[q].rows => jobs'[r] = jobs[r],
           \A r \in Registry!Rows : table'[r] # Registry!NoRow => r \in user.account,
           new.pc \notin {"none", "done", "insert"}, new.rows = reqs[q].rows, new.alone => reqs[q].alone,
           RegShape(new, user.account),
           RegCalm(new, table', zone, jobs', past.unsynced)
    PROVE  /\ RegTypes' /\ RegOwn' /\ RegFollow'
           /\ \A S : RegInserts(S, reqs') = RegInserts(S, reqs) \ {q}
<1>1. q \in Registry!Requests /\ reqs \in [Registry!Requests -> RegReq]
  BY DEF RegInv, RegTypes, RegLive
<1>2. RegTypes'
  <2>1. reqs' \in [Registry!Requests -> RegReq]
    BY <1>1
  <2> QED BY <2>1 DEF RegInv, RegTypes
<1>3. RegOwn' /\ RegFollow'
  BY RegOne
<1>4. \A S : RegInserts(S, reqs') = RegInserts(S, reqs) \ {q}
  BY <1>1 DEF RegInserts
<1> QED BY <1>2, <1>3, <1>4

\* One registration less.
LEMMA RegProceeds ==
    ASSUME RegInv, NEW q \in RegLive(reqs), reqs[q].pc \in RegWorking, NEW ok \in BOOLEAN, Registry!Proceeds(q, ok),
           NEW c, c = reqs[q].todo[1].row,
           table' = table, zone' = zone, user'.account = user.account,
           user' \in [account : Accounts, trouble : 0..MaxTrouble],
           jobs' \in [Registry!JobRows -> RegJob \cup {Registry!NoJob}],
           \A r \in Registry!JobRows : r # c => jobs'[r] = jobs[r],
           reqs[q].alone /\ ok => jobs'[c] = RegAsk(table[c], zone)
    PROVE  RegInv'
<1> DEFINE old == reqs[q]
           rest == Tail(old.todo)
           alone == old.alone /\ ok
           req == [old EXCEPT !.todo = rest, !.alone = alone]
<1>1. /\ q \in Registry!Requests /\ reqs \in [Registry!Requests -> RegReq] /\ old \in RegReq
      /\ RegShape(old, user.account) /\ RegCalm(old, table, zone, jobs, past.unsynced)
      /\ past \in [created : SUBSET Registry!JobRows, unsynced : SUBSET Registry!Rows, crowded : BOOLEAN]
  BY DEF RegInv, RegTypes, RegLive, RegOwn
<1>2. old.todo \in RegTodo /\ old.todo # <<>>
  BY <1>1 DEF RegReq, RegShape
<1>3. /\ rest \in RegTodo /\ 1 \in DOMAIN old.todo
      /\ \A i \in DOMAIN old.todo : i = 1 \/ \E j \in DOMAIN rest : rest[j] = old.todo[i]
      /\ \A j \in DOMAIN rest : \E i \in DOMAIN old.todo : rest[j] = old.todo[i]
      /\ \A i \in DOMAIN old.todo : old.todo[i].row \in Registry!JobRows /\ old.todo[i].as \in RegRow
  BY <1>2, RegTodos
<1>4. c \in old.rows /\ c \in Registry!JobRows
  BY <1>1, <1>3 DEF RegShape
<1>5. alone \in BOOLEAN
  BY <1>1 DEF RegReq
<1> HIDE DEF rest, alone
<1>6. /\ req \in RegReq /\ req.rows = old.rows /\ req.mends = old.mends /\ req.todo = rest
      /\ req.pc = old.pc /\ req.alone = alone
  BY <1>1, <1>3, <1>5 DEF RegReq
<1>7. RegData' /\ \A r \in Registry!Rows : table'[r] # Registry!NoRow => r \in user.account
  BY DEF RegInv, RegTypes, RegData, RegOwn
<1>8. alone => old.alone /\ jobs'[c] = RegAsk(table[c], zone)
  BY DEF alone
<1>9. alone => \A r \in old.rows \cap Registry!JobRows :
         \/ jobs'[r] = RegAsk(table[r], zone)
         \/ r \in past.unsynced \ old.mends
         \/ r \in old.mends /\ \E i \in DOMAIN rest : rest[i].row = r
  <2> SUFFICES ASSUME alone, NEW r \in old.rows \cap Registry!JobRows
               PROVE  \/ jobs'[r] = RegAsk(table[r], zone)
                      \/ r \in past.unsynced \ old.mends
                      \/ r \in old.mends /\ \E i \in DOMAIN rest : rest[i].row = r
    OBVIOUS
  <2>1. CASE r = c
    BY <1>8, <2>1
  <2>2. CASE r # c
    <3>1. \/ jobs[r] = RegAsk(table[r], zone)
          \/ r \in past.unsynced \ old.mends
          \/ r \in old.mends /\ \E i \in DOMAIN old.todo : old.todo[i].row = r
      BY <1>1, <1>8 DEF RegCalm, RegDone
    <3>2. ASSUME NEW i \in DOMAIN old.todo, old.todo[i].row = r PROVE \E j \in DOMAIN rest : rest[j].row = r
      BY <1>3, <2>2, <3>2
    <3> QED BY <2>2, <3>1, <3>2
  <2> QED BY <2>1, <2>2
<1>10. old.mends \subseteq old.rows /\ old.rows \in SUBSET Registry!Rows
  BY <1>1 DEF RegShape, RegReq
<1>11. \A S : q \notin RegInserts(S, reqs)
  BY DEF RegInserts, RegWorking
<1>12. CASE rest = <<>>
  <2>1. Registry!Ends(q, req, TRUE)
    BY <1>6, <1>12 DEF Registry!Proceeds, rest, alone
  <2>2. req.alone /\ TRUE => \A r \in req.rows \cap Registry!JobRows :
           jobs'[r] = RegAsk(table'[r], zone) \/ r \in past.unsynced \ req.mends
    BY <1>6, <1>9, <1>12
  <2>3. \A r \in Registry!JobRows : r \notin req.rows => jobs'[r] = jobs[r]
    BY <1>4, <1>6
  <2>4. req.rows = reqs[q].rows /\ req.mends \subseteq req.rows
    BY <1>6, <1>10
  <2>5. /\ RegTypes' /\ RegOwn' /\ RegFollow' /\ past'.crowded = past.crowded
        /\ \A S : RegInserts(S, reqs') = RegInserts(S, reqs) \ {q}
    <3> HIDE DEF req, old
    <3> QED BY <1>6, <1>7, <2>1, <2>2, <2>3, <2>4, RegEnds
  <2>6. RegRoom'
    BY <2>5, RegRoomStays
  <2> QED BY <2>5, <2>6 DEF RegInv
<1>13. CASE rest # <<>>
  <2> DEFINE new == [req EXCEPT !.pc = "task"]
  <2>1. reqs' = [reqs EXCEPT ![q] = new] /\ past' = past
    BY <1>6, <1>13 DEF Registry!Proceeds, rest, alone
  <2>2. /\ new \in RegReq /\ new.rows = old.rows /\ new.mends = old.mends /\ new.todo = rest
        /\ new.pc = "task" /\ new.alone = alone
    BY <1>6 DEF RegReq
  <2> HIDE DEF req, new
  <2>3. RegShape(new, user.account)
    BY <1>1, <1>3, <1>13, <2>2 DEF RegShape
  <2>4. RegCalm(new, table', zone, jobs', past.unsynced)
    <3>1. alone => \A i \in DOMAIN rest : rest[i].as = table[rest[i].row]
      <4>1. alone => \A i \in DOMAIN old.todo : old.todo[i].as = table[old.todo[i].row]
        BY <1>1, <1>8 DEF RegCalm, RegTrue
      <4> QED BY <1>3, <4>1
    <3>2. alone => RegTrue(new, table', zone)
      BY <2>2, <3>1 DEF RegTrue
    <3>3. alone => RegDone(new, table', zone, jobs', past.unsynced)
      BY <1>9, <2>2 DEF RegDone
    <3> QED BY <2>2, <3>2, <3>3 DEF RegCalm
  <2>5. \A r \in Registry!JobRows : r \notin reqs[q].rows => jobs'[r] = jobs[r]
    BY <1>4
  <2>6. new.pc \notin {"none", "done", "insert"} /\ new.rows = reqs[q].rows /\ (new.alone => reqs[q].alone)
    BY <1>8, <2>2
  <2>7. /\ RegTypes' /\ RegOwn' /\ RegFollow'
        /\ \A S : RegInserts(S, reqs') = RegInserts(S, reqs) \ {q}
    <3> HIDE DEF old
    <3> QED BY <1>7, <2>1, <2>2, <2>3, <2>4, <2>5, <2>6, RegGoesOn
  <2>8. RegRoom'
    BY <2>1, <2>7, RegRoomStays
  <2> QED BY <2>7, <2>8 DEF RegInv
<1> QED BY <1>12, <1>13

\* What a request at work on a job has before it.
LEMMA RegCurrent ==
    ASSUME RegInv, NEW q \in Registry!Requests, reqs[q].pc \in RegWorking
    PROVE  /\ q \in RegLive(reqs) /\ reqs[q] \in RegReq
           /\ RegShape(reqs[q], user.account) /\ RegCalm(reqs[q], table, zone, jobs, past.unsynced)
           /\ Registry!Current(q) = reqs[q].todo[1] /\ 1 \in DOMAIN reqs[q].todo
           /\ Registry!Current(q).row \in Registry!JobRows /\ Registry!Current(q).row \in reqs[q].mends
           /\ Registry!Current(q).row \in reqs[q].rows
           /\ Registry!Current(q).as \in RegRow
           /\ reqs[q].alone => Registry!Current(q).as = table[Registry!Current(q).row]
<1>1. q \in RegLive(reqs)
  BY DEF RegLive, RegWorking
<1>2. reqs[q] \in RegReq /\ RegShape(reqs[q], user.account) /\ RegCalm(reqs[q], table, zone, jobs, past.unsynced)
  BY <1>1 DEF RegInv, RegTypes, RegOwn
<1>3. reqs[q].todo \in RegTodo /\ reqs[q].todo # <<>>
  BY <1>2 DEF RegReq, RegShape
<1>4. 1 \in DOMAIN reqs[q].todo /\ Head(reqs[q].todo) = reqs[q].todo[1]
      /\ reqs[q].todo[1].row \in Registry!JobRows /\ reqs[q].todo[1].as \in RegRow
  BY <1>3, RegTodos
<1>5. reqs[q].todo[1].row \in reqs[q].mends /\ reqs[q].todo[1].row \in reqs[q].rows
  BY <1>2, <1>4 DEF RegShape
<1>6. reqs[q].alone => reqs[q].todo[1].as = table[reqs[q].todo[1].row]
  BY <1>2, <1>4 DEF RegCalm, RegTrue
<1> QED BY <1>1, <1>2, <1>4, <1>5, <1>6 DEF Registry!Current

\* The request moves within one registration, having left all jobs but its row's.
LEMMA RegMoves ==
    ASSUME RegInv, NEW q \in Registry!Requests, reqs[q].pc \in RegWorking,
           NEW pc \in {"remove", "zone", "add"}, NEW z \in Zones \cup {""},
           reqs' = [reqs EXCEPT ![q].pc = pc, ![q].zone = z],
           pc \in {"zone", "add"} => Registry!Current(q).as.on, pc = "add" => z = zone,
           table' = table, zone' = zone, user' = user, past' = past,
           jobs' \in [Registry!JobRows -> RegJob \cup {Registry!NoJob}],
           \A r \in Registry!JobRows : r # Registry!Current(q).row => jobs'[r] = jobs[r]
    PROVE  RegInv'
<1> DEFINE old == reqs[q]
           new == [old EXCEPT !.pc = pc, !.zone = z]
           c == Registry!Current(q).row
<1>1. /\ q \in RegLive(reqs) /\ old \in RegReq
      /\ RegShape(old, user.account) /\ RegCalm(old, table, zone, jobs, past.unsynced)
      /\ Registry!Current(q) = old.todo[1] /\ 1 \in DOMAIN old.todo /\ c \in Registry!JobRows /\ c \in old.rows
      /\ c \in old.mends
  BY RegCurrent
<1>2. /\ new \in RegReq /\ new.rows = old.rows /\ new.mends = old.mends /\ new.todo = old.todo
      /\ new.pc = pc /\ new.alone = old.alone /\ new.zone = z
  BY <1>1 DEF RegReq
<1>3. reqs' = [reqs EXCEPT ![q] = new]
  <2>1. reqs \in [Registry!Requests -> RegReq]
    BY DEF RegInv, RegTypes
  <2> QED BY <2>1
<1> HIDE DEF new
<1>4. RegShape(new, user.account)
  <2>1. old.todo # <<>> /\ zone \in Zones
    BY <1>1 DEF RegShape, RegInv, RegTypes, RegData
  <2> QED BY <1>1, <1>2, <2>1 DEF RegShape
<1>5. RegCalm(new, table, zone, jobs', past.unsynced)
  <2>1. old.alone => RegTrue(old, table, zone) /\ RegDone(old, table, zone, jobs, past.unsynced)
    BY <1>1 DEF RegCalm
  <2>2. old.alone => RegTrue(new, table, zone)
    BY <1>2, <2>1 DEF RegTrue
  <2>3. old.alone => RegDone(new, table, zone, jobs', past.unsynced)
    <3> SUFFICES ASSUME old.alone, NEW r \in old.rows \cap Registry!JobRows
                 PROVE  \/ jobs'[r] = RegAsk(table[r], zone)
                        \/ r \in past.unsynced \ old.mends
                        \/ r \in old.mends /\ \E i \in DOMAIN old.todo : old.todo[i].row = r
      BY <1>2 DEF RegDone
    <3>1. \/ jobs[r] = RegAsk(table[r], zone)
          \/ r \in past.unsynced \ old.mends
          \/ r \in old.mends /\ \E i \in DOMAIN old.todo : old.todo[i].row = r
      BY <2>1 DEF RegDone
    <3>2. CASE r = c
      BY <1>1, <3>1, <3>2
    <3>3. CASE r # c
      BY <3>1, <3>3
    <3> QED BY <3>2, <3>3
  <2> QED BY <1>2, <2>2, <2>3 DEF RegCalm
<1>6. /\ RegData' /\ user'.account = user.account /\ user' \in [account : Accounts, trouble : 0..MaxTrouble]
      /\ \A r \in Registry!Rows : table'[r] # Registry!NoRow => r \in user.account
  BY DEF RegInv, RegTypes, RegData, RegOwn
<1>7. /\ RegTypes' /\ RegOwn' /\ RegFollow'
      /\ \A S : RegInserts(S, reqs') = RegInserts(S, reqs) \ {q}
  <2>1. \A r \in Registry!JobRows : r \notin reqs[q].rows => jobs'[r] = jobs[r]
    BY <1>1
  <2>2. new.pc \notin {"none", "done", "insert"}
    BY <1>2
  <2> HIDE DEF c
  <2> QED BY <1>1, <1>2, <1>3, <1>4, <1>5, <1>6, <2>1, <2>2, RegGoesOn
<1>8. RegRoom'
  BY <1>7, RegRoomStays
<1> QED BY <1>7, <1>8 DEF RegInv

LEMMA RegThenZone ==
    ASSUME RegInv, NEW q \in Registry!Requests, reqs[q].pc \in RegWorking, Registry!ThenZone(q),
           table' = table, zone' = zone, user' = user,
           jobs' \in [Registry!JobRows -> RegJob \cup {Registry!NoJob}],
           \A r \in Registry!JobRows : r # Registry!Current(q).row => jobs'[r] = jobs[r],
           Registry!Current(q).as.on \/ jobs'[Registry!Current(q).row] = Registry!NoJob
    PROVE  RegInv'
<1> DEFINE c == Registry!Current(q).row
<1>1. /\ q \in RegLive(reqs) /\ reqs[q] \in RegReq /\ Registry!Current(q) = reqs[q].todo[1]
      /\ reqs[q].alone => Registry!Current(q).as = table[c]
  BY RegCurrent
<1>2. CASE Registry!Current(q).as.on
  <2>1. reqs' = [reqs EXCEPT ![q].pc = "zone"] /\ past' = past
    BY <1>2 DEF Registry!ThenZone
  <2> DEFINE z == reqs[q].zone
  <2>2. reqs' = [reqs EXCEPT ![q].pc = "zone", ![q].zone = z] /\ z \in Zones \cup {""}
    <3>1. reqs \in [Registry!Requests -> RegReq]
      BY DEF RegInv, RegTypes
    <3> QED BY <1>1, <2>1, <3>1 DEF RegReq
  <2> HIDE DEF z
  <2> QED BY <1>2, <2>1, <2>2, RegMoves
<1>3. CASE ~Registry!Current(q).as.on
  <2>1. Registry!Proceeds(q, TRUE)
    BY <1>3 DEF Registry!ThenZone
  <2>2. reqs[q].alone /\ TRUE => jobs'[c] = RegAsk(table[c], zone)
    BY <1>1, <1>3 DEF RegAsk
  <2>3. user'.account = user.account /\ user' \in [account : Accounts, trouble : 0..MaxTrouble]
    BY DEF RegInv, RegTypes
  <2>4. c = reqs[q].todo[1].row
    BY <1>1
  <2> DEFINE ok == TRUE
  <2>5. ok \in BOOLEAN /\ Registry!Proceeds(q, ok) /\ (reqs[q].alone /\ ok => jobs'[c] = RegAsk(table[c], zone))
    BY <2>1, <2>2
  <2> HIDE DEF c, ok
  <2>6. \A r \in Registry!JobRows : r # c => jobs'[r] = jobs[r]
    BY DEF c
  <2> QED BY <1>1, <2>3, <2>4, <2>5, <2>6, RegProceeds
<1> QED BY <1>2, <1>3

LEMMA RegBegin ==
    ASSUME RegInv, NEW q \in Registry!Requests, Registry!Begin(q) \/ Registry!RemoveJob(q)
    PROVE  RegInv'
<1> DEFINE c == Registry!Current(q).row
<1>0. /\ reqs[q].pc \in RegWorking /\ table' = table /\ zone' = zone /\ user' = user
  BY DEF Registry!Begin, Registry!RemoveJob, Registry!At, RegWorking
<1>1. /\ q \in RegLive(reqs) /\ reqs[q] \in RegReq /\ c \in Registry!JobRows /\ Registry!Current(q) = reqs[q].todo[1]
  BY <1>0, RegCurrent
<1>2. jobs \in [Registry!JobRows -> RegJob \cup {Registry!NoJob}] /\ reqs \in [Registry!Requests -> RegReq]
  BY DEF RegInv, RegTypes, RegData
<1>3. CASE /\ Registry!ThenZone(q)
           /\ \/ jobs' = jobs /\ (Registry!Current(q).as.on \/ jobs[c] = Registry!NoJob)
              \/ jobs' = [jobs EXCEPT ![c] = Registry!NoJob]
  <2>1. /\ jobs' \in [Registry!JobRows -> RegJob \cup {Registry!NoJob}]
        /\ \A r \in Registry!JobRows : r # c => jobs'[r] = jobs[r]
        /\ Registry!Current(q).as.on \/ jobs'[c] = Registry!NoJob
    BY <1>1, <1>2, <1>3
  <2> QED BY <1>0, <1>3, <2>1, RegThenZone
<1>4. CASE reqs' = [reqs EXCEPT ![q].pc = "remove"] /\ UNCHANGED <<jobs, past>>
  <2> DEFINE z == reqs[q].zone
  <2>1. reqs' = [reqs EXCEPT ![q].pc = "remove", ![q].zone = z] /\ z \in Zones \cup {""}
    BY <1>1, <1>2, <1>4 DEF RegReq
  <2> HIDE DEF z
  <2> QED BY <1>0, <1>2, <1>4, <2>1, RegMoves
<1>5. CASE Registry!Proceeds(q, FALSE) /\ UNCHANGED jobs
  <2>1. user'.account = user.account /\ user' \in [account : Accounts, trouble : 0..MaxTrouble]
    BY <1>0 DEF RegInv, RegTypes
  <2>2. c = reqs[q].todo[1].row
    BY <1>1
  <2> HIDE DEF c
  <2> QED BY <1>0, <1>1, <1>2, <1>5, <2>1, <2>2, RegProceeds
<1>6. \/ /\ Registry!ThenZone(q)
         /\ \/ jobs' = jobs /\ (Registry!Current(q).as.on \/ jobs[c] = Registry!NoJob)
            \/ jobs' = [jobs EXCEPT ![c] = Registry!NoJob]
      \/ reqs' = [reqs EXCEPT ![q].pc = "remove"] /\ UNCHANGED <<jobs, past>>
      \/ Registry!Proceeds(q, FALSE) /\ UNCHANGED jobs
  BY DEF Registry!Begin, Registry!RemoveJob
<1> QED BY <1>3, <1>4, <1>5, <1>6

LEMMA RegUserTz ==
    ASSUME RegInv, NEW q \in Registry!Requests, Registry!UserTz(q)
    PROVE  RegInv'
<1>0. /\ reqs[q].pc = "zone" /\ table' = table /\ zone' = zone /\ jobs' = jobs
  BY DEF Registry!UserTz, Registry!At
<1>1. /\ q \in RegLive(reqs) /\ reqs[q].pc \in RegWorking /\ Registry!Current(q) = reqs[q].todo[1]
  BY <1>0, RegCurrent DEF RegWorking
<1>2. jobs' \in [Registry!JobRows -> RegJob \cup {Registry!NoJob}] /\ reqs \in [Registry!Requests -> RegReq]
      /\ zone \in Zones /\ user \in [account : Accounts, trouble : 0..MaxTrouble]
  BY <1>0 DEF RegInv, RegTypes, RegData
<1>3. CASE reqs' = [reqs EXCEPT ![q].pc = "add", ![q].zone = zone] /\ UNCHANGED <<user, past>>
  <2>1. Registry!Current(q).as.on
    <3>1. RegShape(reqs[q], user.account)
      BY <1>1, RegCurrent
    <3> QED BY <1>0, <1>1, <3>1 DEF RegShape
  <2> QED BY <1>0, <1>1, <1>2, <1>3, <2>1, RegMoves
<1>4. CASE /\ user.trouble < MaxTrouble /\ user' = [user EXCEPT !.trouble = @ + 1]
           /\ Registry!Proceeds(q, FALSE)
  <2>1. user'.account = user.account /\ user' \in [account : Accounts, trouble : 0..MaxTrouble]
    <3>1. MaxTrouble \in Nat
      BY RegFacts
    <3> QED BY <1>2, <1>4, <3>1
  <2> QED BY <1>0, <1>1, <1>2, <1>4, <2>1, RegProceeds
<1> QED BY <1>3, <1>4 DEF Registry!UserTz

LEMMA RegAddJob ==
    ASSUME RegInv, NEW q \in Registry!Requests, Registry!AddJob(q)
    PROVE  RegInv'
<1> DEFINE c == Registry!Current(q).row
<1>0. /\ reqs[q].pc = "add" /\ table' = table /\ zone' = zone /\ user' = user
      /\ jobs' = [jobs EXCEPT ![c] = [cron |-> Registry!Current(q).as.cron, zone |-> reqs[q].zone]]
      /\ Registry!Proceeds(q, TRUE)
  BY DEF Registry!AddJob, Registry!At
<1>1. /\ q \in RegLive(reqs) /\ reqs[q].pc \in RegWorking /\ Registry!Current(q) = reqs[q].todo[1]
      /\ RegShape(reqs[q], user.account) /\ RegCalm(reqs[q], table, zone, jobs, past.unsynced)
      /\ c \in Registry!JobRows /\ Registry!Current(q).as \in RegRow
      /\ reqs[q].alone => Registry!Current(q).as = table[c]
  BY <1>0, RegCurrent DEF RegWorking
<1>2. /\ jobs \in [Registry!JobRows -> RegJob \cup {Registry!NoJob}]
      /\ user'.account = user.account /\ user' \in [account : Accounts, trouble : 0..MaxTrouble]
  BY <1>0 DEF RegInv, RegTypes, RegData
<1>3. Registry!Current(q).as.on /\ reqs[q].zone \in Zones /\ Registry!Current(q).as.cron \in Crons
  BY <1>0, <1>1 DEF RegShape, RegRow
<1>4. reqs[q].alone => reqs[q].zone = zone
  BY <1>0, <1>1 DEF RegCalm, RegTrue
<1>5. /\ jobs' \in [Registry!JobRows -> RegJob \cup {Registry!NoJob}]
      /\ \A r \in Registry!JobRows : r # c => jobs'[r] = jobs[r]
      /\ jobs'[c] = [cron |-> Registry!Current(q).as.cron, zone |-> reqs[q].zone]
  BY <1>0, <1>1, <1>2, <1>3 DEF RegJob
<1> DEFINE ok == TRUE
<1>6. ok \in BOOLEAN /\ Registry!Proceeds(q, ok) /\ (reqs[q].alone /\ ok => jobs'[c] = RegAsk(table[c], zone))
  BY <1>0, <1>1, <1>3, <1>4, <1>5 DEF RegAsk
<1>7. c = reqs[q].todo[1].row
  BY <1>1
<1> HIDE DEF c, ok
<1> QED BY <1>0, <1>1, <1>2, <1>5, <1>6, <1>7, RegProceeds

\* The steps of one request that change its rows or their jobs for good.
LEMMA RegForget ==
    ASSUME RegInv, NEW q \in Registry!Requests, Registry!Forget(q)
    PROVE  RegInv'
<1> DEFINE req == reqs[q]
           ok == TRUE
<1>0. /\ req.pc = "forget" /\ table' = table /\ zone' = zone /\ user' = user
      /\ jobs' = [r \in Registry!JobRows |-> IF r \in req.rows THEN Registry!NoJob ELSE jobs[r]]
      /\ Registry!Ends(q, req, ok) /\ ok \in BOOLEAN
  BY DEF Registry!Forget, Registry!At
<1>1. /\ q \in RegLive(reqs) /\ req \in RegReq /\ RegShape(req, user.account)
      /\ RegCalm(req, table, zone, jobs, past.unsynced)
  <2>1. q \in RegLive(reqs)
    BY <1>0 DEF RegLive
  <2> QED BY <2>1 DEF RegInv, RegTypes, RegOwn, RegLive
<1>2. RegData' /\ user'.account = user.account /\ user' \in [account : Accounts, trouble : 0..MaxTrouble]
  BY <1>0 DEF RegInv, RegTypes, RegData
<1>3. req.mends \subseteq req.rows
  BY <1>1 DEF RegShape
<1>4. req.alone /\ ok => \A r \in req.rows \cap Registry!JobRows :
        jobs'[r] = RegAsk(table'[r], zone) \/ r \in past.unsynced \ req.mends
  <2>1. Registry!NoRow.on = FALSE
    BY DEF Registry!NoRow, Registry!Row
  <2> QED BY <1>0, <1>1, <2>1 DEF RegCalm, RegTrue, RegAsk
<1>5. /\ \A r \in Registry!JobRows : r \notin req.rows => jobs'[r] = jobs[r]
      /\ \A r \in Registry!Rows : table'[r] # Registry!NoRow => r \in user.account
  BY <1>0 DEF RegInv, RegOwn
<1>6. \A S : q \notin RegInserts(S, reqs)
  BY <1>0 DEF RegInserts
<1>7. /\ RegTypes' /\ RegOwn' /\ RegFollow' /\ past'.crowded = past.crowded
      /\ \A S : RegInserts(S, reqs') = RegInserts(S, reqs) \ {q}
  <2>1. req.rows = reqs[q].rows
    OBVIOUS
  <2> HIDE DEF req, ok
  <2> QED BY <1>0, <1>1, <1>2, <1>3, <1>4, <1>5, <2>1, RegEnds
<1>8. RegRoom'
  BY <1>0, <1>7, RegRoomStays
<1> QED BY <1>7, <1>8 DEF RegInv

LEMMA RegRefresh ==
    ASSUME RegInv, NEW q \in Registry!Requests, Registry!Refresh(q)
    PROVE  RegInv'
<1> DEFINE req == reqs[q]
<1>0. /\ req.pc = "refresh" /\ table' = table /\ zone' = zone /\ user' = user /\ jobs' = jobs
  BY DEF Registry!Refresh
<1>1. /\ q \in RegLive(reqs) /\ req \in RegReq /\ RegShape(req, user.account)
      /\ reqs \in [Registry!Requests -> RegReq]
  <2>1. q \in RegLive(reqs)
    BY <1>0 DEF RegLive
  <2> QED BY <2>1 DEF RegInv, RegTypes, RegOwn, RegLive
<1>2. PICK r \in Registry!JobRows : req.rows = {r} /\ req.mends = {r}
  BY <1>0, <1>1 DEF RegShape
<1>3. /\ RegData' /\ user'.account = user.account /\ user' \in [account : Accounts, trouble : 0..MaxTrouble]
      /\ \A s \in Registry!Rows : table'[s] # Registry!NoRow => s \in user.account
  BY <1>0 DEF RegInv, RegTypes, RegData, RegOwn
<1>4. CASE Registry!Exists(r)
  <2> DEFINE todo == <<Registry!Task(r, table[r])>>
             new == [req EXCEPT !.pc = "task", !.todo = todo]
  <2>1. reqs' = [reqs EXCEPT ![q] = new] /\ past' = past
    BY <1>1, <1>2, <1>4 DEF Registry!Refresh
  <2>2. todo \in RegTodo /\ DOMAIN todo = {1} /\ todo[1].row = r /\ todo[1].as = table[r] /\ todo # <<>>
    <3>1. table[r] \in RegRow
      BY <1>4 DEF RegInv, RegTypes, RegData, Registry!Exists, Registry!Rows
    <3>2. Registry!Task(r, table[r]) \in RegTask
      BY <3>1 DEF Registry!Task, RegTask
    <3>3. Registry!Task(r, table[r]).row = r /\ Registry!Task(r, table[r]).as = table[r]
      BY DEF Registry!Task
    <3> QED BY <3>2, <3>3 DEF RegTodo
  <2> HIDE DEF todo
  <2>3. /\ new \in RegReq /\ new.rows = {r} /\ new.mends = {r} /\ new.todo = todo /\ new.pc = "task"
        /\ new.alone = req.alone
    BY <1>1, <1>2, <2>2 DEF RegReq
  <2> HIDE DEF new
  <2>4. RegShape(new, user.account)
    BY <1>1, <1>2, <2>2, <2>3 DEF RegShape
  <2>5. RegCalm(new, table', zone, jobs', past.unsynced)
    BY <1>0, <2>2, <2>3 DEF RegCalm, RegTrue, RegDone
  <2>6. /\ RegTypes' /\ RegOwn' /\ RegFollow'
        /\ \A S : RegInserts(S, reqs') = RegInserts(S, reqs) \ {q}
    <3>1. new.pc \notin {"none", "done", "insert"} /\ new.rows = reqs[q].rows /\ (new.alone => reqs[q].alone)
      BY <1>2, <2>3
    <3> HIDE DEF req
    <3> QED BY <1>0, <1>1, <1>3, <2>1, <2>3, <2>4, <2>5, <3>1, RegGoesOn
  <2>7. RegRoom'
    BY <1>0, <2>1, <2>6, RegRoomStays
  <2> QED BY <2>6, <2>7 DEF RegInv
<1>5. CASE ~Registry!Exists(r)
  <2> DEFINE ok == FALSE
  <2>1. Registry!Ends(q, req, ok) /\ ok \in BOOLEAN /\ ~ok
    BY <1>2, <1>5 DEF Registry!Refresh
  <2>2. req.mends \subseteq req.rows /\ req.rows = reqs[q].rows
    BY <1>2
  <2>3. /\ RegTypes' /\ RegOwn' /\ RegFollow' /\ past'.crowded = past.crowded
        /\ \A S : RegInserts(S, reqs') = RegInserts(S, reqs) \ {q}
    <3> HIDE DEF req, ok
    <3> QED BY <1>0, <1>1, <1>3, <2>1, <2>2, RegEnds
  <2>4. RegRoom'
    BY <1>0, <2>3, RegRoomStays
  <2> QED BY <2>3, <2>4 DEF RegInv
<1> QED BY <1>4, <1>5

\* A finite set can be counted, and who counts to its number without repetition has it all.
LEMMA Counting ==
    ASSUME NEW S, IsFiniteSet(S), NEW n, n = Cardinality(S)
    PROVE  /\ n \in Nat
           /\ \E g \in [1..n -> S] : \A a, b \in 1..n : g[a] = g[b] => a = b
           /\ \A f \in [1..n -> S] :
                (\A a, b \in 1..n : f[a] = f[b] => a = b) => \A x \in S : \E i \in 1..n : f[i] = x
<1>1. n \in Nat /\ ExistsBijection(1..n, S)
  BY FS_CardinalityType
<1>2. PICK g \in Bijection(1..n, S) : TRUE
  BY <1>1 DEF ExistsBijection
<1>3. g \in [1..n -> S] /\ \A a, b \in 1..n : g[a] = g[b] => a = b
  BY <1>1, <1>2, Fun_BijectionProperties
<1>4. ASSUME NEW f \in [1..n -> S], \A a, b \in 1..n : f[a] = f[b] => a = b
      PROVE  \A x \in S : \E i \in 1..n : f[i] = x
  <2>1. f \in Injection(1..n, S)
    BY <1>4, Fun_IsInj
  <2>2. Cardinality(1..n) = Cardinality(S)
    BY <1>1, FS_Interval
  <2>3. f \in Surjection(1..n, S)
    BY <2>1, <2>2, FS_Injection
  <2> QED BY <1>1, <2>3, Fun_SurjectionProperties
<1> QED BY <1>1, <1>3, <1>4

\* The tasks for a set of rows: each row once, as it is now.
LEMMA RegTasks ==
    ASSUME RegInv, NEW S \in SUBSET Registry!JobRows, \A r \in S : table[r] \in RegRow
    PROVE  /\ Registry!Tasks(S) \in RegTodo
           /\ \A i \in DOMAIN Registry!Tasks(S) : /\ Registry!Tasks(S)[i].row \in S
                                                  /\ Registry!Tasks(S)[i].as = table[Registry!Tasks(S)[i].row]
           /\ \A r \in S : \E i \in DOMAIN Registry!Tasks(S) : Registry!Tasks(S)[i].row = r
<1> DEFINE n == Cardinality(S)
           f == Registry!Listed(S)
           one(i) == Registry!Task(f[i], table[f[i]])
<1>1. IsFiniteSet(S)
  <2>1. IsFiniteSet(Registry!Rows) /\ S \in SUBSET Registry!Rows
    BY RegFacts DEF Registry!Rows
  <2> QED BY <2>1, FS_Subset
<1>2. n \in Nat
  BY <1>1, Counting
<1>3. \E g \in [1..n -> S] : Registry!IsInjective(g)
  <2>1. PICK g \in [1..n -> S] : \A x, y \in 1..n : g[x] = g[y] => x = y
    BY <1>1, Counting
  <2> HIDE DEF n
  <2> QED BY <2>1 DEF Registry!IsInjective
<1>4. \A T : Registry!Cardinality(T) = Cardinality(T)
  BY DEF Registry!Cardinality, Cardinality
<1>5. f \in [1..n -> S] /\ Registry!IsInjective(f)
  BY <1>3, <1>4 DEF Registry!Listed
<1>6. Registry!Tasks(S) = [i \in 1..n |-> one(i)]
  BY <1>4 DEF Registry!Tasks
<1> HIDE DEF n, f
<1>7. \A r \in S : \E i \in 1..n : f[i] = r
  <2>1. \A x, y \in 1..n : f[x] = f[y] => x = y
    BY <1>5 DEF Registry!IsInjective
  <2>2. n = Cardinality(S)
    BY DEF n
  <2> HIDE DEF one
  <2> QED BY <1>1, <1>5, <2>1, <2>2, Counting
<1>8. \A i \in 1..n : one(i) \in RegTask /\ one(i).row = f[i] /\ one(i).as = table[f[i]] /\ f[i] \in S
  BY <1>5 DEF RegTask, Registry!Task
<1> HIDE DEF one
<1>9. Registry!Tasks(S) \in Seq(RegTask) /\ DOMAIN Registry!Tasks(S) = 1..n
  BY <1>2, <1>6, <1>8
<1> QED BY <1>6, <1>7, <1>8, <1>9 DEF RegTodo

\* One list of tasks after another.
LEMMA RegBoth ==
    ASSUME NEW a \in RegTodo, NEW b \in RegTodo
    PROVE  /\ a \o b \in RegTodo
           /\ \A i \in DOMAIN (a \o b) : \/ \E j \in DOMAIN a : (a \o b)[i] = a[j]
                                         \/ \E j \in DOMAIN b : (a \o b)[i] = b[j]
           /\ \A j \in DOMAIN a : \E i \in DOMAIN (a \o b) : (a \o b)[i] = a[j]
           /\ \A j \in DOMAIN b : \E i \in DOMAIN (a \o b) : (a \o b)[i] = b[j]
<1> DEFINE s == a \o b
           m == Len(a)
           n == Len(b)
<1>1. /\ s \in Seq(RegTask) /\ Len(s) = m + n
      /\ \A i \in 1..(m + n) : s[i] = IF i <= m THEN a[i] ELSE b[i - m]
  BY ConcatProperties DEF RegTodo
<1>2. m \in Nat /\ n \in Nat /\ DOMAIN a = 1..m /\ DOMAIN b = 1..n /\ DOMAIN s = 1..(m + n)
  BY <1>1 DEF RegTodo
<1> HIDE DEF s, m, n
<1>3. ASSUME NEW i \in DOMAIN s PROVE (\E j \in DOMAIN a : s[i] = a[j]) \/ \E j \in DOMAIN b : s[i] = b[j]
  <2>1. CASE i <= m
    <3>1. i \in DOMAIN a /\ s[i] = a[i]
      BY <1>1, <1>2, <2>1
    <3> QED BY <3>1
  <2>2. CASE ~(i <= m)
    <3>1. i - m \in DOMAIN b /\ s[i] = b[i - m]
      BY <1>1, <1>2, <2>2
    <3> QED BY <3>1
  <2> QED BY <2>1, <2>2
<1>4. ASSUME NEW j \in DOMAIN a PROVE \E i \in DOMAIN s : s[i] = a[j]
  <2>1. j \in DOMAIN s /\ s[j] = a[j]
    BY <1>1, <1>2
  <2> QED BY <2>1
<1>5. ASSUME NEW j \in DOMAIN b PROVE \E i \in DOMAIN s : s[i] = b[j]
  <2>1. m + j \in DOMAIN s /\ s[m + j] = b[(m + j) - m] /\ (m + j) - m = j
    BY <1>1, <1>2
  <2> QED BY <2>1
<1> QED BY <1>1, <1>3, <1>4, <1>5 DEF s, RegTodo

LEMMA RegReadRows ==
    ASSUME RegInv, NEW q \in Registry!Requests, Registry!ReadRows(q)
    PROVE  RegInv'
<1> DEFINE On == Registry!Enabled(Registry!JobRows)
           a == Registry!Tasks(Registry!Enabled(Scanners))
           b == Registry!Tasks(Registry!Enabled(Schedules))
           c == Registry!Tasks(Registry!Enabled(Presets))
           todo == a \o b \o c
           old == reqs[q]
           req == [old EXCEPT !.mends = On, !.todo = todo]
<1>0. /\ old.pc = "read" /\ table' = table /\ zone' = zone /\ user' = user /\ jobs' = jobs
      /\ IF todo = <<>> THEN Registry!Ends(q, req, TRUE)
         ELSE reqs' = [reqs EXCEPT ![q] = [req EXCEPT !.pc = "task"]] /\ past' = past
  BY DEF Registry!ReadRows
<1>1. /\ q \in RegLive(reqs) /\ old \in RegReq /\ RegShape(old, user.account)
      /\ RegCalm(old, table, zone, jobs, past.unsynced)
  <2>1. q \in RegLive(reqs)
    BY <1>0 DEF RegLive
  <2> QED BY <2>1 DEF RegInv, RegTypes, RegOwn, RegLive
<1>2. \A r \in Registry!JobRows : r \in On <=> Registry!Exists(r) /\ table[r].on
  BY DEF Registry!Enabled
<1>3. On \subseteq Registry!JobRows /\ \A r \in On : table[r] \in RegRow
  BY DEF RegInv, RegTypes, RegData, Registry!Enabled, Registry!Exists, Registry!Rows
<1>4. /\ Registry!Enabled(Scanners) \cup Registry!Enabled(Schedules) \cup Registry!Enabled(Presets) = On
  BY DEF Registry!Enabled, Registry!JobRows
<1>5. /\ a \in RegTodo /\ b \in RegTodo /\ c \in RegTodo
      /\ \A i \in DOMAIN a : a[i].row \in On /\ a[i].as = table[a[i].row]
      /\ \A i \in DOMAIN b : b[i].row \in On /\ b[i].as = table[b[i].row]
      /\ \A i \in DOMAIN c : c[i].row \in On /\ c[i].as = table[c[i].row]
      /\ \A r \in On : \/ \E i \in DOMAIN a : a[i].row = r
                       \/ \E i \in DOMAIN b : b[i].row = r
                       \/ \E i \in DOMAIN c : c[i].row = r
  <2>1. \A S \in {Scanners, Schedules, Presets} : /\ Registry!Enabled(S) \in SUBSET Registry!JobRows
                                                 /\ Registry!Enabled(S) \subseteq On
                                                 /\ \A r \in Registry!Enabled(S) : table[r] \in RegRow
    BY <1>3, <1>4
  <2>2. \A S \in {Scanners, Schedules, Presets} : LET e == Registry!Tasks(Registry!Enabled(S))
           IN  /\ e \in RegTodo
               /\ \A i \in DOMAIN e : e[i].row \in On /\ e[i].as = table[e[i].row]
               /\ \A r \in Registry!Enabled(S) : \E i \in DOMAIN e : e[i].row = r
    BY <2>1, RegTasks
  <2> HIDE DEF On
  <2> QED BY <1>4, <2>2
<1> HIDE DEF a, b, c
<1>6. /\ todo \in RegTodo
      /\ \A i \in DOMAIN todo : todo[i].row \in On /\ todo[i].as = table[todo[i].row]
      /\ \A r \in On : \E i \in DOMAIN todo : todo[i].row = r
  <2> DEFINE ab == a \o b
  <2>1. /\ ab \in RegTodo
        /\ \A i \in DOMAIN ab : ab[i].row \in On /\ ab[i].as = table[ab[i].row]
        /\ \A r \in On : (\E i \in DOMAIN ab : ab[i].row = r) \/ \E i \in DOMAIN c : c[i].row = r
    <3>1. /\ ab \in RegTodo
          /\ \A i \in DOMAIN ab : (\E j \in DOMAIN a : ab[i] = a[j]) \/ \E j \in DOMAIN b : ab[i] = b[j]
          /\ \A j \in DOMAIN a : \E i \in DOMAIN ab : ab[i] = a[j]
          /\ \A j \in DOMAIN b : \E i \in DOMAIN ab : ab[i] = b[j]
      BY <1>5, RegBoth
    <3> HIDE DEF ab, On
    <3>2. \A i \in DOMAIN ab : ab[i].row \in On /\ ab[i].as = table[ab[i].row]
      BY <1>5, <3>1
    <3>3. \A r \in On : (\E i \in DOMAIN ab : ab[i].row = r) \/ \E i \in DOMAIN c : c[i].row = r
      BY <1>5, <3>1
    <3> QED BY <3>1, <3>2, <3>3
  <2> HIDE DEF ab
  <2>2. /\ ab \o c \in RegTodo
        /\ \A i \in DOMAIN (ab \o c) : \/ \E j \in DOMAIN ab : (ab \o c)[i] = ab[j]
                                       \/ \E j \in DOMAIN c : (ab \o c)[i] = c[j]
        /\ \A j \in DOMAIN ab : \E i \in DOMAIN (ab \o c) : (ab \o c)[i] = ab[j]
        /\ \A j \in DOMAIN c : \E i \in DOMAIN (ab \o c) : (ab \o c)[i] = c[j]
    BY <1>5, <2>1, RegBoth
  <2>3. todo = ab \o c
    BY DEF ab
  <2> HIDE DEF todo, On
  <2>4. \A i \in DOMAIN todo : todo[i].row \in On /\ todo[i].as = table[todo[i].row]
    BY <1>5, <2>1, <2>2, <2>3
  <2>5. \A r \in On : \E i \in DOMAIN todo : todo[i].row = r
    BY <1>5, <2>1, <2>2, <2>3
  <2> QED BY <2>2, <2>3, <2>4, <2>5
<1>7. old.rows = Registry!JobRows \cap user.account /\ On \subseteq old.rows
  <2>1. old.rows = Registry!JobRows \cap user.account
    BY <1>0, <1>1 DEF RegShape
  <2>2. \A r \in On : r \in user.account
    BY <1>2, <1>3 DEF RegInv, RegOwn, Registry!Exists, Registry!Rows
  <2> QED BY <1>3, <2>1, <2>2
<1> HIDE DEF todo
<1>8. req \in RegReq /\ req.rows = old.rows /\ req.mends = On /\ req.todo = todo /\ req.alone = old.alone
  <2>1. On \in SUBSET Registry!Rows
    BY <1>3 DEF Registry!Rows
  <2> QED BY <1>1, <1>6, <2>1 DEF RegReq
<1>9. old.alone => \A r \in old.rows \cap Registry!JobRows :
         \/ jobs[r] = RegAsk(table[r], zone)
         \/ r \in past.unsynced \ On
         \/ r \in On /\ \E i \in DOMAIN todo : todo[i].row = r
  <2> SUFFICES ASSUME old.alone, NEW r \in old.rows \cap Registry!JobRows, r \notin On
               PROVE  jobs[r] = RegAsk(table[r], zone) \/ r \in past.unsynced \ On
    BY <1>6
  <2>1. r \in past.unsynced \/ table[r].on \/ jobs[r] = Registry!NoJob
    BY <1>0, <1>1 DEF RegCalm, RegDone
  <2>2. ~table[r].on
    <3>1. Registry!Exists(r) \/ table[r] = Registry!NoRow
      BY DEF Registry!Exists
    <3>2. Registry!NoRow.on = FALSE
      BY DEF Registry!NoRow, Registry!Row
    <3> QED BY <1>2, <3>1, <3>2
  <2> QED BY <2>1, <2>2 DEF RegAsk
<1>10. /\ RegData' /\ user'.account = user.account /\ user' \in [account : Accounts, trouble : 0..MaxTrouble]
       /\ \A r \in Registry!Rows : table'[r] # Registry!NoRow => r \in user.account
  BY <1>0 DEF RegInv, RegTypes, RegData, RegOwn
<1>11. CASE todo = <<>>
  <2> DEFINE ok == TRUE
  <2>1. Registry!Ends(q, req, ok) /\ ok \in BOOLEAN
    BY <1>0, <1>11
  <2>2. req.mends \subseteq req.rows /\ req.rows = reqs[q].rows
    BY <1>7, <1>8
  <2>3. DOMAIN todo = {}
    BY <1>11
  <2>4. req.alone /\ ok => \A r \in req.rows \cap Registry!JobRows :
           jobs'[r] = RegAsk(table'[r], zone) \/ r \in past.unsynced \ req.mends
    <3> HIDE DEF req, old, On
    <3> QED BY <1>0, <1>8, <1>9, <2>3
  <2>5. /\ RegTypes' /\ RegOwn' /\ RegFollow' /\ past'.crowded = past.crowded
        /\ \A S : RegInserts(S, reqs') = RegInserts(S, reqs) \ {q}
    <3> HIDE DEF req, ok, old
    <3> QED BY <1>0, <1>1, <1>8, <1>10, <2>1, <2>2, <2>4, RegEnds
  <2>6. RegRoom'
    BY <1>0, <2>5, RegRoomStays
  <2> QED BY <2>5, <2>6 DEF RegInv
<1>12. CASE todo # <<>>
  <2> DEFINE new == [req EXCEPT !.pc = "task"]
  <2>1. reqs' = [reqs EXCEPT ![q] = new] /\ past' = past
    BY <1>0, <1>12
  <2> HIDE DEF On
  <2>2. /\ new \in RegReq /\ new.rows = old.rows /\ new.mends = On /\ new.todo = todo /\ new.pc = "task"
        /\ new.alone = old.alone
    <3> HIDE DEF req
    <3> QED BY <1>8 DEF RegReq
  <2> HIDE DEF new, req
  <2>3. RegShape(new, user.account)
    BY <1>1, <1>6, <1>7, <1>12, <2>2 DEF RegShape
  <2>4. RegCalm(new, table', zone, jobs', past.unsynced)
    <3>1. RegTrue(new, table', zone)
      BY <1>0, <1>6, <2>2 DEF RegTrue
    <3>2. old.alone => RegDone(new, table', zone, jobs', past.unsynced)
      BY <1>0, <1>9, <2>2 DEF RegDone
    <3> QED BY <2>2, <3>1, <3>2 DEF RegCalm
  <2>5. /\ RegTypes' /\ RegOwn' /\ RegFollow'
        /\ \A S : RegInserts(S, reqs') = RegInserts(S, reqs) \ {q}
    <3>1. new.pc \notin {"none", "done", "insert"} /\ new.rows = reqs[q].rows /\ (new.alone => reqs[q].alone)
      BY <2>2
    <3> HIDE DEF old
    <3> QED BY <1>0, <1>1, <1>10, <2>1, <2>2, <2>3, <2>4, <3>1, RegGoesOn
  <2>6. RegRoom'
    BY <1>0, <2>1, <2>5, RegRoomStays
  <2> QED BY <2>5, <2>6 DEF RegInv
<1> QED BY <1>11, <1>12

LEMMA RegInsert ==
    ASSUME RegInv, NEW q \in Registry!Requests, Registry!Insert(q)
    PROVE  RegInv'
<1> DEFINE req == reqs[q]
<1>0. /\ req.pc = "insert" /\ zone' = zone /\ user' = user /\ jobs' = jobs
  BY DEF Registry!Insert
<1>1. /\ q \in RegLive(reqs) /\ req \in RegReq /\ RegShape(req, user.account)
      /\ reqs \in [Registry!Requests -> RegReq]
      /\ table \in [Registry!Rows -> RegRow \cup {Registry!NoRow}]
  <2>1. q \in RegLive(reqs)
    BY <1>0 DEF RegLive
  <2> QED BY <2>1 DEF RegInv, RegTypes, RegData, RegOwn, RegLive
<1>2. PICK r \in Registry!Capped : req.rows = {r} /\ req.mends = {r} /\ req.new \in RegRow
  BY <1>0, <1>1 DEF RegShape
<1>3. r \in Registry!Rows /\ r \in user.account /\ req.new # Registry!NoRow
  <2>1. r \in Registry!Rows
    BY DEF Registry!Capped, Registry!Rows, Registry!JobRows
  <2> QED BY <1>1, <1>2, <2>1, RegFacts DEF RegShape
<1>4. user'.account = user.account /\ user' \in [account : Accounts, trouble : 0..MaxTrouble]
  BY <1>0 DEF RegInv, RegTypes
<1>5. ASSUME ~Registry!Exists(r), table' = [table EXCEPT ![r] = req.new], past'.crowded = past.crowded,
             \A S : RegInserts(S, reqs') = RegInserts(S, reqs) \ {q}
      PROVE  RegRoom'
  <2> SUFFICES ASSUME ~past.crowded, NEW S \in {Schedules, Recipients}
               PROVE  /\ Cardinality(RegBound(S, table')) <= Cap
                      /\ RegInserts(S, reqs') # {} => Cardinality(RegBound(S, table')) < Cap
                      /\ \A p, s \in RegInserts(S, reqs') : p = s
    BY <1>5 DEF RegRoom
  <2>1. /\ Cardinality(RegBound(S, table)) <= Cap
        /\ RegInserts(S, reqs) # {} => Cardinality(RegBound(S, table)) < Cap
        /\ \A p, s \in RegInserts(S, reqs) : p = s
    BY DEF RegInv, RegRoom
  <2>2. CASE r \in S
    <3>1. q \in RegInserts(S, reqs)
      BY <1>0, <1>2, <2>2 DEF RegInserts
    <3>2. RegInserts(S, reqs') = {}
      BY <1>5, <2>1, <3>1
    <3>3. RegBound(S, table') = RegBound(S, table) \cup {r} /\ r \notin RegBound(S, table)
      <4>1. S \subseteq Registry!Rows
        BY DEF Registry!Rows, Registry!JobRows
      <4> QED BY <1>1, <1>3, <1>5, <2>2, <4>1 DEF RegBound, Registry!Exists
    <3>4. IsFiniteSet(RegBound(S, table)) /\ Cardinality(RegBound(S, table)) \in Nat
      <4>1. RegBound(S, table) \in SUBSET S
        BY DEF RegBound
      <4> QED BY <4>1, RegFacts
    <3>5. Cardinality(RegBound(S, table')) = Cardinality(RegBound(S, table)) + 1
      BY <3>3, <3>4, FS_AddElement
    <3>6. Cap \in Nat
      BY RegFacts
    <3> QED BY <2>1, <3>1, <3>2, <3>4, <3>5, <3>6
  <2>3. CASE r \notin S
    <3>1. RegBound(S, table') = RegBound(S, table)
      <4>1. S \subseteq Registry!Rows
        BY DEF Registry!Rows, Registry!JobRows
      <4> QED BY <1>1, <1>5, <2>3, <4>1 DEF RegBound
    <3> QED BY <1>5, <2>1, <3>1
  <2> QED BY <2>2, <2>3
<1>6. ASSUME table' = [table EXCEPT ![r] = req.new]
      PROVE  /\ RegData' /\ \A s \in Registry!Rows : table'[s] # Registry!NoRow => s \in user.account
             /\ \A s \in Registry!Rows : s \notin req.rows => table'[s] = table[s]
  BY <1>0, <1>1, <1>2, <1>3, <1>6 DEF RegInv, RegTypes, RegData, RegOwn
<1>7. CASE /\ ~Registry!Exists(r) /\ table' = [table EXCEPT ![r] = req.new] /\ r \in Registry!JobRows
           /\ reqs' = [reqs EXCEPT ![q].pc = "refresh"] /\ past' = past
  <2> DEFINE new == [req EXCEPT !.pc = "refresh"]
  <2>1. reqs' = [reqs EXCEPT ![q] = new]
    BY <1>1, <1>7
  <2>2. /\ new \in RegReq /\ new.rows = req.rows /\ new.mends = req.mends /\ new.todo = req.todo
        /\ new.pc = "refresh" /\ new.alone = req.alone
    BY <1>1 DEF RegReq
  <2> HIDE DEF new
  <2>3. RegShape(new, user.account) /\ RegCalm(new, table', zone, jobs', past.unsynced)
    <3>1. RegShape(new, user.account)
      BY <1>1, <1>2, <1>7, <2>2 DEF RegShape, RegWorking
    <3>2. RegCalm(new, table', zone, jobs', past.unsynced)
      BY <2>2 DEF RegCalm, RegTrue, RegDone, RegWorking
    <3> QED BY <3>1, <3>2
  <2>4. /\ RegTypes' /\ RegOwn' /\ RegFollow'
        /\ \A S : RegInserts(S, reqs') = RegInserts(S, reqs) \ {q}
    <3>1. new.pc \notin {"none", "done", "insert"} /\ new.rows = reqs[q].rows /\ (new.alone => reqs[q].alone)
      BY <2>2
    <3>2. /\ RegData' /\ \A s \in Registry!Rows : table'[s] # Registry!NoRow => s \in user.account
          /\ \A s \in Registry!Rows : s \notin reqs[q].rows => table'[s] = table[s]
      BY <1>6, <1>7
    <3> HIDE DEF req
    <3> QED BY <1>0, <1>1, <1>4, <1>7, <2>1, <2>2, <2>3, <3>1, <3>2, RegGoesOn
  <2>5. RegRoom'
    BY <1>5, <1>7, <2>4
  <2> QED BY <2>4, <2>5 DEF RegInv
<1>8. CASE /\ ~Registry!Exists(r) /\ table' = [table EXCEPT ![r] = req.new] /\ r \notin Registry!JobRows
           /\ Registry!Ends(q, req, TRUE)
  <2> DEFINE ok == TRUE
  <2>1. Registry!Ends(q, req, ok) /\ ok \in BOOLEAN
    BY <1>8
  <2>2. req.mends \subseteq req.rows /\ req.rows = reqs[q].rows
    BY <1>2
  <2>3. \A s \in req.rows \cap Registry!JobRows :
           jobs'[s] = RegAsk(table'[s], zone) \/ s \in past.unsynced \ req.mends
    BY <1>2, <1>8
  <2>4. /\ RegData' /\ \A s \in Registry!Rows : table'[s] # Registry!NoRow => s \in user.account
        /\ \A s \in Registry!Rows : s \notin req.rows => table'[s] = table[s]
    BY <1>6, <1>8
  <2>5. /\ RegTypes' /\ RegOwn' /\ RegFollow' /\ past'.crowded = past.crowded
        /\ \A S : RegInserts(S, reqs') = RegInserts(S, reqs) \ {q}
    <3> HIDE DEF req, ok
    <3> QED BY <1>0, <1>1, <1>4, <2>1, <2>2, <2>3, <2>4, RegEnds
  <2>6. RegRoom'
    BY <1>5, <1>8, <2>5
  <2> QED BY <2>5, <2>6 DEF RegInv
<1>9. CASE Registry!Exists(r) /\ table' = table /\ Registry!Ends(q, req, FALSE)
  <2> DEFINE ok == FALSE
  <2>1. Registry!Ends(q, req, ok) /\ ok \in BOOLEAN /\ ~ok
    BY <1>9
  <2>2. req.mends \subseteq req.rows /\ req.rows = reqs[q].rows
    BY <1>2
  <2>3. RegData' /\ \A s \in Registry!Rows : table'[s] # Registry!NoRow => s \in user.account
    BY <1>0, <1>9 DEF RegInv, RegTypes, RegData, RegOwn
  <2>4. /\ RegTypes' /\ RegOwn' /\ RegFollow' /\ past'.crowded = past.crowded
        /\ \A S : RegInserts(S, reqs') = RegInserts(S, reqs) \ {q}
    <3> HIDE DEF req, ok
    <3> QED BY <1>0, <1>1, <1>4, <1>9, <2>1, <2>2, <2>3, RegEnds
  <2>5. RegRoom'
    BY <1>9, <2>4, RegRoomStays
  <2> QED BY <2>4, <2>5 DEF RegInv
<1>10. \/ /\ ~Registry!Exists(r) /\ table' = [table EXCEPT ![r] = req.new]
          /\ \/ r \in Registry!JobRows /\ reqs' = [reqs EXCEPT ![q].pc = "refresh"] /\ past' = past
             \/ r \notin Registry!JobRows /\ Registry!Ends(q, req, TRUE)
       \/ Registry!Exists(r) /\ table' = table /\ Registry!Ends(q, req, FALSE)
  BY <1>2 DEF Registry!Insert
<1> QED BY <1>7, <1>8, <1>9, <1>10

-----------------------------------------------------------------------------
\* The arrival of a request; those that are at work on one of its rows are not alone any more.
LEMMA RegArrives ==
    ASSUME RegInv, NEW q \in Registry!Requests, NEW pc \in {"done", "insert", "refresh", "forget", "read"},
           NEW rs \in SUBSET Registry!Rows, NEW new \in RegRow \cup {Registry!NoRow}, Registry!Arrive(q, pc, rs, new),
           RegData', jobs' = jobs, user' = user, past'.unsynced = past.unsynced,
           past' \in [created : SUBSET Registry!JobRows, unsynced : SUBSET Registry!Rows, crowded : BOOLEAN],
           rs \subseteq user.account,
           zone' = zone \/ Registry!JobRows \cap user.account \subseteq rs,
           \A r \in Registry!Rows : r \notin rs => table'[r] = table[r],
           \A r \in Registry!Rows : table'[r] # Registry!NoRow => r \in user.account,
           pc = "done" => rs \cap Registry!JobRows = {},
           pc = "insert" => new \in RegRow /\ \E r \in Registry!Capped : rs = {r},
           pc = "refresh" => \E r \in Registry!JobRows : rs = {r},
           pc = "forget" => \A r \in rs : table'[r] = Registry!NoRow,
           pc = "read" => table' = table /\ rs = Registry!JobRows \cap user.account
    PROVE  /\ RegTypes' /\ RegOwn' /\ RegFollow'
           /\ \A S : RegInserts(S, reqs') = IF pc = "insert" /\ rs \subseteq S THEN RegInserts(S, reqs) \cup {q}
                                            ELSE RegInserts(S, reqs)
<1> DEFINE Met == Registry!Overlaps(rs)
           mine == IF pc = "done" THEN Registry!Answered
                   ELSE [Registry!NoRequest EXCEPT !.pc = pc, !.rows = rs, !.mends = rs, !.new = new, !.alone = Met = {}]
<1>1. /\ reqs \in [Registry!Requests -> RegReq] /\ user \in [account : Accounts, trouble : 0..MaxTrouble]
      /\ reqs[q].pc = "none"
  BY DEF RegInv, RegTypes, Registry!Arrive
<1>2. /\ Met = {p \in RegLive(reqs) : reqs[p].rows \cap rs # {}} /\ q \notin Met
  BY <1>1 DEF Registry!Overlaps, Registry!Live, RegLive
<1>3. /\ reqs'[q] = mine
      /\ \A p \in Registry!Requests : p # q /\ p \in Met => reqs'[p] = [reqs[p] EXCEPT !.alone = FALSE]
      /\ \A p \in Registry!Requests : p # q /\ p \notin Met => reqs'[p] = reqs[p]
      /\ DOMAIN reqs' = Registry!Requests
      /\ reqs' = [p \in Registry!Requests |->
                    IF p = q THEN mine ELSE IF p \in Met THEN [reqs[p] EXCEPT !.alone = FALSE] ELSE reqs[p]]
  BY DEF Registry!Arrive
<1>4. /\ mine \in RegReq /\ mine.pc = pc
      /\ pc # "done" => /\ mine.rows = rs /\ mine.mends = rs /\ mine.new = new /\ mine.todo = <<>>
                        /\ mine.alone = (Met = {})
  <2>1. <<>> \in RegTodo
    BY DEF RegTodo
  <2> HIDE DEF Met
  <2> QED BY <2>1 DEF Registry!Answered, Registry!NoRequest, RegReq
<1> HIDE DEF mine, Met
<1>5. \A p \in Registry!Requests : p # q =>
         /\ reqs'[p] \in RegReq
         /\ reqs'[p].pc = reqs[p].pc /\ reqs'[p].rows = reqs[p].rows /\ reqs'[p].mends = reqs[p].mends
         /\ reqs'[p].todo = reqs[p].todo /\ reqs'[p].zone = reqs[p].zone /\ reqs'[p].new = reqs[p].new
         /\ (reqs'[p].alone => (reqs[p].alone /\ p \notin Met /\ reqs'[p] = reqs[p]))
  <2> SUFFICES ASSUME NEW p \in Registry!Requests, p # q
               PROVE  /\ reqs'[p] \in RegReq
                      /\ reqs'[p].pc = reqs[p].pc /\ reqs'[p].rows = reqs[p].rows /\ reqs'[p].mends = reqs[p].mends
                      /\ reqs'[p].todo = reqs[p].todo /\ reqs'[p].zone = reqs[p].zone /\ reqs'[p].new = reqs[p].new
                      /\ (reqs'[p].alone => (reqs[p].alone /\ p \notin Met /\ reqs'[p] = reqs[p]))
    OBVIOUS
  <2>0. reqs[p] \in RegReq
    BY <1>1
  <2>1. CASE p \in Met
    <3>1. reqs'[p] = [reqs[p] EXCEPT !.alone = FALSE]
      BY <1>3, <2>1
    <3> QED BY <2>0, <3>1 DEF RegReq
  <2>2. CASE p \notin Met
    BY <1>3, <2>0, <2>2
  <2> QED BY <2>1, <2>2
<1>6. RegTypes'
  <2>1. reqs' \in [Registry!Requests -> RegReq]
    <3>1. \A p \in Registry!Requests : reqs'[p] \in RegReq
      BY <1>3, <1>4, <1>5
    <3>2. DOMAIN reqs' = Registry!Requests /\ reqs' = [p \in DOMAIN reqs' |-> reqs'[p]]
      BY <1>3
    <3> QED BY <3>1, <3>2
  <2> QED BY <1>1, <2>1 DEF RegTypes
<1>7. /\ q \notin RegLive(reqs) /\ \A p \in RegLive(reqs) : p \in RegLive(reqs') /\ p # q /\ p \in Registry!Requests
      /\ \A p \in RegLive(reqs') : p = q \/ p \in RegLive(reqs)
      /\ q \in RegLive(reqs') <=> pc # "done"
  BY <1>1, <1>3, <1>4, <1>5 DEF RegLive
<1>8. \A p \in RegLive(reqs') : RegShape(reqs'[p], user'.account)
  <2>1. pc # "done" => RegShape(mine, user.account)
    <3>1. pc # "done" => DOMAIN mine.todo = {}
      BY <1>4
    <3> QED BY <1>4, <3>1 DEF RegShape, RegWorking
  <2>2. ASSUME NEW p \in RegLive(reqs) PROVE RegShape(reqs'[p], user.account)
    <3>1. RegShape(reqs[p], user.account)
      BY DEF RegInv, RegOwn
    <3> QED BY <1>5, <1>7, <3>1 DEF RegShape
  <2> QED BY <1>3, <1>7, <2>1, <2>2
<1>9. \A p, s \in RegLive(reqs') : p # s /\ reqs'[p].rows \cap reqs'[s].rows # {} => ~reqs'[p].alone
  <2> SUFFICES ASSUME NEW p \in RegLive(reqs'), NEW s \in RegLive(reqs'), p # s, reqs'[p].rows \cap reqs'[s].rows # {}
               PROVE  ~reqs'[p].alone
    OBVIOUS
  <2>1. CASE p = q
    <3>1. s \in RegLive(reqs) /\ s # q /\ s \in Registry!Requests
      BY <1>7, <2>1
    <3>2. pc # "done" /\ reqs'[p] = mine /\ reqs'[p].rows = rs
      BY <1>3, <1>4, <1>7, <2>1
    <3>3. reqs[s].rows \cap rs # {}
      BY <1>5, <3>1, <3>2
    <3>4. s \in Met
      BY <1>2, <3>1, <3>3
    <3> QED BY <1>4, <3>2, <3>4
  <2>2. CASE p # q /\ s = q
    <3>1. p \in RegLive(reqs) /\ p \in Registry!Requests
      BY <1>7, <2>2
    <3>2. pc # "done" /\ reqs'[s].rows = rs
      BY <1>3, <1>4, <1>7, <2>2
    <3>3. p \in Met
      BY <1>2, <1>5, <2>2, <3>1, <3>2
    <3> QED BY <1>5, <2>2, <3>1, <3>3
  <2>3. CASE p # q /\ s # q
    <3>1. p \in RegLive(reqs) /\ s \in RegLive(reqs) /\ p \in Registry!Requests /\ s \in Registry!Requests
      BY <1>7, <2>3
    <3>2. reqs'[p].rows = reqs[p].rows /\ reqs'[s].rows = reqs[s].rows /\ (reqs'[p].alone => reqs[p].alone)
      BY <1>5, <2>3, <3>1
    <3>3. ~reqs[p].alone
      BY <3>1, <3>2 DEF RegInv, RegOwn
    <3> QED BY <3>2, <3>3
  <2> QED BY <2>1, <2>2, <2>3
<1>10. ASSUME NEW p \in RegLive(reqs') PROVE RegCalm(reqs'[p], table', zone', jobs', past'.unsynced)
  <2>1. CASE p = q
    <3>1. pc # "done" /\ reqs'[p] = mine
      BY <1>3, <1>7, <2>1
    <3>2. RegTrue(mine, table', zone')
      BY <1>4, <3>1 DEF RegTrue, RegWorking
    <3>3. mine.alone => RegDone(mine, table', zone', jobs', past'.unsynced)
      <4> SUFFICES ASSUME Met = {}, pc = "read", NEW r \in rs
                   PROVE  r \in past.unsynced \/ table'[r].on \/ jobs[r] = Registry!NoJob
        BY <1>4, <3>1 DEF RegDone, RegWorking
      <4>1. ~\E s \in RegLive(reqs) : r \in reqs[s].rows
        BY <1>2
      <4>2. r \in past.unsynced \/ jobs[r] = RegAsk(table[r], zone)
        BY <4>1 DEF RegInv, RegFollow
      <4> QED BY <4>2 DEF RegAsk
    <3> QED BY <3>1, <3>2, <3>3 DEF RegCalm
  <2>2. CASE p # q /\ ~reqs'[p].alone
    BY <2>2 DEF RegCalm
  <2>3. CASE p # q /\ reqs'[p].alone
    <3>1. p \in RegLive(reqs) /\ reqs'[p] = reqs[p] /\ p \notin Met /\ reqs[p] \in RegReq
      BY <1>1, <1>5, <1>7, <2>3
    <3>2. reqs[p].rows \cap rs = {} /\ reqs[p].rows \subseteq Registry!Rows
      BY <1>2, <3>1 DEF RegReq
    <3>3. RegShape(reqs[p], user.account) /\ RegCalm(reqs[p], table, zone, jobs, past.unsynced)
      BY <3>1 DEF RegInv, RegOwn
    <3>4. zone' = zone \/ reqs[p].rows \cap Registry!JobRows = {}
      BY <3>2, <3>3 DEF RegShape
    <3>5. \A r \in reqs[p].rows : /\ table'[r] = table[r] /\ (r \in past'.unsynced <=> r \in past.unsynced)
                                  /\ (r \in Registry!JobRows => jobs'[r] = jobs[r])
      BY <3>2
    <3>6. RegCalm(reqs[p], table', zone', jobs', past'.unsynced)
      BY <3>1, <3>3, <3>4, <3>5, RegCalmStays
    <3> QED BY <3>1, <3>6
  <2> QED BY <2>1, <2>2, <2>3
<1>11. RegOwn'
  BY <1>8, <1>9, <1>10 DEF RegOwn
<1>12. RegFollow'
  <2> SUFFICES ASSUME NEW r \in Registry!JobRows
               PROVE  r \in past'.unsynced \/ jobs'[r] = RegAsk(table'[r], zone') \/ \E p \in RegLive(reqs') : r \in reqs'[p].rows
    BY DEF RegFollow
  <2>0. r \in Registry!Rows
    BY DEF Registry!Rows
  <2>1. CASE r \in rs
    <3>1. q \in RegLive(reqs') /\ reqs'[q].rows = rs
      BY <1>3, <1>4, <1>7, <2>1
    <3> QED BY <2>1, <3>1
  <2>2. CASE r \notin rs
    <3>1. r \in past.unsynced \/ jobs[r] = RegAsk(table[r], zone) \/ \E p \in RegLive(reqs) : r \in reqs[p].rows
      BY DEF RegInv, RegFollow
    <3>2. table'[r] = table[r] /\ RegAsk(table'[r], zone') = RegAsk(table[r], zone)
      <4>1. CASE zone' = zone
        BY <2>0, <2>2, <4>1
      <4>2. CASE zone' # zone
        <5>1. table'[r] = Registry!NoRow /\ table'[r] = table[r]
          BY <2>0, <2>2, <4>2
        <5>2. Registry!NoRow.on = FALSE
          BY DEF Registry!NoRow, Registry!Row
        <5> QED BY <5>1, <5>2 DEF RegAsk
      <4> QED BY <4>1, <4>2
    <3>3. \A p \in RegLive(reqs) : p \in RegLive(reqs') /\ reqs'[p].rows = reqs[p].rows
      BY <1>5, <1>7
    <3> QED BY <3>1, <3>2, <3>3
  <2> QED BY <2>1, <2>2
<1>13. \A S : RegInserts(S, reqs') = IF pc = "insert" /\ rs \subseteq S THEN RegInserts(S, reqs) \cup {q}
                                     ELSE RegInserts(S, reqs)
  <2>1. \A p \in Registry!Requests : p # q => reqs'[p].pc = reqs[p].pc /\ reqs'[p].rows = reqs[p].rows
    BY <1>5
  <2>2. reqs'[q].pc = pc /\ (pc = "insert" => reqs'[q].rows = rs) /\ reqs[q].pc = "none"
    BY <1>1, <1>3, <1>4
  <2> QED BY <2>1, <2>2 DEF RegInserts
<1> QED BY <1>6, <1>11, <1>12, <1>13

\* One limit covers the row.
LEMMA RegKin ==
    ASSUME NEW r \in Registry!Capped
    PROVE  /\ Registry!Kin(r) \in {Schedules, Recipients} /\ r \in Registry!Kin(r)
           /\ \A S \in {Schedules, Recipients} : r \in S => S = Registry!Kin(r)
<1>1. Schedules \cap (Presets \cup Recipients) = {}
  BY RegFacts
<1> QED BY <1>1 DEF Registry!Kin, Registry!Capped

LEMMA RegCount ==
    ASSUME RegInv, NEW q \in Registry!Requests, NEW r \in Registry!Rows, NEW row \in RegRow, Registry!Count(q, r, row)
    PROVE  RegInv'
<1> DEFINE pc == "insert"
           rs == {r}
<1>1. /\ r \in Registry!Capped /\ r \in user.account /\ Registry!HasRoom(r) /\ Registry!Arrive(q, pc, rs, row)
      /\ table' = table /\ zone' = zone /\ jobs' = jobs /\ user' = user
      /\ past' = [past EXCEPT !.created = @ \cup ({r} \cap Registry!JobRows),
                              !.crowded = @ \/ \E p \in Registry!Live : reqs[p].pc = "insert" /\ reqs[p].rows \subseteq Registry!Kin(r)]
  BY DEF Registry!Count
<1>2. past \in [created : SUBSET Registry!JobRows, unsynced : SUBSET Registry!Rows, crowded : BOOLEAN]
  BY DEF RegInv, RegTypes
<1>3. /\ past' \in [created : SUBSET Registry!JobRows, unsynced : SUBSET Registry!Rows, crowded : BOOLEAN]
      /\ past'.unsynced = past.unsynced
      /\ ~past'.crowded => ~past.crowded /\ ~\E p \in Registry!Live : reqs[p].pc = "insert" /\ reqs[p].rows \subseteq Registry!Kin(r)
  <2> DEFINE crowds == \E p \in Registry!Live : reqs[p].pc = "insert" /\ reqs[p].rows \subseteq Registry!Kin(r)
  <2>1. crowds \in BOOLEAN
    OBVIOUS
  <2>2. past' = [past EXCEPT !.created = @ \cup ({r} \cap Registry!JobRows), !.crowded = @ \/ crowds]
    BY <1>1
  <2> HIDE DEF crowds
  <2>3. /\ past' \in [created : SUBSET Registry!JobRows, unsynced : SUBSET Registry!Rows, crowded : BOOLEAN]
        /\ past'.unsynced = past.unsynced /\ (~past'.crowded => ~past.crowded /\ ~crowds)
    BY <1>2, <2>1, <2>2
  <2> QED BY <2>3 DEF crowds
<1>4. RegData' /\ \A s \in Registry!Rows : table'[s] # Registry!NoRow => s \in user.account
  BY <1>1 DEF RegInv, RegTypes, RegData, RegOwn
<1>5. rs \in SUBSET Registry!Rows /\ rs \subseteq user.account /\ \E s \in Registry!Capped : rs = {s}
  BY <1>1
<1>6. pc = "insert" /\ pc \in {"done", "insert", "refresh", "forget", "read"}
  OBVIOUS
<1>7. /\ RegTypes' /\ RegOwn' /\ RegFollow'
      /\ \A S : RegInserts(S, reqs') = IF pc = "insert" /\ rs \subseteq S THEN RegInserts(S, reqs) \cup {q}
                                       ELSE RegInserts(S, reqs)
  <2>1. \A s \in Registry!Rows : s \notin rs => table'[s] = table[s]
    BY <1>1
  <2>2. pc # "done" /\ pc # "refresh" /\ pc # "forget" /\ pc # "read" /\ row \in RegRow \cup {Registry!NoRow}
    OBVIOUS
  <2> HIDE DEF pc, rs
  <2> QED BY <1>1, <1>3, <1>4, <1>5, <1>6, <2>1, <2>2, RegArrives
<1>8. RegRoom'
  <2> SUFFICES ASSUME ~past'.crowded, NEW S \in {Schedules, Recipients}
               PROVE  /\ Cardinality(RegBound(S, table)) <= Cap
                      /\ RegInserts(S, reqs') # {} => Cardinality(RegBound(S, table)) < Cap
                      /\ \A p, s \in RegInserts(S, reqs') : p = s
    BY <1>1 DEF RegRoom
  <2>1. /\ Cardinality(RegBound(S, table)) <= Cap
        /\ RegInserts(S, reqs) # {} => Cardinality(RegBound(S, table)) < Cap
        /\ \A p, s \in RegInserts(S, reqs) : p = s
    BY <1>3 DEF RegInv, RegRoom
  <2>2. CASE r \notin S
    BY <1>7, <2>1, <2>2
  <2>3. CASE r \in S
    <3>1. S = Registry!Kin(r)
      BY <1>1, <2>3, RegKin
    <3>2. RegInserts(S, reqs) = {}
      <4>1. \A p \in RegInserts(S, reqs) : p \in Registry!Live /\ reqs[p].pc = "insert" /\ reqs[p].rows \subseteq S
        BY DEF RegInserts, Registry!Live
      <4> QED BY <1>3, <3>1, <4>1
    <3>3. Registry!Cardinality(RegBound(S, table)) < Cap
      BY <1>1, <3>1 DEF Registry!HasRoom, Registry!Exists, RegBound
    <3>4. Registry!Cardinality(RegBound(S, table)) = Cardinality(RegBound(S, table))
      BY DEF Registry!Cardinality, Cardinality
    <3>5. RegInserts(S, reqs') = {q}
      BY <1>7, <2>3, <3>2
    <3> QED BY <2>1, <3>3, <3>4, <3>5
  <2> QED BY <2>2, <2>3
<1> QED BY <1>7, <1>8 DEF RegInv

\* A request that arrives for one row of no limit, or one that is there already.
LEMMA RegWrites ==
    ASSUME RegInv, NEW q \in Registry!Requests, NEW r \in Registry!Rows, NEW pc \in {"done", "refresh", "forget"},
           NEW row \in RegRow \cup {Registry!NoRow}, NEW new \in RegRow \cup {Registry!NoRow},
           Registry!Arrive(q, pc, {r}, new), table' = [table EXCEPT ![r] = row],
           jobs' = jobs, zone' = zone, user' = user,
           past'.unsynced = past.unsynced, past'.crowded = past.crowded,
           past' \in [created : SUBSET Registry!JobRows, unsynced : SUBSET Registry!Rows, crowded : BOOLEAN],
           r \in user.account,
           r \in Registry!Capped => row = Registry!NoRow \/ table[r] # Registry!NoRow,
           pc = "done" => r \notin Registry!JobRows,
           pc = "refresh" => r \in Registry!JobRows,
           pc = "forget" => row = Registry!NoRow
    PROVE  RegInv'
<1> DEFINE rs == {r}
<1>1. rs \in SUBSET Registry!Rows /\ rs \subseteq user.account /\ r \in rs /\ \A s : s \in rs => s = r
  OBVIOUS
<1>2. /\ RegData' /\ table'[r] = row
      /\ \A s \in Registry!Rows : s # r => table'[s] = table[s]
      /\ \A s \in Registry!Rows : table'[s] # Registry!NoRow => s \in user.account
  BY DEF RegInv, RegTypes, RegData, RegOwn
<1>3. /\ RegTypes' /\ RegOwn' /\ RegFollow'
      /\ \A S : RegInserts(S, reqs') = IF pc = "insert" /\ rs \subseteq S THEN RegInserts(S, reqs) \cup {q}
                                       ELSE RegInserts(S, reqs)
  <2>1. /\ Registry!Arrive(q, pc, rs, new) /\ (pc = "refresh" => \E s \in Registry!JobRows : rs = {s})
        /\ (pc = "done" => rs \cap Registry!JobRows = {})
        /\ pc \in {"done", "insert", "refresh", "forget", "read"} /\ pc # "insert" /\ pc # "read"
    OBVIOUS
  <2>2. pc = "forget" => \A s \in rs : table'[s] = Registry!NoRow
    BY <1>1, <1>2
  <2>3. \A s \in Registry!Rows : s \notin rs => table'[s] = table[s]
    BY <1>1, <1>2
  <2> HIDE DEF rs
  <2> QED BY <1>1, <1>2, <2>1, <2>2, <2>3, RegArrives
<1>4. \A S \in {Schedules, Recipients} : RegBound(S, table') \subseteq RegBound(S, table)
  <2> SUFFICES ASSUME NEW S \in {Schedules, Recipients}, NEW s \in S, table'[s] # Registry!NoRow
               PROVE  table[s] # Registry!NoRow
    BY DEF RegBound
  <2>1. s \in Registry!Rows /\ s \in Registry!Capped
    BY DEF Registry!Rows, Registry!JobRows, Registry!Capped
  <2> QED BY <1>2, <2>1
<1>5. RegRoom'
  BY <1>3, <1>4, RegRoomStays
<1> QED BY <1>3, <1>5 DEF RegInv

LEMMA RegCreate ==
    ASSUME RegInv, NEW q \in Registry!Requests, NEW r \in Registry!Rows, NEW row \in RegRow, Registry!Create(q, r, row)
    PROVE  RegInv'
<1> DEFINE pc == "refresh"
<1>1. /\ r \in Registry!JobRows /\ r \notin Registry!Capped /\ r \in user.account /\ Registry!Arrive(q, pc, {r}, row)
      /\ table' = [table EXCEPT ![r] = row] /\ past' = [past EXCEPT !.created = @ \cup {r}]
      /\ zone' = zone /\ jobs' = jobs /\ user' = user
  BY DEF Registry!Create
<1>2. past \in [created : SUBSET Registry!JobRows, unsynced : SUBSET Registry!Rows, crowded : BOOLEAN]
  BY DEF RegInv, RegTypes
<1>3. /\ past' \in [created : SUBSET Registry!JobRows, unsynced : SUBSET Registry!Rows, crowded : BOOLEAN]
      /\ past'.unsynced = past.unsynced /\ past'.crowded = past.crowded
  BY <1>1, <1>2
<1>4. pc \in {"done", "refresh", "forget"} /\ pc = "refresh"
  OBVIOUS
<1> HIDE DEF pc
<1> QED BY <1>1, <1>3, <1>4, RegWrites

LEMMA RegUpdate ==
    ASSUME RegInv, NEW q \in Registry!Requests, NEW r \in Registry!Rows, NEW row \in RegRow, Registry!Update(q, r, row)
    PROVE  RegInv'
<1> DEFINE pc == IF r \in Registry!JobRows THEN "refresh" ELSE "done"
<1>1. /\ table[r] # Registry!NoRow /\ Registry!Arrive(q, pc, {r}, row)
      /\ table' = [table EXCEPT ![r] = row] /\ past' = past
      /\ zone' = zone /\ jobs' = jobs /\ user' = user
  BY DEF Registry!Update, Registry!Exists
<1>2. past \in [created : SUBSET Registry!JobRows, unsynced : SUBSET Registry!Rows, crowded : BOOLEAN]
  BY DEF RegInv, RegTypes
<1>3. r \in user.account
  BY <1>1 DEF RegInv, RegOwn
<1>4. /\ pc \in {"done", "refresh", "forget"} /\ pc # "forget"
      /\ (pc = "done" => r \notin Registry!JobRows) /\ (pc = "refresh" => r \in Registry!JobRows)
  OBVIOUS
<1> HIDE DEF pc
<1> QED BY <1>1, <1>2, <1>3, <1>4, RegWrites

LEMMA RegDelete ==
    ASSUME RegInv, NEW q \in Registry!Requests, NEW r \in Registry!Rows, Registry!Delete(q, r)
    PROVE  RegInv'
<1> DEFINE pc == IF r \in Registry!JobRows THEN "forget" ELSE "done"
           gone == Registry!NoRow
<1>1. /\ table[r] # Registry!NoRow /\ Registry!Arrive(q, pc, {r}, gone)
      /\ table' = [table EXCEPT ![r] = gone] /\ past' = past
      /\ zone' = zone /\ jobs' = jobs /\ user' = user
  BY DEF Registry!Delete, Registry!Exists
<1>2. past \in [created : SUBSET Registry!JobRows, unsynced : SUBSET Registry!Rows, crowded : BOOLEAN]
  BY DEF RegInv, RegTypes
<1>3. r \in user.account
  BY <1>1 DEF RegInv, RegOwn
<1>4. /\ pc \in {"done", "refresh", "forget"} /\ pc # "refresh"
      /\ (pc = "done" => r \notin Registry!JobRows)
  OBVIOUS
<1>5. gone = Registry!NoRow /\ gone \in RegRow \cup {Registry!NoRow}
  OBVIOUS
<1> HIDE DEF pc, gone
<1> QED BY <1>1, <1>2, <1>3, <1>4, <1>5, RegWrites

LEMMA RegChangeZone ==
    ASSUME RegInv, NEW q \in Registry!Requests, NEW z \in Zones, Registry!ChangeZone(q, z)
    PROVE  RegInv'
<1> DEFINE pc == "read"
           rs == Registry!JobRows \cap user.account
           new == Registry!NoRow
<1>1. /\ Registry!Arrive(q, pc, rs, new) /\ zone' = z
      /\ table' = table /\ jobs' = jobs /\ user' = user /\ past' = past
  BY DEF Registry!ChangeZone
<1>2. past \in [created : SUBSET Registry!JobRows, unsynced : SUBSET Registry!Rows, crowded : BOOLEAN]
  BY DEF RegInv, RegTypes
<1>3. RegData' /\ \A s \in Registry!Rows : table'[s] # Registry!NoRow => s \in user.account
  BY <1>1 DEF RegInv, RegTypes, RegData, RegOwn
<1>4. /\ pc \in {"done", "insert", "refresh", "forget", "read"} /\ pc = "read"
      /\ rs = Registry!JobRows \cap user.account /\ rs \in SUBSET Registry!Rows
      /\ new \in RegRow \cup {Registry!NoRow}
  BY DEF Registry!Rows
<1>5. /\ RegTypes' /\ RegOwn' /\ RegFollow'
      /\ \A S : RegInserts(S, reqs') = IF pc = "insert" /\ rs \subseteq S THEN RegInserts(S, reqs) \cup {q}
                                       ELSE RegInserts(S, reqs)
  <2>1. \A s \in Registry!Rows : s \notin rs => table'[s] = table[s]
    BY <1>1
  <2>2. rs \subseteq user.account /\ Registry!JobRows \cap user.account \subseteq rs
    BY <1>4
  <2> HIDE DEF pc, rs, new
  <2> QED BY <1>1, <1>2, <1>3, <1>4, <2>1, <2>2, RegArrives
<1>6. \A S \in {Schedules, Recipients} : RegBound(S, table') \subseteq RegBound(S, table)
  BY <1>1
<1>7. RegRoom'
  BY <1>1, <1>5, <1>6, RegRoomStays
<1> QED BY <1>5, <1>7 DEF RegInv

\* After a restart no request is left, and every job but the lost one is the one wanted.
LEMMA RegRestart ==
    ASSUME RegInv, Registry!Restart
    PROVE  RegInv'
<1>1. PICK lost \in SUBSET Registry!JobRows :
         /\ jobs' = [r \in Registry!JobRows |-> IF r \in lost THEN Registry!NoJob ELSE Registry!Wanted(r)]
         /\ past' = [past EXCEPT !.unsynced = lost]
  BY DEF Registry!Restart
<1>2. /\ user.trouble < MaxTrouble /\ user' = [user EXCEPT !.trouble = @ + 1]
      /\ reqs' = [q \in Registry!Requests |-> IF q \in Registry!Live THEN Registry!Answered ELSE reqs[q]]
      /\ table' = table /\ zone' = zone
  BY DEF Registry!Restart
<1>3. RegTypes
  BY DEF RegInv
<1>4. user' \in [account : Accounts, trouble : 0..MaxTrouble] /\ user'.account = user.account
  <2>1. user \in [account : Accounts, trouble : 0..MaxTrouble]
    BY <1>3 DEF RegTypes
  <2>2. MaxTrouble \in Nat
    BY RegFacts
  <2> QED BY <1>2, <2>1, <2>2
<1>5. Registry!Answered \in RegReq /\ Registry!Answered.pc = "done"
  <2>1. <<>> \in RegTodo
    BY DEF RegTodo
  <2> QED BY <2>1 DEF Registry!Answered, Registry!NoRequest, RegReq
<1>6. reqs' \in [Registry!Requests -> RegReq]
  BY <1>2, <1>3, <1>5 DEF RegTypes
<1>7. past' \in [created : SUBSET Registry!JobRows, unsynced : SUBSET Registry!Rows, crowded : BOOLEAN]
      /\ past'.unsynced = lost /\ past'.crowded = past.crowded
  <2>1. past \in [created : SUBSET Registry!JobRows, unsynced : SUBSET Registry!Rows, crowded : BOOLEAN]
    BY <1>3 DEF RegTypes
  <2>2. lost \subseteq Registry!Rows
    BY DEF Registry!Rows
  <2> QED BY <1>1, <2>1, <2>2
<1>8. \A r \in Registry!JobRows : /\ RegAsk(table[r], zone) \in RegJob \cup {Registry!NoJob}
                                  /\ jobs'[r] = IF r \in lost THEN Registry!NoJob ELSE RegAsk(table[r], zone)
  <2> SUFFICES ASSUME NEW r \in Registry!JobRows
               PROVE  /\ RegAsk(table[r], zone) \in RegJob \cup {Registry!NoJob}
                      /\ jobs'[r] = IF r \in lost THEN Registry!NoJob ELSE RegAsk(table[r], zone)
    OBVIOUS
  <2>1. table[r] \in RegRow \cup {Registry!NoRow} /\ zone \in Zones
    BY <1>3 DEF RegTypes, RegData, Registry!Rows
  <2>2. Registry!NoRow.on = FALSE
    BY DEF Registry!NoRow, Registry!Row
  <2>3. Registry!Wanted(r) = RegAsk(table[r], zone)
    BY <1>3, RegWanted
  <2>4. RegAsk(table[r], zone) \in RegJob \cup {Registry!NoJob}
    BY <2>1, <2>2 DEF RegAsk, RegRow, RegJob
  <2> QED BY <1>1, <2>3, <2>4
<1>9. jobs' \in [Registry!JobRows -> RegJob \cup {Registry!NoJob}]
  <2>1. DOMAIN jobs' = Registry!JobRows /\ jobs' = [r \in DOMAIN jobs' |-> jobs'[r]]
    BY <1>1
  <2>2. \A r \in Registry!JobRows : jobs'[r] \in RegJob \cup {Registry!NoJob}
    BY <1>8
  <2> QED BY <2>1, <2>2
<1>10. RegLive(reqs') = {} /\ \A S : RegInserts(S, reqs') = {}
  <2>1. \A q \in Registry!Requests : reqs'[q].pc \in {"none", "done"}
    BY <1>2, <1>5 DEF Registry!Live
  <2> QED BY <2>1 DEF RegLive, RegInserts
<1>11. RegTypes'
  BY <1>2, <1>3, <1>4, <1>6, <1>7, <1>9 DEF RegTypes, RegData
<1>12. RegOwn'
  BY <1>2, <1>4, <1>10 DEF RegOwn, RegInv
<1>13. RegFollow'
  BY <1>2, <1>7, <1>8 DEF RegFollow
<1>14. RegRoom'
  <2>1. \A S \in {Schedules, Recipients} : RegBound(S, table') \subseteq RegBound(S, table)
    BY <1>2
  <2> QED BY <1>7, <1>10, <2>1, RegRoomStays
<1> QED BY <1>11, <1>12, <1>13, <1>14 DEF RegInv

\* No step of the registry disturbs the invariant.
LEMMA RegStep == RegInv /\ [Registry!Next]_Registry!vars => RegInv'
<1> SUFFICES ASSUME RegInv, [Registry!Next]_Registry!vars PROVE RegInv'
  OBVIOUS
<1>1. CASE Registry!Restart
  BY <1>1, RegRestart
<1>2. ASSUME NEW q \in Registry!Requests, Registry!Request(q) PROVE RegInv'
  <2>1. ASSUME NEW r \in Registry!Rows, NEW cron \in Crons, NEW on \in BOOLEAN,
               \/ Registry!Count(q, r, Registry!Row(cron, on))
               \/ Registry!Create(q, r, Registry!Row(cron, on))
               \/ Registry!Update(q, r, Registry!Row(cron, on))
        PROVE  RegInv'
    <3> DEFINE row == Registry!Row(cron, on)
    <3>1. row \in RegRow
      BY DEF Registry!Row, RegRow
    <3>2. Registry!Count(q, r, row) \/ Registry!Create(q, r, row) \/ Registry!Update(q, r, row)
      BY <2>1
    <3> HIDE DEF row
    <3> QED BY <3>1, <3>2, RegCount, RegCreate, RegUpdate
  <2> QED BY <1>2, <2>1, RegDelete, RegChangeZone DEF Registry!Request
<1>3. ASSUME NEW q \in Registry!Requests, Registry!Step(q) PROVE RegInv'
  BY <1>3, RegInsert, RegRefresh, RegReadRows, RegBegin, RegUserTz, RegAddJob, RegForget DEF Registry!Step
<1>4. CASE UNCHANGED Registry!vars
  <2>1. table' = table /\ zone' = zone /\ jobs' = jobs /\ reqs' = reqs /\ user' = user /\ past' = past
    BY <1>4 DEF Registry!vars
  <2> QED BY <2>1 DEF RegInv, RegTypes, RegData, RegOwn, RegFollow, RegRoom
<1> QED BY <1>1, <1>2, <1>3, <1>4 DEF Registry!Next

\* What the invariant says of the rows and jobs.
LEMMA RegHolds ==
    ASSUME RegInv
    PROVE  RegistryIsTrue
<1>1. Registry!TypeOK
  <2>1. \A q \in Registry!Requests : reqs[q].pc \in {"task", "remove", "zone", "add"} =>
           /\ Registry!Current(q).row \in reqs[q].rows \cap Registry!JobRows
           /\ Registry!Current(q).as # Registry!NoRow
    <3> SUFFICES ASSUME NEW q \in Registry!Requests, reqs[q].pc \in RegWorking
                 PROVE  /\ Registry!Current(q).row \in reqs[q].rows \cap Registry!JobRows
                        /\ Registry!Current(q).as # Registry!NoRow
      BY DEF RegWorking
    <3>1. \A row \in RegRow : row # Registry!NoRow
      BY RegFacts
    <3> QED BY <3>1, RegCurrent
  <2> QED BY <2>1 DEF RegInv, RegTypes, RegData, RegRow, RegJob, Registry!TypeOK
<1>2. Registry!JobsFollowRows
  <2>1. \A r \in Registry!JobRows : Registry!Wanted(r) = RegAsk(table[r], zone)
    BY RegWanted DEF RegInv
  <2>2. Registry!Live = RegLive(reqs)
    BY DEF Registry!Live, RegLive
  <2> QED BY <2>1, <2>2 DEF RegInv, RegFollow, Registry!JobsFollowRows
<1>3. Registry!CapHolds
  <2>1. \A S : Registry!Cardinality(S) = Cardinality(S)
    BY DEF Registry!Cardinality, Cardinality
  <2>2. \A S : {r \in S : Registry!Exists(r)} = RegBound(S, table)
    BY DEF Registry!Exists, RegBound
  <2>3. \A S \in {Schedules, Recipients} : past.crowded \/ Cardinality(RegBound(S, table)) <= Cap
    BY DEF RegInv, RegRoom
  <2> QED BY <2>1, <2>2, <2>3 DEF Registry!CapHolds
<1> QED BY <1>1, <1>2, <1>3 DEF RegistryIsTrue

\* Whatever rows a user may have, and however the requests interleave, fail and are cut off by
\* restarts: a row that nobody works on has the job it asks for in the user's zone, unless its
\* last operations overlapped or failed, and the limit of schedules and recipients holds unless
\* two were added at once (scheduler_service.py; the routes that call it).
THEOREM JobsStayTrue == Registry!Spec => []RegistryIsTrue
<1>1. Registry!Init => RegInv
  BY RegInit
<1>2. RegInv /\ [Registry!Next]_Registry!vars => RegInv'
  BY RegStep
<1>3. RegInv => RegistryIsTrue
  BY RegHolds
<1> QED BY <1>1, <1>2, <1>3, PTL DEF Registry!Spec

-----------------------------------------------------------------------------
\* The server's runs, the panel and what it is waiting for.
PanRun == [config : Selections, status : Panel!Statuses]
PanRuns(all) == all \in Seq(PanRun) /\ Len(all) <= MaxScans
PanRecord ==
    [mount : 1..MaxMounts, on : BOOLEAN, selected : Selections \cup {NoConfig}, runId : Panel!Ids, run : Panel!Ids,
     status : Panel!Statuses, progress : Panel!Ids, partial : BOOLEAN, entries : Panel!Ids, error : BOOLEAN,
     moves : 0..MaxMoves]
PanAttach == [pc : Panel!Pending \cup {"off", "failed"}, run : Panel!Ids, status : Panel!Statuses]

PanTypes ==
    /\ PanRuns(runs) /\ alive \subseteq Selections /\ panel \in PanRecord
    /\ attach \in PanAttach /\ left \in BOOLEAN

\* What is open for an instance of the panel is of the selection, if this instance is mounted and
\* was not turned away from what it waits for; a click is answered with a run of its configuration.
\* A stream hears nothing only if its run is over.
PanOf(mount, config, p, gone) ==
    /\ mount \in 1..MaxMounts /\ mount <= p.mount
    /\ p.on /\ ~gone /\ mount = p.mount => config = p.selected
PanStream(s, all, p, gone) ==
    /\ s \in [mount : 1..MaxMounts, run : DOMAIN all, live : BOOLEAN]
    /\ PanOf(s.mount, all[s.run].config, p, gone)
    /\ s.live \/ all[s.run].status \notin Panel!UnderWay
PanFetch(f, all, p, gone) ==
    /\ f \in [mount : 1..MaxMounts, run : DOMAIN all]
    /\ PanOf(f.mount, all[f.run].config, p, gone)
PanClick(k, all, p, gone) ==
    /\ k \in [mount : 1..MaxMounts, config : Selections, run : {0} \cup DOMAIN all]
    /\ PanOf(k.mount, k.config, p, gone)
    /\ k.run # 0 => all[k.run].config = k.config
PanWork ==
    /\ \A s \in streams : PanStream(s, runs, panel, left)
    /\ \A f \in fetches : PanFetch(f, runs, panel, left)
    /\ \A k \in clicks : PanClick(k, runs, panel, left)
    /\ Panel!OneStream

\* The run that the selection's request has read is one of its own, if there is one.
PanAsk(asked, all, p) ==
    asked.pc \in {"read", "detail"} =>
        IF asked.run = 0 THEN asked.pc = "read" /\ asked.status = "ERROR"
        ELSE asked.run \in DOMAIN all /\ all[asked.run].config = p.selected

\* What is on show.
PanView(p, all) ==
    /\ \A r \in {p.runId, p.run, p.progress, p.entries} : r = 0 \/ r \in DOMAIN all
    /\ p.entries # 0 => p.run = p.entries
    /\ ~p.on => p.runId = 0 /\ p.run = 0 /\ p.progress = 0 /\ p.entries = 0
PanShow(p, all, asked, gone) ==
    p.on /\ asked.pc = "off" /\ ~gone =>
        \A r \in {p.runId, p.run, p.progress, p.entries} : r = 0 \/ all[r].config = p.selected
PanFollowed == Panel!IsRunning => Panel!Busy \/ panel.error

PanInv ==
    /\ PanTypes /\ PanWork /\ PanAsk(attach, runs, panel) /\ (~panel.on => attach.pc = "off")
    /\ PanView(panel, runs) /\ PanShow(panel, runs, attach, left) /\ PanFollowed

-----------------------------------------------------------------------------
LEMMA PanFacts ==
    /\ NoConfig \notin Selections
    /\ MaxScans \in Nat /\ MaxMounts \in Nat /\ MaxMoves \in Nat /\ MaxMounts > 0 /\ MaxMoves > 0
<1>1. Panel!PanelAssumption
  BY UserRequestsAssumption
<1> QED BY <1>1 DEF Panel!PanelAssumption

\* The numbers of the runs.
LEMMA PanNumbers ==
    ASSUME NEW all, PanRuns(all)
    PROVE  /\ Len(all) \in Nat /\ DOMAIN all = 1..Len(all) /\ 0 \notin DOMAIN all
           /\ DOMAIN all \subseteq Panel!Ids /\ 0 \in Panel!Ids
           /\ \A r \in DOMAIN all : all[r] \in PanRun /\ all[r].config \in Selections /\ all[r].status \in Panel!Statuses
<1>1. Len(all) \in Nat /\ DOMAIN all = 1..Len(all) /\ Len(all) <= MaxScans /\ all \in Seq(PanRun)
  BY DEF PanRuns
<1>2. \A r \in DOMAIN all : all[r] \in PanRun
  BY <1>1
<1>3. MaxScans \in Nat
  BY PanFacts
<1> QED BY <1>1, <1>2, <1>3 DEF Panel!Ids, PanRun

\* The empty view of a panel.
LEMMA PanCleared ==
    ASSUME NEW p \in PanRecord
    PROVE  /\ Panel!Cleared(p) \in PanRecord
           /\ Panel!Cleared(p).mount = p.mount /\ Panel!Cleared(p).on = p.on /\ Panel!Cleared(p).selected = p.selected
           /\ Panel!Cleared(p).runId = 0 /\ Panel!Cleared(p).run = 0 /\ Panel!Cleared(p).progress = 0
           /\ Panel!Cleared(p).entries = 0 /\ Panel!Cleared(p).moves = p.moves
<1>1. 0 \in Panel!Ids
  <2>1. MaxScans \in Nat
    BY PanFacts
  <2> QED BY <2>1 DEF Panel!Ids
<1> QED BY <1>1 DEF Panel!Cleared, PanRecord, Panel!Statuses

\* The greatest of some numbers.
LEMMA PanGreatest ==
    ASSUME NEW S, S \subseteq Nat, IsFiniteSet(S), S # {}
    PROVE  \E x \in S : \A y \in S : x >= y
<1> DEFINE Above(x) == {y \in S : y > x}
           All == {Above(x) : x \in S}
<1>1. IsWellFoundedOn(StrictSubsetOrdering(S), FiniteSubsetsOf(S))
  BY FS_StrictSubsetOrderingWellFounded
<1>2. All \subseteq FiniteSubsetsOf(S) /\ All # {}
  <2>1. \A T \in All : T \subseteq S
    OBVIOUS
  <2>2. All # {}
    OBVIOUS
  <2> HIDE DEF All
  <2> QED BY <2>1, <2>2, FS_Subset DEF FiniteSubsetsOf
<1>3. PICK T \in All : \A U \in All : <<U, T>> \notin StrictSubsetOrdering(S)
  <2> HIDE DEF All
  <2> QED BY <1>1, <1>2, WFMin
<1>4. PICK x \in S : T = Above(x)
  BY <1>3
<1>5. ASSUME NEW y \in S, y > x PROVE FALSE
  <2>1. Above(y) \in All /\ Above(y) \subseteq Above(x) /\ y \in Above(x) /\ y \notin Above(y)
    <3>1. x \in Nat /\ y \in Nat
      BY <1>4, <1>5
    <3>2. y \in Above(x) /\ y \notin Above(y)
      BY <1>5, <3>1
    <3>3. ASSUME NEW z \in Above(y) PROVE z \in Above(x)
      <4>1. z \in S /\ z \in Nat /\ z > y
        BY <3>3
      <4> QED BY <1>5, <3>1, <4>1
    <3>4. Above(y) \in All
      BY <1>5
    <3> HIDE DEF Above, All
    <3> QED BY <3>2, <3>3, <3>4
  <2>2. Above(x) \subseteq S /\ Above(y) \subseteq S
    OBVIOUS
  <2> HIDE DEF Above, All
  <2>3. <<Above(y), Above(x)>> \in StrictSubsetOrdering(S)
    BY <2>1, <2>2 DEF StrictSubsetOrdering
  <2> QED BY <1>3, <1>4, <2>1, <2>3
<1>6. \A y \in S : x >= y
  BY <1>4, <1>5
<1> QED BY <1>4, <1>6

\* The latest run of a configuration is one of its runs, if there is one.
LEMMA PanLatest ==
    ASSUME PanRuns(runs), NEW c
    PROVE  LET r == Panel!Latest(c) IN r = 0 \/ (r \in DOMAIN runs /\ runs[r].config = c)
<1> DEFINE S == {0} \cup Panel!RunsOf(c)
<1>1. S \subseteq 0..Len(runs) /\ Len(runs) \in Nat /\ S # {}
  BY PanNumbers DEF Panel!RunsOf
<1>2. IsFiniteSet(S) /\ S \subseteq Nat
  <2>1. IsFiniteSet(0..Len(runs))
    BY <1>1, FS_Interval
  <2> QED BY <1>1, <2>1, FS_Subset
<1>3. Panel!Latest(c) = CHOOSE x \in S : \A y \in Panel!RunsOf(c) : x >= y
  BY DEF Panel!Latest
<1>4. Panel!Latest(c) \in S
  <2>1. \E x \in S : \A y \in Panel!RunsOf(c) : x >= y
    <3>1. \E x \in S : \A y \in S : x >= y
      <4> HIDE DEF S
      <4> QED BY <1>1, <1>2, PanGreatest
    <3> QED BY <3>1
  <2> HIDE DEF S
  <2> QED BY <1>3, <2>1
<1> QED BY <1>4 DEF Panel!RunsOf

-----------------------------------------------------------------------------
\* The runs keep their configuration and their number, and stay over once they are.
PanGrows ==
    /\ PanRuns(runs')
    /\ \A r \in DOMAIN runs :
        /\ r \in DOMAIN runs' /\ runs'[r].config = runs[r].config
        /\ runs[r].status \in Panel!UnderWay \/ runs'[r].status \notin Panel!UnderWay

\* An instance that stays what it is, with its selection.
PanKeeps == panel'.mount = panel.mount /\ panel'.on = panel.on /\ panel'.selected = panel.selected

\* Work stays of the selection.
LEMMA PanWorkStays ==
    ASSUME PanInv, PanGrows, PanKeeps, left' = left
    PROVE  /\ \A s \in streams : PanStream(s, runs', panel', left')
           /\ \A f \in fetches : PanFetch(f, runs', panel', left')
           /\ \A k \in clicks : PanClick(k, runs', panel', left')
           /\ PanAsk(attach, runs', panel')
<1>1. /\ \A r \in DOMAIN runs :
          /\ r \in DOMAIN runs' /\ runs'[r].config = runs[r].config
          /\ runs[r].status \in Panel!UnderWay \/ runs'[r].status \notin Panel!UnderWay
      /\ \A mount, config : PanOf(mount, config, panel', left') = PanOf(mount, config, panel, left)
      /\ 0 \notin DOMAIN runs
  BY PanNumbers DEF PanInv, PanTypes, PanGrows, PanKeeps, PanOf
<1>2. \A s \in streams : PanStream(s, runs', panel', left')
  BY <1>1 DEF PanInv, PanWork, PanStream
<1>3. \A f \in fetches : PanFetch(f, runs', panel', left')
  BY <1>1 DEF PanInv, PanWork, PanFetch
<1>4. \A k \in clicks : PanClick(k, runs', panel', left')
  BY <1>1 DEF PanInv, PanWork, PanClick
<1>5. PanAsk(attach, runs', panel')
  BY <1>1 DEF PanInv, PanAsk, PanKeeps
<1> QED BY <1>2, <1>3, <1>4, <1>5

\* Runs that stay are runs that grow.
LEMMA PanSameRuns == ASSUME PanInv, runs' = runs PROVE PanGrows
BY DEF PanInv, PanTypes, PanGrows

\* A new run.
LEMMA PanNewRun ==
    ASSUME PanInv, NEW c \in Selections, Len(runs) < MaxScans, runs' = Panel!NewRun(c)
    PROVE  PanGrows /\ Len(runs) + 1 \in DOMAIN runs' /\ runs'[Len(runs) + 1].config = c
<1> DEFINE new == [config |-> c, status |-> "PENDING"]
<1>1. runs' = Append(runs, new) /\ new \in PanRun /\ new.config = c
  BY DEF Panel!NewRun, PanRun, Panel!Statuses
<1>2. runs \in Seq(PanRun) /\ Len(runs) \in Nat /\ DOMAIN runs = 1..Len(runs)
  BY PanNumbers DEF PanInv, PanTypes, PanRuns
<1> HIDE DEF new
<1>3. /\ runs' \in Seq(PanRun) /\ Len(runs') = Len(runs) + 1
      /\ \A r \in 1..Len(runs) : runs'[r] = runs[r]
      /\ runs'[Len(runs) + 1] = new
  BY <1>1, <1>2, AppendProperties
<1>4. DOMAIN runs' = 1..(Len(runs) + 1)
  BY <1>3
<1>5. MaxScans \in Nat
  BY PanFacts
<1> QED BY <1>1, <1>2, <1>3, <1>4, <1>5 DEF PanGrows, PanRuns

\* A step of the server that leaves the client as it is.
LEMMA PanServerStep ==
    ASSUME PanInv, PanGrows, alive' = alive, panel' = panel, attach' = attach, streams' = streams,
           fetches' = fetches, clicks' = clicks, left' = left
    PROVE  PanInv'
<1>1. PanTypes'
  BY DEF PanInv, PanTypes, PanGrows
<1>2. PanWork' /\ PanAsk(attach, runs, panel)'
  BY PanWorkStays DEF PanInv, PanWork, PanKeeps, Panel!OneStream
<1>3. PanView(panel, runs)' /\ PanShow(panel, runs, attach, left)'
  BY DEF PanInv, PanView, PanShow, PanGrows
<1>4. PanFollowed' /\ (~panel.on => attach.pc = "off")'
  BY DEF PanInv, PanFollowed, Panel!IsRunning, Panel!Busy, Panel!Here
<1> QED BY <1>1, <1>2, <1>3, <1>4 DEF PanInv

LEMMA PanServer ==
    ASSUME PanInv,
           \/ \E c \in Selections : Panel!Scheduled(c)
           \/ \E r \in DOMAIN runs : Panel!Begins(r) \/ \E status \in {"COMPLETE", "ERROR"} : Panel!Ends(r, status)
    PROVE  PanInv'
<1>1. ASSUME NEW c \in Selections, Panel!Scheduled(c) PROVE PanInv'
  <2>1. PanGrows
    BY <1>1, PanNewRun DEF Panel!Scheduled
  <2> QED BY <1>1, <2>1, PanServerStep DEF Panel!Scheduled
<1>2. ASSUME NEW r \in DOMAIN runs, NEW status \in Panel!Statuses, runs' = [runs EXCEPT ![r].status = status],
             runs[r].status \in Panel!UnderWay
      PROVE  PanGrows
  <2> DEFINE new == [runs[r] EXCEPT !.status = status]
  <2>1. runs' = [runs EXCEPT ![r] = new]
    BY <1>2
  <2>2. runs \in Seq(PanRun) /\ Len(runs) \in Nat /\ DOMAIN runs = 1..Len(runs) /\ Len(runs) <= MaxScans /\ runs[r] \in PanRun
    BY PanNumbers DEF PanInv, PanTypes, PanRuns
  <2>3. new \in PanRun /\ new.config = runs[r].config
    BY <1>2, <2>2 DEF PanRun
  <2> HIDE DEF new
  <2>4. /\ runs' \in Seq(PanRun) /\ Len(runs') = Len(runs) /\ DOMAIN runs' = DOMAIN runs
        /\ \A i \in DOMAIN runs : runs'[i] = IF i = r THEN new ELSE runs[i]
    BY <2>1, <2>2, <2>3, ExceptSeq
  <2> QED BY <1>2, <2>2, <2>3, <2>4 DEF PanGrows, PanRuns
<1>3. ASSUME NEW r \in DOMAIN runs, Panel!Begins(r) PROVE PanInv'
  <2>1. /\ "RUNNING" \in Panel!Statuses /\ runs' = [runs EXCEPT ![r].status = "RUNNING"]
        /\ runs[r].status \in Panel!UnderWay
    BY <1>3 DEF Panel!Begins, Panel!Statuses, Panel!UnderWay
  <2>2. PanGrows
    BY <1>2, <2>1
  <2> QED BY <1>3, <2>2, PanServerStep DEF Panel!Begins
<1>4. ASSUME NEW r \in DOMAIN runs, NEW status \in {"COMPLETE", "ERROR"}, Panel!Ends(r, status) PROVE PanInv'
  <2>1. /\ status \in Panel!Statuses /\ runs' = [runs EXCEPT ![r].status = status]
        /\ runs[r].status \in Panel!UnderWay
    BY <1>4 DEF Panel!Ends, Panel!Statuses, Panel!UnderWay
  <2>2. PanGrows
    BY <1>2, <2>1
  <2> QED BY <1>4, <2>2, PanServerStep DEF Panel!Ends
<1> QED BY <1>1, <1>3, <1>4

\* Nothing is on show.
LEMMA PanEmptyView ==
    ASSUME panel'.runId = 0, panel'.run = 0, panel'.progress = 0, panel'.entries = 0
    PROVE  PanView(panel, runs)' /\ PanShow(panel, runs, attach, left)' /\ PanFollowed'
BY DEF PanView, PanShow, PanFollowed, Panel!IsRunning

\* Work ends, or is answered with the entries to fetch; an error may be shown.
LEMMA PanLess ==
    ASSUME PanInv, runs' = runs, alive' \subseteq alive, attach' = attach, left' = left,
           panel' = panel \/ panel' = [panel EXCEPT !.error = TRUE],
           streams' \subseteq streams, clicks' \subseteq clicks,
           \A f \in fetches' : f \in fetches \/ PanFetch(f, runs, panel, left),
           panel'.error \/ (Panel!Busy => Panel!Busy')
    PROVE  PanInv'
<1>1. PanGrows /\ panel \in PanRecord
  BY PanSameRuns DEF PanInv, PanTypes
<1>2. /\ PanKeeps /\ panel' \in PanRecord /\ panel'.runId = panel.runId /\ panel'.run = panel.run
      /\ panel'.status = panel.status /\ panel'.progress = panel.progress /\ panel'.partial = panel.partial
      /\ panel'.entries = panel.entries /\ (panel.error => panel'.error)
  BY <1>1 DEF PanRecord, PanKeeps
<1>3. PanTypes'
  BY <1>2 DEF PanInv, PanTypes
<1>4. PanWork' /\ PanAsk(attach, runs, panel)'
  <2>1. /\ \A s \in streams : PanStream(s, runs', panel', left')
        /\ \A f \in fetches : PanFetch(f, runs', panel', left')
        /\ \A k \in clicks : PanClick(k, runs', panel', left')
        /\ PanAsk(attach, runs', panel')
    BY <1>1, <1>2, PanWorkStays
  <2>2. \A f \in fetches' : PanFetch(f, runs', panel', left')
    <3>1. \A mount, config : PanOf(mount, config, panel', left') = PanOf(mount, config, panel, left)
      BY <1>2 DEF PanOf, PanKeeps
    <3>2. \A f : PanFetch(f, runs, panel, left) => PanFetch(f, runs', panel', left')
      BY <3>1 DEF PanFetch
    <3> QED BY <2>1, <3>2
  <2>3. Panel!OneStream'
    BY DEF PanInv, PanWork, Panel!OneStream
  <2> QED BY <2>1, <2>2, <2>3 DEF PanWork
<1>5. PanView(panel, runs)' /\ PanShow(panel, runs, attach, left)' /\ (~panel.on => attach.pc = "off")'
  BY <1>2 DEF PanInv, PanView, PanShow, PanKeeps
<1>6. PanFollowed'
  BY <1>2 DEF PanInv, PanFollowed, Panel!IsRunning
<1> QED BY <1>3, <1>4, <1>5, <1>6 DEF PanInv

\* A stream is opened for an instance of the panel, which aborts the one it has.
LEMMA PanSubscribed ==
    ASSUME PanInv, NEW mount \in 1..MaxMounts, NEW r \in DOMAIN runs, PanOf(mount, runs[r].config, panel, left),
           runs' = runs, PanKeeps, left' = left, streams' = Panel!Subscribed(mount, r)
    PROVE  /\ \A s \in streams' : PanStream(s, runs', panel', left')
           /\ Panel!OneStream'
           /\ Panel!Opened(mount, r) \in streams' /\ Panel!Opened(mount, r).mount = mount
           /\ \A s \in streams : s.mount # mount => s \in streams'
<1> DEFINE new == Panel!Opened(mount, r)
<1>1. /\ streams' = {s \in streams : s.mount # mount} \cup {new}
      /\ new.mount = mount /\ new.run = r /\ new \in [mount : 1..MaxMounts, run : DOMAIN runs, live : BOOLEAN]
      /\ new.live = (runs[r].status \in Panel!UnderWay)
  BY DEF Panel!Subscribed, Panel!Opened
<1> HIDE DEF new
<1>2. PanStream(new, runs', panel', left')
  BY <1>1 DEF PanStream, PanOf, PanKeeps
<1>3. \A s \in streams : PanStream(s, runs', panel', left')
  BY PanSameRuns, PanWorkStays
<1>4. Panel!OneStream'
  BY <1>1 DEF PanInv, PanWork, Panel!OneStream
<1> QED BY <1>1, <1>2, <1>3, <1>4 DEF new

-----------------------------------------------------------------------------
LEMMA PanProgress ==
    ASSUME PanInv, NEW s \in streams, NEW partial \in BOOLEAN, Panel!StreamProgress(s, partial)
    PROVE  PanInv'
<1>1. /\ panel.on /\ s.mount = panel.mount /\ panel' = [panel EXCEPT !.progress = s.run, !.partial = partial]
      /\ runs' = runs /\ alive' = alive /\ attach' = attach /\ streams' = streams /\ fetches' = fetches
      /\ clicks' = clicks /\ left' = left
  BY DEF Panel!StreamProgress, Panel!Here
<1>2. s.run \in DOMAIN runs /\ s.run \in Panel!Ids /\ (~left => runs[s.run].config = panel.selected)
  BY <1>1, PanNumbers DEF PanInv, PanTypes, PanWork, PanStream, PanOf
<1>3. panel \in PanRecord
  BY DEF PanInv, PanTypes
<1>4. /\ panel' \in PanRecord /\ PanKeeps /\ panel'.runId = panel.runId /\ panel'.run = panel.run
      /\ panel'.progress = s.run /\ panel'.entries = panel.entries
  BY <1>1, <1>2, <1>3 DEF PanRecord, PanKeeps
<1>5. PanTypes'
  BY <1>1, <1>4 DEF PanInv, PanTypes
<1>6. PanWork' /\ PanAsk(attach, runs, panel)'
  <2>1. Panel!OneStream'
    BY <1>1 DEF PanInv, PanWork, Panel!OneStream
  <2> QED BY <1>1, <1>4, <2>1, PanSameRuns, PanWorkStays DEF PanWork
<1>7. PanView(panel, runs)' /\ PanShow(panel, runs, attach, left)' /\ (~panel.on => attach.pc = "off")'
  BY <1>1, <1>2, <1>4 DEF PanInv, PanView, PanShow, PanKeeps
<1>8. PanFollowed'
  BY <1>1, <1>4 DEF PanFollowed, Panel!Busy, Panel!Here, PanKeeps
<1> QED BY <1>5, <1>6, <1>7, <1>8 DEF PanInv

LEMMA PanEnds ==
    ASSUME PanInv, NEW s \in streams, Panel!StreamEnds(s)
    PROVE  PanInv'
<1>1. /\ streams' = streams \ {s} /\ runs' = runs /\ alive' = alive /\ attach' = attach /\ clicks' = clicks /\ left' = left
  BY DEF Panel!StreamEnds
<1>2. CASE /\ runs[s.run].status = "COMPLETE" /\ fetches' = fetches \cup {[mount |-> s.mount, run |-> s.run]}
           /\ panel' = panel
  <2> DEFINE new == [mount |-> s.mount, run |-> s.run]
  <2>1. PanFetch(new, runs, panel, left) /\ new.mount = s.mount
    BY DEF PanInv, PanWork, PanStream, PanFetch
  <2>2. fetches' = fetches \cup {new}
    BY <1>2
  <2> HIDE DEF new
  <2>3. Panel!Busy => Panel!Busy'
    BY <1>1, <1>2, <2>1, <2>2 DEF Panel!Busy, Panel!Here
  <2> QED BY <1>1, <1>2, <2>1, <2>2, <2>3, PanLess
<1>3. CASE fetches' = fetches /\ panel' = IF Panel!Here(s) THEN [panel EXCEPT !.error = TRUE] ELSE panel
  <2>1. panel'.error \/ (Panel!Busy => Panel!Busy')
    <3>1. panel \in PanRecord
      BY DEF PanInv, PanTypes
    <3>2. CASE Panel!Here(s)
      BY <1>3, <3>1, <3>2 DEF PanRecord
    <3>3. CASE ~Panel!Here(s)
      BY <1>1, <1>3, <3>3 DEF Panel!Busy, Panel!Here
    <3> QED BY <3>2, <3>3
  <2> QED BY <1>1, <1>3, <2>1, PanLess
<1> QED BY <1>2, <1>3 DEF Panel!StreamEnds

LEMMA PanBreaks ==
    ASSUME PanInv, NEW s \in streams, Panel!StreamBreaks(s)
    PROVE  PanInv'
<1>1. /\ streams' = streams \ {s} /\ runs' = runs /\ alive' = alive /\ attach' = attach /\ clicks' = clicks /\ left' = left
      /\ fetches' = fetches /\ panel' = IF Panel!Here(s) THEN [panel EXCEPT !.error = TRUE] ELSE panel
  BY DEF Panel!StreamBreaks
<1>2. panel'.error \/ (Panel!Busy => Panel!Busy')
  <2>1. panel \in PanRecord
    BY DEF PanInv, PanTypes
  <2>2. CASE Panel!Here(s)
    BY <1>1, <2>1, <2>2 DEF PanRecord
  <2>3. CASE ~Panel!Here(s)
    BY <1>1, <2>3 DEF Panel!Busy, Panel!Here
  <2> QED BY <2>2, <2>3
<1> QED BY <1>1, <1>2, PanLess

LEMMA PanFetched ==
    ASSUME PanInv, NEW f \in fetches, Panel!Fetched(f)
    PROVE  PanInv'
<1>1. /\ fetches' = fetches \ {f} /\ runs' = runs /\ alive' = alive /\ attach' = attach /\ streams' = streams
      /\ clicks' = clicks /\ left' = left
  BY DEF Panel!Fetched
<1>2. panel \in PanRecord
  BY DEF PanInv, PanTypes
<1>3. CASE Panel!Here(f) /\ panel' = [panel EXCEPT !.error = TRUE]
  BY <1>1, <1>2, <1>3, PanLess DEF PanRecord
<1>4. CASE ~Panel!Here(f) /\ panel' = panel
  <2>1. Panel!Busy => Panel!Busy'
    BY <1>1, <1>4 DEF Panel!Busy, Panel!Here
  <2> QED BY <1>1, <1>4, <2>1, PanLess
<1>5. CASE Panel!Here(f) /\ panel' = Panel!Completed(f.run)
  <2>1. /\ f.run \in DOMAIN runs /\ f.run \in Panel!Ids /\ f.run # 0
        /\ ~left => runs[f.run].config = panel.selected
    BY <1>5, PanNumbers DEF PanInv, PanTypes, PanWork, PanFetch, PanOf, Panel!Here
  <2>2. /\ panel' \in PanRecord /\ PanKeeps /\ panel'.runId = panel.runId /\ panel'.run = f.run
        /\ panel'.progress = panel.progress /\ panel'.entries = f.run /\ panel'.status = "COMPLETE"
    BY <1>2, <1>5, <2>1 DEF PanRecord, PanKeeps, Panel!Completed, Panel!Statuses
  <2>3. PanTypes'
    BY <1>1, <2>2 DEF PanInv, PanTypes
  <2>4. PanWork' /\ PanAsk(attach, runs, panel)'
    <3>1. Panel!OneStream'
      BY <1>1 DEF PanInv, PanWork, Panel!OneStream
    <3> QED BY <1>1, <2>2, <3>1, PanSameRuns, PanWorkStays DEF PanWork
  <2>5. PanView(panel, runs)' /\ PanShow(panel, runs, attach, left)' /\ (~panel.on => attach.pc = "off")'
    BY <1>1, <1>5, <2>1, <2>2 DEF PanInv, PanView, PanShow, PanKeeps, Panel!Here
  <2>6. PanFollowed'
    BY <2>1, <2>2 DEF PanFollowed, Panel!IsRunning
  <2> QED BY <2>3, <2>4, <2>5, <2>6 DEF PanInv
<1> QED BY <1>3, <1>4, <1>5 DEF Panel!Fetched

-----------------------------------------------------------------------------
LEMMA PanSelect ==
    ASSUME PanInv, NEW c \in Selections, Panel!Select(c)
    PROVE  PanInv'
<1>1. /\ panel' = [panel EXCEPT !.selected = c, !.moves = @ + 1] /\ panel.moves < MaxMoves /\ panel.on
      /\ attach' = Panel!Attaching /\ left' = (left \/ Panel!Busy)
      /\ runs' = runs /\ alive' = alive /\ streams' = streams /\ fetches' = fetches /\ clicks' = clicks
  BY DEF Panel!Select
<1>2. panel \in PanRecord /\ MaxMoves \in Nat /\ 0 \in Panel!Ids
  BY PanFacts, PanNumbers DEF PanInv, PanTypes
<1>3. /\ panel' \in PanRecord /\ panel'.mount = panel.mount /\ panel'.on = panel.on /\ panel'.runId = panel.runId
      /\ panel'.run = panel.run /\ panel'.status = panel.status /\ panel'.progress = panel.progress
      /\ panel'.partial = panel.partial /\ panel'.entries = panel.entries /\ panel'.error = panel.error
  <2>1. panel.moves \in 0..MaxMoves /\ panel.moves + 1 \in 0..MaxMoves
    BY <1>1, <1>2 DEF PanRecord
  <2> QED BY <1>1, <1>2, <2>1 DEF PanRecord
<1>4. attach' \in PanAttach /\ attach'.pc = "asked"
  BY <1>1, <1>2 DEF PanAttach, Panel!Attaching, Panel!NoAttach, Panel!Pending, Panel!Statuses
<1>5. PanTypes'
  BY <1>1, <1>3, <1>4 DEF PanInv, PanTypes, Panel!Busy, Panel!Here
<1>6. PanWork'
  <2>1. \A mount, config : PanOf(mount, config, panel, left) /\ (mount = panel.mount => left') => PanOf(mount, config, panel', left')
    BY <1>3 DEF PanOf
  <2>2. \A s \in streams \cup fetches \cup clicks : s.mount = panel.mount => left'
    BY <1>1 DEF Panel!Busy, Panel!Here
  <2>3. \A s \in streams : PanStream(s, runs', panel', left')
    BY <1>1, <2>1, <2>2 DEF PanInv, PanWork, PanStream
  <2>4. \A f \in fetches : PanFetch(f, runs', panel', left')
    BY <1>1, <2>1, <2>2 DEF PanInv, PanWork, PanFetch
  <2>5. \A k \in clicks : PanClick(k, runs', panel', left')
    BY <1>1, <2>1, <2>2 DEF PanInv, PanWork, PanClick
  <2> QED BY <1>1, <2>3, <2>4, <2>5 DEF PanInv, PanWork, Panel!OneStream
<1>7. PanAsk(attach, runs, panel)' /\ PanView(panel, runs)' /\ PanShow(panel, runs, attach, left)' /\ (~panel.on => attach.pc = "off")'
  BY <1>1, <1>3, <1>4 DEF PanInv, PanAsk, PanView, PanShow
<1>8. PanFollowed'
  BY <1>1, <1>3 DEF PanInv, PanFollowed, Panel!IsRunning, Panel!Busy, Panel!Here
<1> QED BY <1>5, <1>6, <1>7, <1>8 DEF PanInv

\* The request for the latest run moves on, and what is on show stays.
LEMMA PanAttachMoves ==
    ASSUME PanInv, panel.on, attach' \in PanAttach, attach'.pc # "off", PanAsk(attach', runs, panel),
           runs' = runs, alive' = alive, panel' = panel, streams' = streams, fetches' = fetches, clicks' = clicks,
           left' = left
    PROVE  PanInv'
<1>1. PanTypes'
  BY DEF PanInv, PanTypes
<1>2. PanWork'
  BY PanSameRuns, PanWorkStays DEF PanInv, PanWork, PanKeeps, Panel!OneStream
<1>3. PanAsk(attach, runs, panel)' /\ PanView(panel, runs)' /\ PanShow(panel, runs, attach, left)' /\ (~panel.on => attach.pc = "off")'
  BY DEF PanInv, PanAsk, PanView, PanShow
<1>4. PanFollowed'
  BY DEF PanInv, PanFollowed, Panel!IsRunning, Panel!Busy, Panel!Here
<1> QED BY <1>1, <1>2, <1>3, <1>4 DEF PanInv

LEMMA PanAttachRead ==
    ASSUME PanInv, Panel!AttachRead
    PROVE  PanInv'
<1> DEFINE r == Panel!Latest(panel.selected)
           new == [pc |-> "read", run |-> r, status |-> IF r = 0 THEN "ERROR" ELSE runs[r].status]
<1>1. /\ panel.on /\ attach' = new
      /\ runs' = runs /\ alive' = alive /\ panel' = panel /\ streams' = streams /\ fetches' = fetches /\ clicks' = clicks
      /\ left' = left
  BY DEF Panel!AttachRead
<1>2. PanRuns(runs)
  BY DEF PanInv, PanTypes
<1>3. r = 0 \/ (r \in DOMAIN runs /\ runs[r].config = panel.selected)
  BY <1>2, PanLatest
<1>4. r \in Panel!Ids /\ (r # 0 => runs[r].status \in Panel!Statuses)
  BY <1>2, <1>3, PanNumbers
<1> HIDE DEF r
<1>5. new \in PanAttach /\ new.pc # "off" /\ PanAsk(new, runs, panel)
  BY <1>3, <1>4 DEF PanAttach, PanAsk, Panel!Pending, Panel!Statuses
<1> HIDE DEF new
<1> QED BY <1>1, <1>5, PanAttachMoves

LEMMA PanAttachComplete ==
    ASSUME PanInv, Panel!AttachComplete
    PROVE  PanInv'
<1>1. /\ panel.on /\ attach.pc = "read" /\ attach.status = "COMPLETE" /\ attach' = [attach EXCEPT !.pc = "detail"]
      /\ runs' = runs /\ alive' = alive /\ panel' = panel /\ streams' = streams /\ fetches' = fetches /\ clicks' = clicks
      /\ left' = left
  BY DEF Panel!AttachComplete
<1>2. attach \in PanAttach /\ PanAsk(attach, runs, panel)
  BY DEF PanInv, PanTypes
<1>3. attach' \in PanAttach /\ attach'.pc # "off" /\ PanAsk(attach', runs, panel)
  BY <1>1, <1>2 DEF PanAttach, PanAsk, Panel!Pending
<1> QED BY <1>1, <1>3, PanAttachMoves

LEMMA PanAttachFails ==
    ASSUME PanInv, Panel!AttachFails
    PROVE  PanInv'
<1>1. /\ panel.on /\ attach' = [Panel!NoAttach EXCEPT !.pc = "failed"]
      /\ runs' = runs /\ alive' = alive /\ panel' = panel /\ streams' = streams /\ fetches' = fetches /\ clicks' = clicks
      /\ left' = left
  BY DEF Panel!AttachFails
<1>2. 0 \in Panel!Ids
  BY PanNumbers DEF PanInv, PanTypes
<1>3. attach' \in PanAttach /\ attach'.pc # "off" /\ PanAsk(attach', runs, panel)
  BY <1>1, <1>2 DEF PanAttach, PanAsk, Panel!Pending, Panel!NoAttach, Panel!Statuses
<1> QED BY <1>1, <1>3, PanAttachMoves

\* The request is over.
LEMMA PanNoAttach ==
    ASSUME PanInv
    PROVE  /\ Panel!NoAttach \in PanAttach /\ Panel!NoAttach.pc = "off"
           /\ Panel!Attaching \in PanAttach /\ Panel!Attaching.pc = "asked"
<1>1. 0 \in Panel!Ids
  BY PanNumbers DEF PanInv, PanTypes
<1> QED BY <1>1 DEF PanAttach, Panel!NoAttach, Panel!Attaching, Panel!Pending, Panel!Statuses

LEMMA PanAttachRunning ==
    ASSUME PanInv, Panel!AttachRunning
    PROVE  PanInv'
<1> DEFINE empty == Panel!Cleared(panel)
           r == attach.run
           mount == panel.mount
<1>1. /\ panel.on /\ attach.pc = "read" /\ attach.status = "RUNNING"
      /\ panel' = [empty EXCEPT !.runId = r, !.run = r, !.status = "RUNNING"]
      /\ streams' = Panel!Subscribed(mount, r) /\ attach' = Panel!NoAttach
      /\ runs' = runs /\ alive' = alive /\ fetches' = fetches /\ clicks' = clicks /\ left' = left
  BY DEF Panel!AttachRunning
<1>2. r \in DOMAIN runs /\ runs[r].config = panel.selected
  BY <1>1 DEF PanInv, PanAsk
<1>3. r \in Panel!Ids
  BY <1>2, PanNumbers DEF PanInv, PanTypes
<1>4. /\ empty \in PanRecord /\ empty.mount = panel.mount /\ empty.on = panel.on /\ empty.selected = panel.selected
      /\ empty.progress = 0 /\ empty.entries = 0
  BY PanCleared DEF PanInv, PanTypes
<1> HIDE DEF empty
<1>5. /\ panel' \in PanRecord /\ PanKeeps /\ panel'.runId = r /\ panel'.run = r /\ panel'.progress = 0 /\ panel'.entries = 0
  BY <1>1, <1>3, <1>4 DEF PanRecord, PanKeeps, Panel!Statuses
<1>6. mount \in 1..MaxMounts /\ PanOf(mount, runs[r].config, panel, left)
  <2>1. mount \in 1..MaxMounts
    BY DEF PanInv, PanTypes, PanRecord
  <2> QED BY <1>2, <2>1 DEF PanOf
<1>7. PanTypes'
  BY <1>1, <1>5, PanNoAttach DEF PanInv, PanTypes
<1>8. PanWork' /\ Panel!Busy'
  <2>1. /\ \A s \in streams' : PanStream(s, runs', panel', left')
        /\ Panel!OneStream'
        /\ Panel!Opened(mount, r) \in streams' /\ Panel!Opened(mount, r).mount = mount
    <3> HIDE DEF mount, r
    <3> QED BY <1>1, <1>2, <1>5, <1>6, PanSubscribed
  <2>2. /\ \A f \in fetches : PanFetch(f, runs', panel', left')
        /\ \A k \in clicks : PanClick(k, runs', panel', left')
    BY <1>1, <1>5, PanSameRuns, PanWorkStays
  <2>3. Panel!Busy'
    BY <1>1, <1>5, <2>1 DEF Panel!Busy, Panel!Here, PanKeeps
  <2> QED BY <1>1, <2>1, <2>2, <2>3 DEF PanWork
<1>9. PanAsk(attach, runs, panel)' /\ PanView(panel, runs)' /\ PanShow(panel, runs, attach, left)' /\ (~panel.on => attach.pc = "off")'
  BY <1>1, <1>2, <1>5, PanNoAttach DEF PanAsk, PanView, PanShow, PanKeeps
<1> QED BY <1>7, <1>8, <1>9 DEF PanInv, PanFollowed

LEMMA PanAttachEntries ==
    ASSUME PanInv, Panel!AttachEntries
    PROVE  PanInv'
<1> DEFINE empty == Panel!Cleared(panel)
           r == attach.run
<1>1. /\ panel.on /\ attach.pc = "detail"
      /\ panel' = [empty EXCEPT !.runId = r, !.run = r, !.status = "COMPLETE", !.entries = r]
      /\ attach' = Panel!NoAttach
      /\ runs' = runs /\ alive' = alive /\ streams' = streams /\ fetches' = fetches /\ clicks' = clicks /\ left' = left
  BY DEF Panel!AttachEntries
<1>2. r \in DOMAIN runs /\ runs[r].config = panel.selected
  BY <1>1 DEF PanInv, PanAsk
<1>3. r \in Panel!Ids
  BY <1>2, PanNumbers DEF PanInv, PanTypes
<1>4. /\ empty \in PanRecord /\ empty.mount = panel.mount /\ empty.on = panel.on /\ empty.selected = panel.selected
      /\ empty.progress = 0
  BY PanCleared DEF PanInv, PanTypes
<1> HIDE DEF empty
<1>5. /\ panel' \in PanRecord /\ PanKeeps /\ panel'.runId = r /\ panel'.run = r /\ panel'.progress = 0 /\ panel'.entries = r
      /\ panel'.status = "COMPLETE"
  BY <1>1, <1>3, <1>4 DEF PanRecord, PanKeeps, Panel!Statuses
<1>6. PanTypes'
  BY <1>1, <1>5, PanNoAttach DEF PanInv, PanTypes
<1>7. PanWork'
  <2>1. Panel!OneStream'
    BY <1>1 DEF PanInv, PanWork, Panel!OneStream
  <2> QED BY <1>1, <1>5, <2>1, PanSameRuns, PanWorkStays DEF PanWork
<1>8. PanAsk(attach, runs, panel)' /\ PanView(panel, runs)' /\ PanShow(panel, runs, attach, left)' /\ (~panel.on => attach.pc = "off")'
  BY <1>1, <1>2, <1>5, PanNoAttach DEF PanAsk, PanView, PanShow, PanKeeps
<1>9. PanFollowed'
  BY <1>5 DEF PanFollowed, Panel!IsRunning
<1> QED BY <1>6, <1>7, <1>8, <1>9 DEF PanInv

LEMMA PanAttachNothing ==
    ASSUME PanInv, Panel!AttachNothing
    PROVE  PanInv'
<1>1. /\ panel.on /\ panel' = Panel!Cleared(panel) /\ attach' = Panel!NoAttach
      /\ streams' = {s \in streams : s.mount # panel.mount}
      /\ runs' = runs /\ alive' = alive /\ fetches' = fetches /\ clicks' = clicks /\ left' = left
  BY DEF Panel!AttachNothing
<1>2. /\ panel' \in PanRecord /\ PanKeeps /\ panel'.runId = 0 /\ panel'.run = 0 /\ panel'.progress = 0 /\ panel'.entries = 0
  BY <1>1, PanCleared DEF PanInv, PanTypes, PanKeeps
<1>3. PanTypes'
  BY <1>1, <1>2, PanNoAttach DEF PanInv, PanTypes
<1>4. PanWork'
  <2>1. Panel!OneStream'
    BY <1>1 DEF PanInv, PanWork, Panel!OneStream
  <2> QED BY <1>1, <1>2, <2>1, PanSameRuns, PanWorkStays DEF PanWork
<1>5. PanAsk(attach, runs, panel)' /\ (~panel.on => attach.pc = "off")'
  BY <1>1, PanNoAttach DEF PanAsk
<1> QED BY <1>2, <1>3, <1>4, <1>5, PanEmptyView DEF PanInv

-----------------------------------------------------------------------------
LEMMA PanClicked ==
    ASSUME PanInv, Panel!Click
    PROVE  PanInv'
<1> DEFINE empty == Panel!Cleared(panel)
           new == [mount |-> panel.mount, config |-> panel.selected, run |-> 0]
<1>1. /\ panel.on /\ panel.selected \in alive /\ panel.moves < MaxMoves /\ panel' = [empty EXCEPT !.moves = @ + 1]
      /\ clicks' = clicks \cup {new}
      /\ runs' = runs /\ alive' = alive /\ attach' = attach /\ streams' = streams /\ fetches' = fetches /\ left' = left
  BY DEF Panel!Click
<1>2. panel \in PanRecord /\ MaxMoves \in Nat /\ alive \subseteq Selections
  BY PanFacts DEF PanInv, PanTypes
<1>3. /\ empty \in PanRecord /\ empty.mount = panel.mount /\ empty.on = panel.on /\ empty.selected = panel.selected
      /\ empty.runId = 0 /\ empty.run = 0 /\ empty.progress = 0 /\ empty.entries = 0 /\ empty.moves = panel.moves
  BY <1>2, PanCleared
<1> HIDE DEF empty
<1>4. /\ panel' \in PanRecord /\ PanKeeps /\ panel'.runId = 0 /\ panel'.run = 0 /\ panel'.progress = 0 /\ panel'.entries = 0
  <2>1. empty.moves + 1 \in 0..MaxMoves
    BY <1>1, <1>2, <1>3 DEF PanRecord
  <2> QED BY <1>1, <1>3, <2>1 DEF PanRecord, PanKeeps
<1>5. PanTypes'
  BY <1>1, <1>4 DEF PanInv, PanTypes
<1>6. PanWork' /\ PanAsk(attach, runs, panel)'
  <2>1. PanClick(new, runs', panel', left')
    <3>1. panel.mount \in 1..MaxMounts
      BY <1>2 DEF PanRecord
    <3> QED BY <1>1, <1>2, <1>4, <3>1 DEF PanClick, PanOf, PanKeeps
  <2>2. Panel!OneStream'
    BY <1>1 DEF PanInv, PanWork, Panel!OneStream
  <2> HIDE DEF new
  <2> QED BY <1>1, <1>4, <2>1, <2>2, PanSameRuns, PanWorkStays DEF PanWork
<1>7. (~panel.on => attach.pc = "off")'
  BY <1>1, <1>4 DEF PanKeeps
<1> QED BY <1>4, <1>5, <1>6, <1>7, PanEmptyView DEF PanInv

LEMMA PanStarted ==
    ASSUME PanInv, NEW k \in clicks, Panel!Started(k)
    PROVE  PanInv'
<1>1. /\ k.run = 0 /\ alive' = alive /\ panel' = panel /\ attach' = attach /\ streams' = streams /\ fetches' = fetches /\ left' = left
  BY DEF Panel!Started
<1>2. PanClick(k, runs, panel, left)
  BY DEF PanInv, PanWork
<1>3. \E r : /\ PanGrows /\ r \in DOMAIN runs' /\ runs'[r].config = k.config
             /\ clicks' = (clicks \ {k}) \cup {[k EXCEPT !.run = r]}
  <2>1. CASE /\ Len(runs) < MaxScans /\ runs' = Panel!NewRun(k.config)
             /\ clicks' = (clicks \ {k}) \cup {[k EXCEPT !.run = Len(runs) + 1]}
    <3>1. k.config \in Selections
      BY <1>2 DEF PanClick
    <3> QED BY <2>1, <3>1, PanNewRun
  <2>2. CASE \E r \in Panel!Running(k.config) : clicks' = (clicks \ {k}) \cup {[k EXCEPT !.run = r]} /\ runs' = runs
    BY <2>2, PanSameRuns DEF Panel!Running, Panel!RunsOf
  <2> QED BY <2>1, <2>2 DEF Panel!Started
<1>4. PICK r : /\ PanGrows /\ r \in DOMAIN runs' /\ runs'[r].config = k.config
               /\ clicks' = (clicks \ {k}) \cup {[k EXCEPT !.run = r]}
  BY <1>3
<1> DEFINE new == [k EXCEPT !.run = r]
<1>5. PanKeeps
  BY <1>1 DEF PanKeeps
<1>6. PanClick(new, runs', panel', left') /\ new.mount = k.mount
  BY <1>1, <1>2, <1>4 DEF PanClick, PanOf
<1>7. clicks' = (clicks \ {k}) \cup {new}
  BY <1>4
<1> HIDE DEF new
<1>8. PanTypes'
  BY <1>1, <1>4 DEF PanInv, PanTypes, PanGrows
<1>9. PanWork' /\ PanAsk(attach, runs, panel)'
  <2>1. Panel!OneStream'
    BY <1>1 DEF PanInv, PanWork, Panel!OneStream
  <2> QED BY <1>1, <1>4, <1>5, <1>6, <1>7, <2>1, PanWorkStays DEF PanWork
<1>10. PanView(panel, runs)' /\ PanShow(panel, runs, attach, left)' /\ (~panel.on => attach.pc = "off")'
  BY <1>1, <1>4 DEF PanInv, PanView, PanShow, PanGrows
<1>11. PanFollowed'
  BY <1>1, <1>6, <1>7 DEF PanInv, PanFollowed, Panel!IsRunning, Panel!Busy, Panel!Here
<1> QED BY <1>8, <1>9, <1>10, <1>11 DEF PanInv

LEMMA PanFollows ==
    ASSUME PanInv, NEW k \in clicks, Panel!Follow(k)
    PROVE  PanInv'
<1> DEFINE mount == k.mount
           r == k.run
<1>1. /\ r # 0 /\ clicks' = clicks \ {k} /\ streams' = Panel!Subscribed(mount, r)
      /\ panel' = IF Panel!Here(k) THEN [panel EXCEPT !.runId = r] ELSE panel
      /\ runs' = runs /\ alive' = alive /\ attach' = attach /\ fetches' = fetches /\ left' = left
  BY DEF Panel!Follow
<1>2. PanClick(k, runs, panel, left) /\ panel \in PanRecord
  BY DEF PanInv, PanWork, PanTypes
<1>3. /\ r \in DOMAIN runs /\ runs[r].config = k.config /\ mount \in 1..MaxMounts
      /\ PanOf(mount, runs[r].config, panel, left)
  BY <1>1, <1>2 DEF PanClick, PanOf
<1>4. r \in Panel!Ids
  BY <1>3, PanNumbers DEF PanInv, PanTypes
<1>5. /\ panel' \in PanRecord /\ PanKeeps /\ panel'.run = panel.run /\ panel'.status = panel.status
      /\ panel'.progress = panel.progress /\ panel'.partial = panel.partial
      /\ panel'.entries = panel.entries /\ panel'.error = panel.error
      /\ panel'.runId = IF Panel!Here(k) THEN r ELSE panel.runId
  BY <1>1, <1>2, <1>4 DEF PanRecord, PanKeeps
<1>6. PanTypes'
  BY <1>1, <1>5 DEF PanInv, PanTypes
<1>7. /\ \A s \in streams' : PanStream(s, runs', panel', left')
      /\ Panel!OneStream'
      /\ Panel!Opened(mount, r) \in streams' /\ Panel!Opened(mount, r).mount = mount
      /\ \A s \in streams : s.mount # mount => s \in streams'
  <2> HIDE DEF mount, r
  <2> QED BY <1>1, <1>3, <1>5, PanSubscribed
<1>8. PanWork' /\ PanAsk(attach, runs, panel)'
  BY <1>1, <1>5, <1>7, PanSameRuns, PanWorkStays DEF PanWork
<1>9. PanView(panel, runs)' /\ PanShow(panel, runs, attach, left)' /\ (~panel.on => attach.pc = "off")'
  BY <1>1, <1>3, <1>5 DEF PanInv, PanView, PanShow, PanKeeps, PanOf, Panel!Here
<1>10. PanFollowed'
  <2>1. CASE Panel!Here(k)
    BY <1>5, <1>7, <2>1 DEF PanFollowed, Panel!Busy, Panel!Here, PanKeeps
  <2>2. CASE ~Panel!Here(k)
    <3>1. Panel!Busy => Panel!Busy'
      BY <1>1, <1>5, <1>7, <2>2 DEF Panel!Busy, Panel!Here, PanKeeps
    <3> QED BY <1>5, <2>2, <3>1 DEF PanInv, PanFollowed, Panel!IsRunning
  <2> QED BY <2>1, <2>2
<1> QED BY <1>6, <1>8, <1>9, <1>10 DEF PanInv

LEMMA PanNotStarted ==
    ASSUME PanInv, NEW k \in clicks, Panel!NotStarted(k)
    PROVE  PanInv'
<1>1. /\ clicks' = clicks \ {k} /\ runs' = runs /\ alive' = alive /\ attach' = attach /\ streams' = streams /\ left' = left
      /\ fetches' = fetches /\ panel' = IF Panel!Here(k) THEN [panel EXCEPT !.error = TRUE] ELSE panel
  BY DEF Panel!NotStarted
<1>2. panel'.error \/ (Panel!Busy => Panel!Busy')
  <2>1. panel \in PanRecord
    BY DEF PanInv, PanTypes
  <2>2. CASE Panel!Here(k)
    BY <1>1, <2>1, <2>2 DEF PanRecord
  <2>3. CASE ~Panel!Here(k)
    BY <1>1, <2>3 DEF Panel!Busy, Panel!Here
  <2> QED BY <2>2, <2>3
<1> QED BY <1>1, <1>2, PanLess

-----------------------------------------------------------------------------
LEMMA PanDelete ==
    ASSUME PanInv, Panel!Delete
    PROVE  PanInv'
<1>1. /\ alive' \subseteq alive /\ runs' = runs /\ panel' = panel /\ attach' = attach /\ streams' = streams
      /\ fetches' = fetches /\ clicks' = clicks /\ left' = left
  BY DEF Panel!Delete
<1>2. Panel!Busy => Panel!Busy'
  BY <1>1 DEF Panel!Busy, Panel!Here
<1> QED BY <1>1, <1>2, PanLess

\* The instance is turned to another selection, is unmounted or makes way for the next: what
\* stays open is of an instance that is gone, or noted as left.
LEMMA PanTurns ==
    ASSUME PanInv, runs' = runs, alive' = alive, panel' \in PanRecord, attach' \in PanAttach, left' \in BOOLEAN,
           attach'.pc \in {"off", "asked"}, ~panel'.on => attach'.pc = "off",
           panel'.runId = 0, panel'.run = 0, panel'.progress = 0, panel'.entries = 0,
           panel'.mount >= panel.mount, streams' \subseteq streams, fetches' = fetches, clicks' = clicks,
           \A s \in streams' \cup fetches \cup clicks : ~panel'.on \/ left' \/ s.mount # panel'.mount
    PROVE  PanInv'
<1>1. PanTypes'
  BY DEF PanInv, PanTypes
<1>2. PanWork'
  <2>1. ASSUME NEW mount \in 1..MaxMounts, NEW config, PanOf(mount, config, panel, left),
               ~panel'.on \/ left' \/ mount # panel'.mount
        PROVE  PanOf(mount, config, panel', left')
    <3>1. panel \in PanRecord /\ MaxMounts \in Nat
      BY PanFacts DEF PanInv, PanTypes
    <3>2. panel.mount \in Nat /\ panel'.mount \in Nat /\ mount \in Nat
      BY <3>1 DEF PanRecord
    <3> QED BY <2>1, <3>2 DEF PanOf
  <2>2. \A s \in streams' : PanStream(s, runs', panel', left')
    BY <2>1 DEF PanInv, PanWork, PanStream
  <2>3. \A f \in fetches : PanFetch(f, runs', panel', left')
    BY <2>1 DEF PanInv, PanWork, PanFetch
  <2>4. \A k \in clicks : PanClick(k, runs', panel', left')
    BY <2>1 DEF PanInv, PanWork, PanClick
  <2> QED BY <2>2, <2>3, <2>4 DEF PanInv, PanWork, Panel!OneStream
<1>3. PanAsk(attach, runs, panel)' /\ (~panel.on => attach.pc = "off")'
  BY DEF PanAsk
<1> QED BY <1>1, <1>2, <1>3, PanEmptyView DEF PanInv

LEMMA PanDeleted ==
    ASSUME PanInv, Panel!Deleted
    PROVE  PanInv'
<1> DEFINE empty == Panel!Cleared(panel)
<1>1. /\ panel.on /\ streams' = {s \in streams : s.mount # panel.mount}
      /\ left' = (left \/ \E f \in fetches \cup clicks : Panel!Here(f))
      /\ runs' = runs /\ alive' = alive /\ fetches' = fetches /\ clicks' = clicks
  BY DEF Panel!Deleted
<1>2. PICK c \in alive \cup {NoConfig} : /\ panel' = [empty EXCEPT !.selected = c]
                                         /\ attach' = IF c = NoConfig THEN Panel!NoAttach ELSE Panel!Attaching
  BY DEF Panel!Deleted
<1>3. panel \in PanRecord /\ alive \subseteq Selections
  BY DEF PanInv, PanTypes
<1>4. /\ empty \in PanRecord /\ empty.mount = panel.mount /\ empty.on = panel.on
      /\ empty.runId = 0 /\ empty.run = 0 /\ empty.progress = 0 /\ empty.entries = 0
  BY <1>3, PanCleared
<1> HIDE DEF empty
<1>5. /\ panel' \in PanRecord /\ panel'.mount = panel.mount /\ panel'.on = panel.on
      /\ panel'.runId = 0 /\ panel'.run = 0 /\ panel'.progress = 0 /\ panel'.entries = 0
  BY <1>2, <1>3, <1>4 DEF PanRecord
<1>6. attach' \in PanAttach /\ attach'.pc \in {"off", "asked"}
  BY <1>2, PanNoAttach
<1>7. left' \in BOOLEAN /\ panel'.mount >= panel.mount
  <2>1. MaxMounts \in Nat /\ left \in BOOLEAN
    BY PanFacts DEF PanInv, PanTypes
  <2>2. panel.mount \in Nat
    BY <1>3, <2>1 DEF PanRecord
  <2> QED BY <1>1, <1>5, <2>1, <2>2
<1>8. \A s \in streams' \cup fetches \cup clicks : ~panel'.on \/ left' \/ s.mount # panel'.mount
  BY <1>1, <1>5 DEF Panel!Here
<1> QED BY <1>1, <1>5, <1>6, <1>7, <1>8, PanTurns

LEMMA PanUnmount ==
    ASSUME PanInv, Panel!Unmount
    PROVE  PanInv'
<1> DEFINE empty == Panel!Cleared(panel)
<1>1. /\ panel' = [empty EXCEPT !.on = FALSE] /\ attach' = Panel!NoAttach /\ left' = FALSE
      /\ streams' = {s \in streams : s.mount # panel.mount}
      /\ runs' = runs /\ alive' = alive /\ fetches' = fetches /\ clicks' = clicks
  BY DEF Panel!Unmount
<1>2. panel \in PanRecord /\ MaxMounts \in Nat
  BY PanFacts DEF PanInv, PanTypes
<1>3. /\ empty \in PanRecord /\ empty.mount = panel.mount
      /\ empty.runId = 0 /\ empty.run = 0 /\ empty.progress = 0 /\ empty.entries = 0
  BY <1>2, PanCleared
<1> HIDE DEF empty
<1>4. /\ panel' \in PanRecord /\ panel'.mount = panel.mount /\ ~panel'.on
      /\ panel'.runId = 0 /\ panel'.run = 0 /\ panel'.progress = 0 /\ panel'.entries = 0
  BY <1>1, <1>3 DEF PanRecord
<1>5. panel'.mount >= panel.mount
  <2>1. panel.mount \in Nat
    BY <1>2 DEF PanRecord
  <2> QED BY <1>4, <2>1
<1> QED BY <1>1, <1>4, <1>5, PanNoAttach, PanTurns

LEMMA PanMount ==
    ASSUME PanInv, Panel!Mount
    PROVE  PanInv'
<1>1. /\ ~panel.on /\ panel.mount < MaxMounts /\ attach' = Panel!Attaching
      /\ runs' = runs /\ alive' = alive /\ streams' = streams /\ fetches' = fetches /\ clicks' = clicks /\ left' = left
  BY DEF Panel!Mount
<1>2. PICK c \in alive : panel' = [panel EXCEPT !.on = TRUE, !.mount = @ + 1, !.selected = c]
  BY DEF Panel!Mount
<1>3. panel \in PanRecord /\ MaxMounts \in Nat /\ alive \subseteq Selections /\ left \in BOOLEAN
  BY PanFacts DEF PanInv, PanTypes
<1>4. panel.mount \in Nat /\ panel.mount + 1 \in 1..MaxMounts
  BY <1>1, <1>3 DEF PanRecord
<1>5. panel.runId = 0 /\ panel.run = 0 /\ panel.progress = 0 /\ panel.entries = 0
  BY <1>1 DEF PanInv, PanView
<1>6. /\ panel' \in PanRecord /\ panel'.mount = panel.mount + 1 /\ panel'.on
      /\ panel'.runId = 0 /\ panel'.run = 0 /\ panel'.progress = 0 /\ panel'.entries = 0
  BY <1>2, <1>3, <1>4, <1>5 DEF PanRecord
<1>7. \A s \in streams' \cup fetches \cup clicks : s.mount # panel'.mount
  <2>1. ASSUME NEW s, s.mount \in 1..MaxMounts, s.mount <= panel.mount PROVE s.mount # panel'.mount
    BY <1>3, <1>4, <1>6, <2>1
  <2>2. \A s \in streams \cup fetches \cup clicks : s.mount \in 1..MaxMounts /\ s.mount <= panel.mount
    BY DEF PanInv, PanWork, PanStream, PanFetch, PanClick, PanOf
  <2> QED BY <1>1, <2>1, <2>2
<1>8. panel'.mount >= panel.mount
  BY <1>4, <1>6
<1> QED BY <1>1, <1>3, <1>6, <1>7, <1>8, PanNoAttach, PanTurns

-----------------------------------------------------------------------------
\* A panel that has just been opened, before a server without runs.
LEMMA PanFirst ==
    ASSUME Panel!NothingYet, panel \in PanRecord, panel.on,
           panel.runId = 0, panel.run = 0, panel.progress = 0, panel.entries = 0
    PROVE  PanInv
<1>1. /\ runs = <<>> /\ alive = Selections /\ attach = Panel!Attaching
      /\ streams = {} /\ fetches = {} /\ clicks = {} /\ left = FALSE
  BY DEF Panel!NothingYet
<1>2. MaxScans \in Nat /\ 0 \in Panel!Ids
  <2>1. MaxScans \in Nat
    BY PanFacts
  <2> QED BY <2>1 DEF Panel!Ids
<1>3. PanRuns(runs)
  BY <1>1, <1>2 DEF PanRuns
<1>4. attach \in PanAttach /\ attach.pc = "asked"
  BY <1>1, <1>2 DEF PanAttach, Panel!Attaching, Panel!NoAttach, Panel!Pending, Panel!Statuses
<1>5. PanTypes
  BY <1>1, <1>3, <1>4 DEF PanTypes
<1>6. PanWork
  BY <1>1 DEF PanWork, Panel!OneStream
<1> QED BY <1>4, <1>5, <1>6 DEF PanInv, PanAsk, PanView, PanShow, PanFollowed, Panel!IsRunning

LEMMA PanInit == Panel!Init => PanInv
<1> SUFFICES ASSUME Panel!NothingYet, NEW c \in Selections, panel = Panel!FirstOf(c) PROVE PanInv
  BY DEF Panel!Init
<1>1. 0 \in Panel!Ids /\ 1 \in 1..MaxMounts /\ 0 \in 0..MaxMoves
  <2>1. MaxScans \in Nat /\ MaxMounts \in Nat /\ MaxMounts > 0 /\ MaxMoves \in Nat
    BY PanFacts
  <2> QED BY <2>1 DEF Panel!Ids
<1>2. /\ panel \in PanRecord /\ panel.on
      /\ panel.runId = 0 /\ panel.run = 0 /\ panel.progress = 0 /\ panel.entries = 0
  BY <1>1 DEF Panel!FirstOf, PanRecord, Panel!Statuses
<1> QED BY <1>2, PanFirst

\* No step of the panel or its server disturbs the invariant.
LEMMA PanStep == PanInv /\ [Panel!Next]_(Panel!vars) => PanInv'
<1> SUFFICES ASSUME PanInv, [Panel!Next]_(Panel!vars) PROVE PanInv'
  OBVIOUS
<1>1. CASE Panel!Next
  <2>1. CASE \E c \in Selections : Panel!Scheduled(c) \/ Panel!Select(c)
    BY <2>1, PanServer, PanSelect
  <2>2. CASE \E r \in DOMAIN runs : Panel!Begins(r) \/ \E status \in {"COMPLETE", "ERROR"} : Panel!Ends(r, status)
    BY <2>2, PanServer
  <2>3. CASE \E s \in streams : \/ \E partial \in BOOLEAN : Panel!StreamProgress(s, partial)
                               \/ Panel!StreamEnds(s) \/ Panel!StreamBreaks(s)
    BY <2>3, PanProgress, PanEnds, PanBreaks
  <2>4. CASE \E f \in fetches : Panel!Fetched(f)
    BY <2>4, PanFetched
  <2>5. CASE \/ Panel!AttachRead \/ Panel!AttachRunning \/ Panel!AttachComplete \/ Panel!AttachEntries
             \/ Panel!AttachNothing \/ Panel!AttachFails
    BY <2>5, PanAttachRead, PanAttachRunning, PanAttachComplete, PanAttachEntries, PanAttachNothing, PanAttachFails
  <2>6. CASE Panel!Click \/ \E k \in clicks : Panel!Started(k) \/ Panel!Follow(k) \/ Panel!NotStarted(k)
    BY <2>6, PanClicked, PanStarted, PanFollows, PanNotStarted
  <2>7. CASE Panel!Delete \/ Panel!Deleted \/ Panel!Unmount \/ Panel!Mount
    BY <2>7, PanDelete, PanDeleted, PanUnmount, PanMount
  <2> QED BY <1>1, <2>1, <2>2, <2>3, <2>4, <2>5, <2>6, <2>7 DEF Panel!Next
<1>2. CASE UNCHANGED Panel!vars
  <2>1. /\ runs' = runs /\ alive' = alive /\ panel' = panel /\ attach' = attach /\ streams' = streams
        /\ fetches' = fetches /\ clicks' = clicks /\ left' = left
    BY <1>2 DEF Panel!vars
  <2> QED BY <2>1, PanSameRuns, PanServerStep
<1> QED BY <1>1, <1>2

\* What the invariant says of the panel.
LEMMA PanHolds ==
    ASSUME PanInv
    PROVE  PanelIsCoherent
<1>1. Panel!TypeOK
  <2>1. runs \in Seq([config : Selections, status : Panel!Statuses]) /\ Len(runs) <= MaxScans
    BY DEF PanInv, PanTypes, PanRuns, PanRun
  <2>2. /\ streams \subseteq [mount : 1..MaxMounts, run : DOMAIN runs, live : BOOLEAN]
        /\ fetches \subseteq [mount : 1..MaxMounts, run : DOMAIN runs]
        /\ clicks \subseteq [mount : 1..MaxMounts, config : Selections, run : {0} \cup DOMAIN runs]
    BY DEF PanInv, PanWork, PanStream, PanFetch, PanClick
  <2>3. {panel.runId, panel.run, panel.progress, panel.entries} \subseteq {0} \cup DOMAIN runs
    BY DEF PanInv, PanView
  <2> QED BY <2>1, <2>2, <2>3 DEF PanInv, PanTypes, PanRecord, PanAttach, Panel!TypeOK
<1>2. Panel!OneStream /\ Panel!EntriesAreOfRun
  BY DEF PanInv, PanWork, PanView, Panel!EntriesAreOfRun
<1>3. Panel!ShownUnlessLeft
  BY DEF PanInv, PanShow, Panel!ShownUnlessLeft, Panel!Settled, Panel!Shown
<1>4. Panel!RunningIsFollowed
  <2>1. ASSUME NEW s \in streams, Panel!Here(s) PROVE Panel!Heard \/ Panel!TooLate
    <3>1. s.live \/ runs[s.run].status \notin Panel!UnderWay
      BY DEF PanInv, PanWork, PanStream
    <3> QED BY <2>1, <3>1 DEF Panel!Heard, Panel!TooLate
  <2>2. ASSUME NEW f \in fetches \cup clicks, Panel!Here(f) PROVE Panel!Heard
    BY <2>2 DEF Panel!Heard
  <2> QED BY <2>1, <2>2 DEF PanInv, PanFollowed, Panel!Busy, Panel!RunningIsFollowed
<1> QED BY <1>1, <1>2, <1>3, <1>4 DEF PanelIsCoherent

\* For any configurations, runs, instances of the panel and moves of the user: each instance has one
\* stream open at most, the entries shown are those of the run shown above them, a panel that says it
\* is running will hear from a stream or a request, shows an error, or follows a run that was over
\* when its stream was opened, and what is on show is of the selection unless the user turned away
\* from work in flight (scanner-panel.tsx, streamRun of scanner-service.ts).
THEOREM PanelStaysCoherent == Panel!Spec => []PanelIsCoherent
<1>1. Panel!Spec => []PanInv
  BY PanInit, PanStep, PTL DEF Panel!Spec
<1> QED BY <1>1, PanHolds, PTL

-----------------------------------------------------------------------------
\* What the requests of a user leave behind, and what the panel shows of it.
RequestInv == RegInv /\ (story = "panel" => PanInv)

LEMMA RequestsStart == RequestInit => RequestInv
<1>1. ASSUME Registry!Init, story = "jobs" PROVE RequestInv
  BY <1>1, RegInit DEF RequestInv
<1>2. ASSUME Registry!Init, Panel!NothingYet, panel \in PanelStories PROVE RequestInv
  <2>1. PICK c \in Selections : \/ panel = [Panel!FirstOf(c) EXCEPT !.moves = MaxMoves - 1]
                              \/ panel = [Panel!FirstOf(c) EXCEPT !.mount = MaxMounts]
    BY <1>2 DEF PanelStories
  <2>2. /\ 0 \in Panel!Ids /\ 1 \in 1..MaxMounts /\ 0 \in 0..MaxMoves
        /\ MaxMounts \in 1..MaxMounts /\ MaxMoves - 1 \in 0..MaxMoves
    <3>1. MaxScans \in Nat /\ MaxMounts \in Nat /\ MaxMounts > 0 /\ MaxMoves \in Nat /\ MaxMoves > 0
      BY PanFacts
    <3> QED BY <3>1 DEF Panel!Ids
  <2>3. /\ panel \in PanRecord /\ panel.on
        /\ panel.runId = 0 /\ panel.run = 0 /\ panel.progress = 0 /\ panel.entries = 0
    <3> DEFINE last == MaxMoves - 1
    <3>1. last \in 0..MaxMoves
      BY <2>2
    <3> HIDE DEF last
    <3>2. panel = [Panel!FirstOf(c) EXCEPT !.moves = last] \/ panel = [Panel!FirstOf(c) EXCEPT !.mount = MaxMounts]
      BY <2>1 DEF last
    <3> QED BY <2>2, <3>1, <3>2 DEF Panel!FirstOf, PanRecord, Panel!Statuses
  <2> QED BY <1>2, <2>3, RegInit, PanFirst DEF RequestInv
<1> QED BY <1>1, <1>2 DEF RequestInit

LEMMA RequestsGoOn == RequestInv /\ [RequestNext]_<<story, registryVars, panelVars>> => RequestInv'
<1> SUFFICES ASSUME RequestInv, [RequestNext]_<<story, registryVars, panelVars>> PROVE RequestInv'
  OBVIOUS
<1>1. CASE story = "jobs" /\ Registry!Next /\ story' = story
  BY <1>1, RegStep DEF RequestInv
<1>2. CASE story = "panel" /\ Panel!Next /\ UNCHANGED registryVars /\ story' = story
  <2>1. RegInv'
    BY <1>2, RegStep DEF RequestInv, registryVars, Registry!vars
  <2>2. PanInv'
    BY <1>2, PanStep DEF RequestInv
  <2> QED BY <2>1, <2>2 DEF RequestInv
<1>3. CASE UNCHANGED <<story, registryVars, panelVars>>
  <2>1. RegInv'
    BY <1>3, RegStep DEF RequestInv, registryVars, Registry!vars
  <2>2. story' = story /\ (story = "panel" => PanInv')
    BY <1>3, PanStep DEF RequestInv, panelVars, Panel!vars
  <2> QED BY <2>1, <2>2 DEF RequestInv
<1> QED BY <1>1, <1>2, <1>3 DEF RequestNext

\* Of all stories of a user's requests: jobs follow their rows, and the panel is coherent.
THEOREM RequestsLeaveOrder == RequestSpec => [](RegistryIsTrue /\ PanelIsCoherent)
<1>1. RequestInv => RegistryIsTrue /\ PanelIsCoherent
  BY RegHolds, PanHolds DEF RequestInv, PanelIsCoherent
<1>2. RequestSpec => []RequestInv
  BY RequestsStart, RequestsGoOn, PTL DEF RequestSpec
<1> QED BY <1>1, <1>2, PTL

=============================================================================
