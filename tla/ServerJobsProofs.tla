---------------------------- MODULE ServerJobsProofs ----------------------------
(***************************************************************************)
(* Theorems about the server's jobs: the snapshot refresh, for any markets *)
(* and any number of refreshes, nightly jobs and refused upserts; the      *)
(* follow-up of a scan, for any number of entries, workers and failures;   *)
(* and the pool of a scan, for any universe and number of workers.         *)
(***************************************************************************)
EXTENDS MCServerJobs, FiniteSets, FunctionTheorems, FiniteSetTheorems, SequenceTheorems, TLAPS

Last == threads[started]

\* The threads and the record: only the refresh started last may be at work, and the
\* record is in step with it.
RecordInv ==
    /\ \A t \in Refreshes : t > started => threads[t].pc = "none"
    /\ \A t \in Refreshes : t < started => threads[t].pc = "done"
    /\ started > 0 => Last.pc \in Working \cup {"done"}
    /\ state.running <=> started > 0 /\ Last.pc \in Working
    /\ state.finished => started > 0 /\ Last.pc = "done"
    /\ started > 0 =>
         /\ state.market = Last.market
         /\ Last.pc \in {"build", "upsert", "stored", "failed"} => ~state.inserted /\ ~state.error
         /\ Last.pc \in {"final", "done"} =>
              /\ state.inserted <=> Last.outcome = "stored"
              /\ state.error <=> Last.outcome = "failed"
    /\ \A m \in MarketNames : table[m] \in Refreshes => table[m] <= started

IInv == TypeOK /\ RecordInv

-----------------------------------------------------------------------------
LEMMA InvInit == Init => IInv
<1> SUFFICES ASSUME Init PROVE IInv
  OBVIOUS
<1>1. /\ MaxClicks \in Nat /\ MaxNights \in Nat /\ MaxFaults \in Nat
      /\ Len(Markets) \in Nat /\ Len(Markets) > 0
  BY SnapshotRefreshAssumption
<1>2. TypeOK
  <2>1. state \in Record
    BY DEF Init, Record
  <2>2. threads \in [Refreshes -> Thread]
    <3> DEFINE idle == [pc |-> "none", outcome |-> "", market |-> NoMarket, rows |-> "nothing"]
    <3>1. idle \in Thread
      BY DEF Thread, Writing
    <3>2. threads = [t \in Refreshes |-> idle]
      BY DEF Init
    <3> HIDE DEF idle
    <3> QED BY <3>1, <3>2
  <2>3. night \in Night /\ night.pc = "idle"
    <3>1. 1 \in 1..(Len(Markets) + 1)
      BY <1>1
    <3>2. night = NoNight
      BY DEF Init
    <3> QED BY <3>1, <3>2 DEF Night, NoNight, Writing
  <2>4. table \in [MarketNames -> 0..NightBuild]
    <3>1. 0 \in 0..NightBuild
      BY <1>1 DEF NightBuild
    <3> QED BY <3>1 DEF Init
  <2>5. started \in 0..MaxClicks
    <3>1. 0 \in 0..MaxClicks
      BY <1>1
    <3> QED BY <3>1 DEF Init
  <2>6. env \in [nights : 0..MaxNights, faults : 0..MaxFaults]
    <3>1. 0 \in 0..MaxNights /\ 0 \in 0..MaxFaults
      BY <1>1
    <3> QED BY <3>1 DEF Init
  <2> QED BY <2>1, <2>2, <2>3, <2>4, <2>5, <2>6 DEF TypeOK
<1>3. RecordInv
  <2>1. /\ started = 0 /\ ~state.running /\ ~state.finished
        /\ \A t \in Refreshes : threads[t].pc = "none"
        /\ \A m \in MarketNames : table[m] = 0
    BY DEF Init
  <2>2. \A t \in Refreshes : ~(t < 0) /\ t > 0
    BY <1>1 DEF Refreshes
  <2> QED BY <2>1, <2>2 DEF RecordInv
<1> QED BY <1>2, <1>3 DEF IInv

\* Which thread a step of a refresh belongs to, and what follows for the others.
LEMMA AtWork ==
    ASSUME IInv, NEW t \in Refreshes, threads[t].pc \in Working
    PROVE  t = started /\ started > 0 /\ state.running /\ ~state.finished
<1>1. t = started
  BY SnapshotRefreshAssumption DEF IInv, TypeOK, RecordInv, Refreshes, Working
<1> QED BY <1>1 DEF IInv, RecordInv, Last, Refreshes, Working, TypeOK

\* A step of the thread at work that leaves the record and the table alone.
LEMMA ThreadMoves ==
    ASSUME IInv, NEW t \in Refreshes, threads[t].pc \in {"build", "upsert"},
           NEW new, new \in Thread,
           new.pc \in {"upsert", "stored", "failed"},
           new.market = threads[t].market,
           threads' = [threads EXCEPT ![t] = new],
           UNCHANGED <<state, started>>,
           \A m \in MarketNames : table'[m] \in Refreshes => table'[m] = table[m] \/ table'[m] = t
    PROVE  RecordInv' /\ threads' \in [Refreshes -> Thread]
<1>1. t = started /\ started > 0 /\ state.running /\ ~state.finished
  BY AtWork DEF Working
<1>2. threads' \in [Refreshes -> Thread]
  BY DEF IInv, TypeOK
<1>3. /\ threads'[t] = new
      /\ \A q \in Refreshes : q # t => threads'[q] = threads[q]
  BY DEF IInv, TypeOK
<1>4. Last' = new
  BY <1>1, <1>3 DEF Last
<1>5. ~state.inserted /\ ~state.error /\ state.market = new.market
  BY <1>1 DEF IInv, RecordInv, Last
<1>6. started \in Nat /\ t \in Nat
  BY <1>1 DEF Refreshes
<1>7. \A m \in MarketNames : table'[m] \in Refreshes => table'[m] <= started
  BY <1>1, <1>6 DEF IInv, RecordInv
<1>8. /\ \A q \in Refreshes : q > started => threads'[q].pc = "none"
      /\ \A q \in Refreshes : q < started => threads'[q].pc = "done"
  BY <1>1, <1>3, <1>6 DEF IInv, RecordInv, Refreshes
<1> QED BY <1>1, <1>2, <1>4, <1>5, <1>7, <1>8 DEF RecordInv, Working

LEMMA ClickStep ==
    ASSUME IInv, NEW m \in MarketNames, Click(m)
    PROVE  IInv'
<1> DEFINE t == started + 1
           new == [threads[t] EXCEPT !.pc = "build", !.market = m]
<1> USE SnapshotRefreshAssumption
<1>1. t \in Refreshes /\ started \in Nat
  BY DEF Click, IInv, TypeOK, Refreshes
<1>2. new \in Thread /\ new.pc = "build" /\ new.market = m
  BY <1>1 DEF IInv, TypeOK, Thread, Working
<1>3. threads' = [threads EXCEPT ![t] = new]
  BY DEF Click
<1>4. started' = t /\ state' = Fresh(m) /\ ~state.running /\ UNCHANGED <<night, table, env>>
  BY DEF Click, MayStart
<1> HIDE DEF new
<1>5. threads' \in [Refreshes -> Thread]
  BY <1>2, <1>3 DEF IInv, TypeOK
<1>6. /\ threads'[t] = new
      /\ \A q \in Refreshes : q # t => threads'[q] = threads[q]
  BY <1>1, <1>3 DEF IInv, TypeOK
<1>7. TypeOK'
  BY <1>1, <1>4, <1>5 DEF IInv, TypeOK, Fresh, Record, Refreshes
<1>8. Last' = new
  BY <1>4, <1>6 DEF Last
<1>9. \A q \in Refreshes : q > t => threads'[q].pc = "none"
  BY <1>1, <1>6 DEF IInv, RecordInv, Refreshes
<1>10. \A q \in Refreshes : q < t => threads'[q].pc = "done"
  <2> SUFFICES ASSUME NEW q \in Refreshes, q < t PROVE threads[q].pc = "done"
    BY <1>1, <1>6 DEF Refreshes
  <2>1. CASE q < started
    BY <2>1 DEF IInv, RecordInv
  <2>2. CASE q = started
    BY <2>2, <1>4 DEF IInv, RecordInv, Last, Refreshes
  <2> QED BY <2>1, <2>2, <1>1 DEF Refreshes
<1>11. \A k \in MarketNames : table'[k] \in Refreshes => table'[k] <= t
  BY <1>1, <1>4 DEF IInv, RecordInv, Refreshes
<1>12. RecordInv'
  BY <1>1, <1>2, <1>4, <1>8, <1>9, <1>10, <1>11 DEF RecordInv, Fresh, Working
<1> QED BY <1>7, <1>12 DEF IInv

LEMMA BuildStep ==
    ASSUME IInv, NEW t \in Refreshes, NEW built \in Writing, Build(t, built)
    PROVE  IInv'
<1> DEFINE new == [threads[t] EXCEPT !.pc = "upsert", !.rows = built]
<1>1. new \in Thread /\ new.pc = "upsert" /\ new.market = threads[t].market
  BY DEF IInv, TypeOK, Thread, Working
<1>2. threads' = [threads EXCEPT ![t] = new]
  BY DEF Build
<1>3. threads[t].pc = "build" /\ UNCHANGED <<state, started, night, table, env>>
  BY DEF Build
<1> HIDE DEF new
<1>4. RecordInv' /\ threads' \in [Refreshes -> Thread]
  BY <1>1, <1>2, <1>3, ThreadMoves
<1> QED BY <1>3, <1>4 DEF IInv, TypeOK

LEMMA BuildRaisesStep ==
    ASSUME IInv, NEW t \in Refreshes, BuildRaises(t)
    PROVE  IInv'
<1> DEFINE new == [threads[t] EXCEPT !.pc = "failed"]
<1>1. new \in Thread /\ new.pc = "failed" /\ new.market = threads[t].market
  BY DEF IInv, TypeOK, Thread, Working
<1>2. threads' = [threads EXCEPT ![t] = new]
  BY DEF BuildRaises
<1>3. threads[t].pc = "build" /\ UNCHANGED <<state, started, night, table, env>>
  BY DEF BuildRaises
<1> HIDE DEF new
<1>4. RecordInv' /\ threads' \in [Refreshes -> Thread]
  BY <1>1, <1>2, <1>3, ThreadMoves
<1> QED BY <1>3, <1>4 DEF IInv, TypeOK

\* A fault stays within its bound.
LEMMA FaultIsCounted ==
    ASSUME IInv, Fault \/ UNCHANGED env
    PROVE  env' \in [nights : 0..MaxNights, faults : 0..MaxFaults]
BY SnapshotRefreshAssumption DEF IInv, TypeOK, Fault

LEMMA UpsertStep ==
    ASSUME IInv, NEW t \in Refreshes, Upsert(t)
    PROVE  IInv'
<1> PICK pc \in {"stored", "failed"} : threads' = [threads EXCEPT ![t].pc = pc]
  BY DEF Upsert
<1> DEFINE new == [threads[t] EXCEPT !.pc = pc]
<1>1. new \in Thread /\ new.pc = pc /\ new.market = threads[t].market
  BY DEF IInv, TypeOK, Thread, Working
<1>2. threads' = [threads EXCEPT ![t] = new]
  OBVIOUS
<1>3. threads[t].pc = "upsert" /\ UNCHANGED <<state, started, night>>
  BY DEF Upsert
<1>4. table' = table \/ table' = [table EXCEPT ![threads[t].market] = t]
  BY DEF Upsert
<1>5. /\ table' \in [MarketNames -> 0..NightBuild]
      /\ \A m \in MarketNames : table'[m] = table[m] \/ table'[m] = t
  <2>1. t \in 0..NightBuild
    BY SnapshotRefreshAssumption DEF Refreshes, NightBuild
  <2> QED BY <2>1, <1>4 DEF IInv, TypeOK
<1>6. env' \in [nights : 0..MaxNights, faults : 0..MaxFaults]
  BY FaultIsCounted DEF Upsert
<1> HIDE DEF new
<1>7. RecordInv' /\ threads' \in [Refreshes -> Thread]
  BY <1>1, <1>2, <1>3, <1>5, ThreadMoves
<1> QED BY <1>3, <1>5, <1>6, <1>7 DEF IInv, TypeOK

LEMMA ReportStep ==
    ASSUME IInv, NEW t \in Refreshes, Report(t)
    PROVE  IInv'
<1> DEFINE new == [threads[t] EXCEPT !.pc = "final", !.outcome = threads[t].pc]
<1>1. /\ threads[t].pc \in {"stored", "failed"}
      /\ UNCHANGED <<started, night, table, env>>
      /\ threads' = [threads EXCEPT ![t] = new]
      /\ state' = IF threads[t].pc = "stored" THEN [state EXCEPT !.inserted = TRUE]
                  ELSE [state EXCEPT !.error = TRUE]
  BY DEF Report
<1>2. new \in Thread /\ new.pc = "final" /\ new.market = threads[t].market
      /\ new.outcome = threads[t].pc
  BY <1>1 DEF IInv, TypeOK, Thread, Working
<1> HIDE DEF new
<1>3. t = started /\ started > 0 /\ state.running /\ ~state.finished
  BY <1>1, AtWork DEF Working
<1>4. ~state.inserted /\ ~state.error /\ state.market = new.market
  BY <1>1, <1>2, <1>3 DEF IInv, RecordInv, Last
<1>5. /\ state' \in Record
      /\ state'.running /\ ~state'.finished /\ state'.market = new.market
      /\ state'.inserted <=> new.outcome = "stored"
      /\ state'.error <=> new.outcome = "failed"
  BY <1>1, <1>2, <1>3, <1>4 DEF IInv, TypeOK, Record
<1>6. /\ threads' \in [Refreshes -> Thread]
      /\ threads'[t] = new
      /\ \A q \in Refreshes : q # t => threads'[q] = threads[q]
  BY <1>1, <1>2 DEF IInv, TypeOK
<1>7. Last' = new
  BY <1>1, <1>3, <1>6 DEF Last
<1>8. /\ \A q \in Refreshes : q > started => threads'[q].pc = "none"
      /\ \A q \in Refreshes : q < started => threads'[q].pc = "done"
  BY <1>3, <1>6 DEF IInv, RecordInv, Refreshes
<1>9. TypeOK'
  BY <1>1, <1>5, <1>6 DEF IInv, TypeOK
<1>10. \A m \in MarketNames : table'[m] \in Refreshes => table'[m] <= started'
  BY <1>1 DEF IInv, RecordInv
<1>11. RecordInv'
  BY <1>1, <1>2, <1>3, <1>5, <1>7, <1>8, <1>10 DEF RecordInv, Working
<1> QED BY <1>9, <1>11 DEF IInv

LEMMA FinishStep ==
    ASSUME IInv, NEW t \in Refreshes, Finish(t)
    PROVE  IInv'
<1> DEFINE new == [threads[t] EXCEPT !.pc = "done"]
<1>1. /\ threads[t].pc = "final"
      /\ UNCHANGED <<started, night, table, env>>
      /\ threads' = [threads EXCEPT ![t] = new]
      /\ state' = [state EXCEPT !.running = FALSE, !.finished = TRUE]
  BY DEF Finish
<1>2. new \in Thread /\ new.pc = "done" /\ new.market = threads[t].market
      /\ new.outcome = threads[t].outcome
  BY <1>1 DEF IInv, TypeOK, Thread, Working
<1> HIDE DEF new
<1>3. t = started /\ started > 0 /\ state.running /\ ~state.finished
  BY <1>1, AtWork DEF Working
<1>4. /\ state.market = new.market
      /\ state.inserted <=> new.outcome = "stored"
      /\ state.error <=> new.outcome = "failed"
  BY <1>1, <1>2, <1>3 DEF IInv, RecordInv, Last
<1>5. /\ state' \in Record
      /\ ~state'.running /\ state'.finished /\ state'.market = new.market
      /\ state'.inserted <=> new.outcome = "stored"
      /\ state'.error <=> new.outcome = "failed"
  BY <1>1, <1>2, <1>3, <1>4 DEF IInv, TypeOK, Record
<1>6. /\ threads' \in [Refreshes -> Thread]
      /\ threads'[t] = new
      /\ \A q \in Refreshes : q # t => threads'[q] = threads[q]
  BY <1>1, <1>2 DEF IInv, TypeOK
<1>7. Last' = new
  BY <1>1, <1>3, <1>6 DEF Last
<1>8. /\ \A q \in Refreshes : q > started => threads'[q].pc = "none"
      /\ \A q \in Refreshes : q < started => threads'[q].pc = "done"
  BY <1>3, <1>6 DEF IInv, RecordInv, Refreshes
<1>9. TypeOK'
  BY <1>1, <1>5, <1>6 DEF IInv, TypeOK
<1>10. \A m \in MarketNames : table'[m] \in Refreshes => table'[m] <= started'
  BY <1>1 DEF IInv, RecordInv
<1>11. RecordInv'
  BY <1>1, <1>2, <1>3, <1>5, <1>7, <1>8, <1>10 DEF RecordInv, Working
<1> QED BY <1>9, <1>11 DEF IInv

-----------------------------------------------------------------------------
\* The nightly job neither touches the record nor leaves a refresh's rows newer.

LEMMA NightLeavesRecord ==
    ASSUME IInv, UNCHANGED <<state, threads, started>>,
           \A m \in MarketNames : table'[m] = table[m] \/ table'[m] = NightBuild
    PROVE  RecordInv'
<1>1. NightBuild \notin Refreshes
  BY SnapshotRefreshAssumption DEF NightBuild, Refreshes
<1> QED BY <1>1 DEF IInv, RecordInv, Last

LEMMA OnToNextIsNight ==
    ASSUME NEW job \in Night, job.at <= Len(Markets)
    PROVE  LET next == OnToNext(job)
           IN  next \in Night /\ (next.pc \in {"build", "upsert"} => next.at <= Len(Markets))
<1>1. Len(Markets) \in Nat /\ Len(Markets) > 0
  BY SnapshotRefreshAssumption
<1>2. job.at \in 1..Len(Markets) /\ job.at + 1 \in 1..(Len(Markets) + 1)
  BY <1>1 DEF Night
<1>3. job.at # Len(Markets) => job.at + 1 <= Len(Markets)
  BY <1>1, <1>2
<1> QED BY <1>2, <1>3 DEF OnToNext, Night

LEMMA MarketIsNamed ==
    ASSUME IInv, night.pc \in {"build", "upsert"}
    PROVE  Market \in MarketNames /\ night.at <= Len(Markets) /\ night \in Night
<1>1. night.at \in 1..Len(Markets)
  BY SnapshotRefreshAssumption DEF IInv, TypeOK, Night
<1>2. night.at \in DOMAIN Markets
  BY <1>1, SnapshotRefreshAssumption
<1> QED BY <1>1, <1>2 DEF Market, MarketNames, IInv, TypeOK

LEMMA NightStep ==
    ASSUME IInv,
           Nightfall \/ NightBuildRaises \/ NightUpsert \/ NightEnds
             \/ \E built \in Writing : NightBuilds(built)
    PROVE  IInv'
<1> DEFINE NightOK(job) == job \in Night /\ (job.pc \in {"build", "upsert"} => job.at <= Len(Markets))
<1>1. UNCHANGED <<state, threads, started>>
  BY DEF Nightfall, NightBuildRaises, NightUpsert, NightEnds, NightBuilds
<1>2. /\ table' \in [MarketNames -> 0..NightBuild]
      /\ \A m \in MarketNames : table'[m] = table[m] \/ table'[m] = NightBuild
  <2>1. table' = table \/ table' = [table EXCEPT ![Market] = NightBuild]
    BY DEF Nightfall, NightBuildRaises, NightUpsert, NightEnds, NightBuilds
  <2>2. NightBuild \in 0..NightBuild
    BY SnapshotRefreshAssumption DEF NightBuild
  <2> QED BY <2>1, <2>2 DEF IInv, TypeOK
<1>3. env' \in [nights : 0..MaxNights, faults : 0..MaxFaults]
  <2>1. CASE Nightfall
    <3>1. env \in [nights : 0..MaxNights, faults : 0..MaxFaults]
      BY DEF IInv, TypeOK
    <3>2. env.nights + 1 \in 0..MaxNights
      BY <2>1, <3>1, SnapshotRefreshAssumption DEF Nightfall
    <3>3. env' = [env EXCEPT !.nights = @ + 1]
      BY <2>1 DEF Nightfall
    <3> QED BY <3>1, <3>2, <3>3
  <2>2. CASE Fault \/ UNCHANGED env
    BY <2>2, FaultIsCounted
  <2> QED BY <2>1, <2>2 DEF NightBuildRaises, NightUpsert, NightEnds, NightBuilds
<1>4. NightOK(night')
  <2>1. CASE Nightfall
    <3>1. 1 <= Len(Markets) /\ 1 \in 1..(Len(Markets) + 1)
      BY SnapshotRefreshAssumption
    <3>2. night' = [pc |-> "build", at |-> 1, rows |-> "nothing", broken |-> FALSE]
      BY <2>1 DEF Nightfall, NoNight
    <3>3. night' \in Night
      BY <3>1, <3>2 DEF Night, Writing
    <3> QED BY <3>1, <3>2, <3>3
  <2>2. CASE NightBuildRaises
    <3>1. night \in Night /\ night.at <= Len(Markets) /\ night' = OnToNext(night)
      BY <2>2, MarketIsNamed DEF NightBuildRaises
    <3> QED BY <3>1, OnToNextIsNight
  <2>3. CASE NightUpsert
    <3>1. night \in Night /\ night.at <= Len(Markets)
      BY <2>3, MarketIsNamed DEF NightUpsert
    <3> DEFINE refused == [night EXCEPT !.broken = TRUE]
    <3>2. night' = OnToNext(night) \/ night' = OnToNext(refused)
      BY <2>3 DEF NightUpsert
    <3>3. refused \in Night /\ refused.at = night.at
      BY <3>1 DEF Night
    <3> HIDE DEF refused
    <3> QED BY <3>1, <3>2, <3>3, OnToNextIsNight
  <2>4. CASE NightEnds
    <3>1. 1 \in 1..(Len(Markets) + 1)
      BY SnapshotRefreshAssumption
    <3> QED BY <2>4, <3>1 DEF NightEnds, NoNight, Night, Writing
  <2>5. CASE \E built \in Writing : NightBuilds(built)
    <3>1. PICK built \in Writing : NightBuilds(built)
      BY <2>5
    <3>2. Market \in MarketNames /\ night.at <= Len(Markets) /\ night \in Night
      BY <3>1, MarketIsNamed DEF NightBuilds
    <3>3. night' = [night EXCEPT !.pc = "upsert", !.rows = built] /\ built \in Writing
      BY <3>1 DEF NightBuilds
    <3> QED BY <3>2, <3>3 DEF Night
  <2> QED BY <2>1, <2>2, <2>3, <2>4, <2>5
<1>5. TypeOK'
  BY <1>1, <1>2, <1>3, <1>4 DEF IInv, TypeOK
<1>6. RecordInv'
  BY <1>1, <1>2, NightLeavesRecord
<1> QED BY <1>5, <1>6 DEF IInv

LEMMA InvStep == IInv /\ [Next]_vars => IInv'
<1> SUFFICES ASSUME IInv, [Next]_vars PROVE IInv'
  OBVIOUS
<1>1. ASSUME NEW m \in MarketNames, Click(m) PROVE IInv'
  BY <1>1, ClickStep
<1>2. ASSUME NEW t \in Refreshes, RefreshStep(t) PROVE IInv'
  BY <1>2, BuildStep, BuildRaisesStep, UpsertStep, ReportStep, FinishStep DEF RefreshStep
<1>3. CASE Nightfall \/ NightBuildRaises \/ NightUpsert \/ NightEnds
             \/ \E built \in Writing : NightBuilds(built)
  BY <1>3, NightStep
<1>4. CASE UNCHANGED vars
  BY <1>4 DEF vars, IInv, TypeOK, RecordInv, Last
<1> QED BY <1>1, <1>2, <1>3, <1>4 DEF Next

LEMMA Invariant == Spec => []IInv
BY InvInit, InvStep, PTL DEF Spec

-----------------------------------------------------------------------------
\* Types, for any number of markets, refreshes, nights and faults; the nightly job
\* never runs past its last market.
THEOREM RefreshTypes == Spec => []TypeOK
<1>1. IInv => TypeOK
  BY DEF IInv
<1> QED BY <1>1, Invariant, PTL

\* The record says running exactly while a refresh works, and it is the last one.
THEOREM PolledStateIsTrue == Spec => []RunningIsTrue
<1>1. IInv => RunningIsTrue
  <2> SUFFICES ASSUME IInv PROVE RunningIsTrue
    OBVIOUS
  <2>1. \A t \in Refreshes : threads[t].pc \in Working => t = started /\ state.running
    BY AtWork
  <2>2. state.running => started \in Refreshes /\ threads[started].pc \in Working
    BY SnapshotRefreshAssumption DEF IInv, TypeOK, RecordInv, Last, Refreshes
  <2> QED BY <2>1, <2>2 DEF RunningIsTrue
<1> QED BY <1>1, Invariant, PTL

\* What is polled after a refresh is that refresh's outcome.
THEOREM PolledOutcomeIsOwn == Spec => []OutcomeIsOwn
<1>1. IInv => OutcomeIsOwn
  BY DEF IInv, RecordInv, OutcomeIsOwn, Last
<1> QED BY <1>1, Invariant, PTL

\* No refresh overwrites the rows of a later one: only the last one writes.
THEOREM LaterRefreshAlwaysWins == Spec => LaterRefreshWins
<1> DEFINE Wins == \A m \in MarketNames : table[m] \in Refreshes /\ table'[m] \in Refreshes =>
                                             table'[m] >= table[m]
<1>1. ASSUME IInv, [Next]_vars PROVE Wins
  <2>1. \A m \in MarketNames : table[m] \in 0..NightBuild
    BY <1>1 DEF IInv, TypeOK
  <2>2. CASE table' = table
    BY <2>1, <2>2 DEF Refreshes
  <2>3. ASSUME NEW t \in Refreshes, Upsert(t) PROVE Wins
    <3>1. t = started
      BY <1>1, <2>3, AtWork DEF Upsert, Working
    <3>2. table' = table \/ table' = [table EXCEPT ![threads[t].market] = t]
      BY <2>3 DEF Upsert
    <3>3. \A m \in MarketNames : table'[m] = table[m] \/ table'[m] = t
      BY <1>1, <3>2 DEF IInv, TypeOK
    <3>4. \A m \in MarketNames : table[m] \in Refreshes => table[m] <= t
      BY <1>1, <3>1 DEF IInv, RecordInv
    <3> QED BY <3>3, <3>4 DEF Refreshes
  <2>4. CASE NightUpsert
    <3>1. table' = table \/ table' = [table EXCEPT ![Market] = NightBuild]
      BY <2>4 DEF NightUpsert
    <3>2. \A m \in MarketNames : table'[m] = table[m] \/ table'[m] = NightBuild
      BY <1>1, <3>1 DEF IInv, TypeOK
    <3>3. NightBuild \notin Refreshes
      BY SnapshotRefreshAssumption DEF NightBuild, Refreshes
    <3> QED BY <3>2, <3>3 DEF Refreshes
  <2> QED BY <1>1, <2>2, <2>3, <2>4
        DEF Next, vars, Click, RefreshStep, Build, BuildRaises, Report, Finish, Nightfall,
            NightBuilds, NightBuildRaises, NightEnds
<1>2. Spec => [][Wins]_vars
  BY <1>1, Invariant, PTL DEF Spec
<1> QED BY <1>2 DEF LaterRefreshWins

-----------------------------------------------------------------------------
(***************************************************************************)
(* The follow-up of a scan (AutoSopBatch).                                 *)
(***************************************************************************)

\* One entry's turn, and the loop that is left for the mails.
Turns == {"render", "store", "refresh", "final", "commit", "reread", "append"}
Looping == {"load", "analyze", "turn"} \cup Turns

SopShapes ==
  /\ step \in Sop!Steps /\ entries \in 0..TopN /\ at \in 1..(TopN + 1)
  /\ analysis \in [Sop!Ranks -> {"none", "waiting", "running", "ready", "failed"}]
  /\ session \in {"fresh", "aborted", "expired", "broken"}
  /\ reports \in [Sop!Ranks -> {"none", "draft", "final", "deleted"}]
  /\ fate \in [Sop!Ranks -> Sop!Fates]

SopLists ==
  /\ ids \in Seq(Sop!Ranks) /\ bundle \in Seq(Sop!Ranks) /\ delivered \in Seq(Sop!Ranks)
  /\ Len(ids) <= TopN /\ Len(bundle) <= TopN

SopTroubles == trouble \in [sql : Nat, deletes : Nat]

\* The pool has ended before the session is used, with an answer for every entry.
PoolInv ==
  /\ step \in {"load", "analyze"} => at = 1
  /\ step = "load" => entries = 0 /\ \A r \in Sop!Ranks : analysis[r] = "none" /\ fate[r] = "pending"
  /\ step \notin {"load", "analyze"} => \A r \in Sop!Ranks : analysis[r] \notin {"waiting", "running"}
  /\ \A r \in Sop!Ranks : r <= entries <=> analysis[r] # "none"
  /\ step \in Turns => at <= entries /\ analysis[at] = "ready"

\* What is listed has had its turn.
ListInv ==
  /\ Sop!Precedes(ids)
  /\ step \in Looping => Len(ids) < at /\ \A i \in 1..Len(ids) : ids[i] < at
  /\ \A i \in 1..Len(ids) : reports[ids[i]] # "none"
  /\ step \in {"refresh", "final", "commit", "reread", "append"} => reports[at] # "none"

\* The bundle follows the list.
BundleInv ==
  /\ Sop!Precedes(bundle)
  /\ step \in Looping => bundle = <<>>
  /\ step = "reload" => /\ Len(bundle) < at
                        /\ \A i \in 1..Len(bundle) : \E j \in 1..Len(ids) : j < at /\ bundle[i] = ids[j]
  /\ \A i \in 1..Len(bundle) : \E j \in 1..Len(ids) : bundle[i] = ids[j]

\* The mails follow the bundle.
MailInv ==
  /\ step \in Looping \cup {"reload", "dispatch"} => delivered = <<>>
  /\ step = "mail" => Len(delivered) = at - 1
  /\ step = "end" /\ trouble.sql = 0 => delivered = <<>> \/ Len(delivered) = Len(bundle)
  /\ Len(delivered) <= Len(bundle) /\ \A i \in 1..Len(delivered) : delivered[i] = bundle[i]

Quiet == trouble.sql = 0 /\ trouble.deletes = 0
Bundled(r) == \E i \in 1..Len(bundle) : bundle[i] = r
Listed(r) == \E i \in 1..Len(ids) : ids[i] = r

\* While the database serves everything, an entry's fate is its own.
FateOf(r) ==
  /\ reports[r] # "deleted"
  /\ fate[r] = "listed" <=> Listed(r)
  /\ analysis[r] \in {"none", "waiting", "running"} => fate[r] = "pending"
  /\ analysis[r] = "failed" => fate[r] = "not analysed"
  /\ analysis[r] = "ready" /\ step \in Looping /\ at <= r => fate[r] = "pending"
  /\ analysis[r] = "ready" /\ ~(step \in Looping /\ at <= r) => fate[r] \in {"listed", "not rendered"}

FateInv ==
  Quiet =>
    /\ session \in {"fresh", "expired"} /\ step # "lost"
    /\ \A r \in Sop!Ranks : FateOf(r)

\* Whatever fails or is deleted, what is listed and still stored is in the bundle.
InBundle(r) == Bundled(r) \/ reports[r] = "deleted"
WholeInv ==
  /\ step = "reload" => \A j \in 1..Len(ids) : j < at => InBundle(ids[j])
  /\ step \in {"dispatch", "mail", "end"} => \A j \in 1..Len(ids) : InBundle(ids[j])

SopInv == SopShapes /\ SopLists /\ SopTroubles /\ PoolInv /\ ListInv /\ BundleInv /\ MailInv /\ FateInv /\ WholeInv

-----------------------------------------------------------------------------
LEMMA TopNNat == TopN \in Nat
BY ServerJobsAssumption DEF Sop!AutoSopAssumption

\* A failed statement, or a deleted report, is trouble for good.
LEMMA FaultsAreTrouble ==
  ASSUME SopTroubles, Sop!SqlFault
  PROVE  SopTroubles' /\ ~Quiet'
BY DEF SopTroubles, Sop!SqlFault, Quiet

LEMMA CalmStays ==
  ASSUME UNCHANGED trouble
  PROVE  (SopTroubles => SopTroubles') /\ (Quiet' <=> Quiet)
BY DEF SopTroubles, Quiet

\* A rank put behind smaller ones keeps the order.
LEMMA AppendKeepsOrder ==
  ASSUME NEW s \in Seq(Sop!Ranks), NEW r \in Sop!Ranks, Sop!Precedes(s),
         \A i \in 1..Len(s) : s[i] < r
  PROVE  /\ Append(s, r) \in Seq(Sop!Ranks) /\ Len(Append(s, r)) = Len(s) + 1
         /\ \A i \in 1..Len(s) : Append(s, r)[i] = s[i]
         /\ Append(s, r)[Len(s) + 1] = r
         /\ Sop!Precedes(Append(s, r))
<1>1. /\ Append(s, r) \in Seq(Sop!Ranks) /\ Len(Append(s, r)) = Len(s) + 1
      /\ \A i \in 1..Len(s) : Append(s, r)[i] = s[i]
      /\ Append(s, r)[Len(s) + 1] = r
      /\ Len(s) \in Nat
  OBVIOUS
<1>2. ASSUME NEW i \in 1..Len(Append(s, r)), NEW j \in 1..Len(Append(s, r)), i < j
      PROVE  Append(s, r)[i] < Append(s, r)[j]
  <2>1. i \in 1..Len(s)
    BY <1>1, <1>2
  <2>2. CASE j \in 1..Len(s)
    BY <1>1, <1>2, <2>1, <2>2 DEF Sop!Precedes
  <2>3. CASE j = Len(s) + 1
    BY <1>1, <2>1, <2>3
  <2> QED
    BY <1>1, <2>2, <2>3
<1> QED
  BY <1>1, <1>2 DEF Sop!Precedes

\* The rank whose turn it is.
LEMMA RankOfTurn ==
  ASSUME SopInv, step \in Turns
  PROVE  /\ at \in Sop!Ranks /\ at + 1 \in 1..(TopN + 1) /\ ~(at + 1 <= at) /\ step \in Looping
         /\ analysis[at] = "ready" /\ at <= entries
         /\ step \notin {"load", "analyze", "turn", "reload", "dispatch", "mail", "end", "lost"}
         /\ Len(ids) < at + 1 /\ \A i \in 1..Len(ids) : ids[i] < at + 1
         /\ Quiet => fate[at] = "pending" /\ ~Listed(at)
<1>1. at \in Sop!Ranks /\ at + 1 \in 1..(TopN + 1) /\ ~(at + 1 <= at)
  BY TopNNat DEF SopInv, SopShapes, PoolInv, Sop!Ranks
<1>2. step \in Looping /\ step \notin {"load", "analyze", "turn", "reload", "dispatch", "mail", "end", "lost"}
  BY DEF Looping, Turns
<1>3. analysis[at] = "ready" /\ at <= entries
  BY DEF SopInv, PoolInv
<1>4. Len(ids) < at + 1 /\ \A i \in 1..Len(ids) : ids[i] < at + 1
  <2>1. at \in Nat /\ Len(ids) \in Nat /\ \A i \in 1..Len(ids) : ids[i] \in Nat
    <3>1. Len(ids) \in Nat /\ \A i \in 1..Len(ids) : ids[i] \in Sop!Ranks
      BY DEF SopInv, SopLists
    <3> QED
      BY <1>1, <3>1 DEF Sop!Ranks
  <2>2. Len(ids) < at /\ \A i \in 1..Len(ids) : ids[i] < at
    BY <1>2 DEF SopInv, ListInv
  <2> QED
    BY <2>1, <2>2
<1>5. at <= at
  BY <1>1 DEF Sop!Ranks
<1>6. Quiet => fate[at] = "pending" /\ ~Listed(at)
  BY <1>1, <1>2, <1>3, <1>5 DEF SopInv, FateInv, FateOf
<1> QED
  BY <1>1, <1>2, <1>3, <1>4, <1>6

\* A step that touches neither the reports nor the turn leaves every fate as it is.
LEMMA FateStays ==
  ASSUME UNCHANGED <<at, analysis, reports, ids, fate>>,
         step' \in Looping <=> step \in Looping,
         NEW r, FateOf(r)
  PROVE  FateOf(r)'
BY DEF FateOf, Listed

\* A turn that is over leaves the fates of the other ranks as they are.
LEMMA OthersFateStays ==
  ASSUME SopInv, step \in {"turn"} \cup Turns, step' = "turn", at' = at + 1,
         UNCHANGED <<analysis, reports, ids>>,
         NEW r \in Sop!Ranks, r # at, fate'[r] = fate[r], FateOf(r)
  PROVE  FateOf(r)'
<1>1. at <= r <=> at' <= r
  BY DEF SopInv, SopShapes, Sop!Ranks
<1>2. step \in Looping /\ step' \in Looping
  BY DEF Looping
<1> QED
  BY <1>1, <1>2 DEF FateOf, Listed

\* After the loop nobody's fate depends on the turn.
LEMMA FateIsSettled ==
  ASSUME UNCHANGED <<analysis, reports, ids, fate>>, step \notin Looping, step' \notin Looping,
         NEW r, FateOf(r)
  PROVE  FateOf(r)'
BY DEF FateOf, Listed

\* What is listed before a turn is listed before the next.
LEMMA ListedBefore ==
  ASSUME SopInv, \A i \in 1..Len(ids) : ids[i] < at, at' = at + 1, UNCHANGED ids
  PROVE  \A i \in 1..Len(ids') : ids'[i] < at'
<1>1. \A i \in 1..Len(ids) : ids[i] \in Sop!Ranks
  BY DEF SopInv, SopLists
<1> QED
  BY <1>1 DEF SopInv, SopShapes, Sop!Ranks

LEMMA SopLoadStep ==
  ASSUME SopInv, Sop!Load
  PROVE  SopInv'
<1>1. SopShapes'
  BY TopNNat DEF SopInv, SopShapes, Sop!Load, Sop!Lost, Sop!SqlFault, Sop!Steps
<1>2. SopLists'
  BY DEF SopInv, SopLists, Sop!Load
<1>3. SopTroubles'
  BY FaultsAreTrouble, CalmStays DEF SopInv, Sop!Load, Sop!Lost
<1>4. PoolInv'
  BY TopNNat DEF SopInv, SopShapes, PoolInv, Sop!Load, Sop!Lost, Turns, Sop!Ranks
<1>5. ListInv'
  BY DEF SopInv, SopShapes, SopLists, ListInv, PoolInv, Sop!Load, Sop!Lost, Turns, Looping, Sop!Precedes
<1>6. BundleInv'
  BY DEF SopInv, BundleInv, Sop!Load, Sop!Lost, Turns, Looping, Sop!Precedes
<1>7. MailInv'
  BY DEF SopInv, MailInv, Sop!Load, Sop!Lost, Turns, Looping
<1>8. FateInv'
  <2> SUFFICES ASSUME Quiet'
               PROVE  FateInv'
    BY DEF FateInv
  <2>1. UNCHANGED trouble /\ UNCHANGED <<at, session, reports, ids, fate>> /\ Quiet
    BY FaultsAreTrouble, CalmStays DEF SopInv, Sop!Load, Sop!Lost
  <2>2. step' \in {"end", "analyze"} /\ \A r \in Sop!Ranks : analysis'[r] \in {"waiting", "none"}
    BY <2>1, FaultsAreTrouble DEF SopInv, Sop!Load, Sop!Lost
  <2>3. \A r \in Sop!Ranks : analysis[r] = "none" /\ fate[r] = "pending"
    BY DEF SopInv, PoolInv, Sop!Load
  <2>4. ASSUME NEW r \in Sop!Ranks
        PROVE  FateOf(r)'
    BY <2>1, <2>2, <2>3 DEF SopInv, FateInv, FateOf, Listed
  <2> QED
    BY <2>1, <2>2, <2>4 DEF SopInv, FateInv
<1>9. WholeInv'
  BY DEF SopInv, SopLists, PoolInv, ListInv, SopShapes, Sop!Load, Sop!Lost, WholeInv, Looping
<1> QED
  BY <1>1, <1>2, <1>3, <1>4, <1>5, <1>6, <1>7, <1>8, <1>9 DEF SopInv

LEMMA SopTakeStep ==
  ASSUME SopInv, NEW r \in Sop!Ranks, Sop!Take(r)
  PROVE  SopInv'
<1>1. SopShapes'
  BY DEF SopInv, SopShapes, Sop!Take
<1>2. SopLists' /\ SopTroubles' /\ ListInv' /\ BundleInv' /\ MailInv' /\ WholeInv'
  BY DEF SopInv, SopLists, SopTroubles, ListInv, BundleInv, MailInv, WholeInv, InBundle, Bundled, Sop!Take
<1>3. analysis[r] = "waiting"
  BY DEF Sop!Take, Sop!With
<1>4. analysis' = [analysis EXCEPT ![r] = "running"] /\ UNCHANGED <<step, entries, at, session, reports, ids, fate, trouble>>
  BY DEF Sop!Take
<1>5. PoolInv'
  BY <1>3, <1>4 DEF SopInv, SopShapes, PoolInv, Turns, Sop!Ranks
<1>6. FateInv'
  <2> SUFFICES ASSUME Quiet'
               PROVE  FateInv'
    BY DEF FateInv
  <2>1. Quiet
    BY <1>4, CalmStays
  <2>2. ASSUME NEW s \in Sop!Ranks
        PROVE  FateOf(s)'
    BY <1>3, <1>4, <2>1, <2>2 DEF SopInv, SopShapes, FateInv, FateOf, Listed
  <2> QED
    BY <1>4, <2>1, <2>2 DEF SopInv, FateInv
<1> QED
  BY <1>1, <1>2, <1>5, <1>6 DEF SopInv

LEMMA SopAnalyzeStep ==
  ASSUME SopInv, NEW r \in Sop!Ranks, Sop!Analyze(r)
  PROVE  SopInv'
<1>1. analysis[r] = "running" /\ UNCHANGED <<step, entries, at, session, reports, ids, bundle, delivered, trouble>>
  BY DEF Sop!Analyze, Sop!Analyzed, Sop!With
<1>2. PICK answer \in {"ready", "failed"} : analysis' = [analysis EXCEPT ![r] = answer]
  BY DEF Sop!Analyze, Sop!Analyzed
<1>3. \/ answer = "ready" /\ fate' = fate
      \/ answer = "failed" /\ fate' = [fate EXCEPT ![r] = "not analysed"]
  BY <1>2 DEF Sop!Analyze, Sop!Analyzed, SopInv, SopShapes
<1>4. step = "analyze" /\ at = 1
  BY <1>1 DEF SopInv, PoolInv
<1>5. SopShapes'
  BY <1>1, <1>2, <1>3 DEF SopInv, SopShapes, Sop!Fates
<1>6. SopLists' /\ SopTroubles' /\ ListInv' /\ BundleInv' /\ MailInv' /\ WholeInv'
  BY <1>1 DEF SopInv, SopLists, SopTroubles, ListInv, BundleInv, MailInv, WholeInv, InBundle, Bundled
<1>7. PoolInv'
  BY <1>1, <1>2, <1>4 DEF SopInv, SopShapes, PoolInv, Turns, Sop!Ranks
<1>8. FateInv'
  <2> SUFFICES ASSUME Quiet'
               PROVE  FateInv'
    BY DEF FateInv
  <2>1. Quiet
    BY <1>1, CalmStays
  <2>2. fate[r] = "pending" /\ ~Listed(r)
    BY <1>1, <2>1 DEF SopInv, FateInv, FateOf
  <2>3. step' \in Looping /\ at' <= r
    BY <1>1, <1>4 DEF Looping, Sop!Ranks
  <2>4. FateOf(r)'
    <3>1. reports' = reports /\ reports[r] # "deleted" /\ (Listed(r)' <=> Listed(r))
      BY <1>1, <2>1 DEF SopInv, FateInv, FateOf, Listed
    <3>2. analysis'[r] = answer /\ fate'[r] = IF answer = "ready" THEN fate[r] ELSE "not analysed"
      BY <1>2, <1>3 DEF SopInv, SopShapes
    <3>3. fate'[r] \in {"pending", "not analysed"} /\ ~Listed(r)'
      BY <2>2, <3>1, <3>2
    <3> QED
      BY <1>2, <2>2, <2>3, <3>1, <3>2, <3>3 DEF FateOf
  <2>5. ASSUME NEW s \in Sop!Ranks, s # r
        PROVE  FateOf(s)'
    <3>1. FateOf(s)
      BY <2>1 DEF SopInv, FateInv
    <3>2. analysis'[s] = analysis[s] /\ fate'[s] = fate[s]
      BY <1>2, <1>3, <2>5 DEF SopInv, SopShapes
    <3> QED
      BY <1>1, <3>1, <3>2 DEF FateOf, Listed
  <2> QED
    BY <1>1, <2>1, <2>4, <2>5 DEF SopInv, FateInv
<1> QED
  BY <1>5, <1>6, <1>7, <1>8 DEF SopInv

LEMMA SopGatherStep ==
  ASSUME SopInv, Sop!Gather
  PROVE  SopInv'
<1>1. step = "analyze" /\ step' = "turn" /\ UNCHANGED <<entries, at, analysis, session, reports, ids, bundle, delivered, fate, trouble>>
  BY DEF Sop!Gather
<1>2. \A r \in Sop!Ranks : analysis[r] \notin {"waiting", "running"}
  BY DEF Sop!Gather, Sop!AllAnalyzed, Sop!With
<1>3. SopShapes' /\ SopLists' /\ SopTroubles'
  BY <1>1 DEF SopInv, SopShapes, SopLists, SopTroubles, Sop!Steps
<1>4. PoolInv'
  BY <1>1, <1>2 DEF SopInv, PoolInv, Turns
<1>5. ListInv' /\ BundleInv' /\ MailInv' /\ WholeInv'
  BY <1>1 DEF SopInv, ListInv, BundleInv, MailInv, WholeInv, Looping
<1>6. FateInv'
  <2>1. \A r \in Sop!Ranks : FateOf(r) => FateOf(r)'
    BY <1>1 DEF FateOf, Listed, Looping
  <2> QED
    BY <1>1, <2>1 DEF SopInv, FateInv, Quiet
<1> QED
  BY <1>3, <1>4, <1>5, <1>6 DEF SopInv

LEMMA SopTurnStep ==
  ASSUME SopInv, Sop!Turn
  PROVE  SopInv'
<1>1. step = "turn" /\ at <= entries /\ at \in Sop!Ranks /\ at + 1 \in 1..(TopN + 1)
      /\ UNCHANGED <<entries, analysis, session, reports, ids, bundle, delivered, fate>>
  BY TopNNat DEF Sop!Turn, SopInv, SopShapes, Sop!Ranks
<1>2. CASE analysis[at] = "failed" /\ at' = at + 1 /\ UNCHANGED <<step, trouble>>
  <2>1. SopShapes' /\ SopLists' /\ SopTroubles'
    BY <1>1, <1>2 DEF SopInv, SopShapes, SopLists, SopTroubles
  <2>2. PoolInv' /\ BundleInv' /\ MailInv' /\ WholeInv'
    BY <1>1, <1>2 DEF SopInv, PoolInv, BundleInv, MailInv, WholeInv, Turns, Looping
  <2>3. ListInv'
    <3>1. step \in Looping /\ at + 1 \in Nat /\ Len(ids) \in Nat /\ at \in Nat
      BY <1>1 DEF Looping, SopInv, SopShapes, SopLists
    <3>2. Len(ids') < at' /\ \A i \in 1..Len(ids') : ids'[i] < at'
      BY <1>1, <1>2, <3>1, ListedBefore DEF SopInv, ListInv
    <3> QED
      BY <1>1, <1>2, <3>2 DEF SopInv, ListInv
  <2>4. FateInv'
    <3> SUFFICES ASSUME Quiet'
                 PROVE  FateInv'
      BY DEF FateInv
    <3>1. Quiet
      BY <1>2, CalmStays
    <3>2. ASSUME NEW r \in Sop!Ranks
          PROVE  FateOf(r)'
      <4>1. FateOf(r)
        BY <3>1 DEF SopInv, FateInv
      <4>2. CASE r = at
        BY <1>1, <1>2, <4>1, <4>2 DEF FateOf, Listed
      <4>3. CASE r # at
        BY <1>1, <1>2, <4>1, <4>3, OthersFateStays
      <4> QED
        BY <4>2, <4>3
    <3> QED
      BY <1>1, <1>2, <3>1, <3>2 DEF SopInv, FateInv
  <2> QED
    BY <2>1, <2>2, <2>3, <2>4 DEF SopInv
<1>3. CASE /\ analysis[at] = "ready" /\ session # "broken" /\ step' = "render"
           /\ UNCHANGED <<at, trouble>>
  <2>1. SopShapes' /\ SopLists' /\ SopTroubles'
    BY <1>1, <1>3 DEF SopInv, SopShapes, SopLists, SopTroubles, Sop!Steps
  <2>2. PoolInv' /\ ListInv' /\ BundleInv' /\ MailInv' /\ WholeInv'
    BY <1>1, <1>3 DEF SopInv, PoolInv, ListInv, BundleInv, MailInv, WholeInv, Turns, Looping
  <2>3. step \in Looping /\ step' \in Looping
    BY <1>1, <1>3 DEF Looping, Turns
  <2>4. FateInv'
    BY <1>1, <1>3, <2>3, FateStays DEF SopInv, FateInv, Quiet
  <2> QED
    BY <2>1, <2>2, <2>4 DEF SopInv
<1>4. CASE step' = "lost" /\ UNCHANGED at /\ ((session = "broken" /\ UNCHANGED trouble) \/ Sop!SqlFault)
  <2>1. SopShapes' /\ SopLists' /\ SopTroubles'
    BY <1>1, <1>4, FaultsAreTrouble DEF SopInv, SopShapes, SopLists, SopTroubles, Sop!Steps
  <2>2. PoolInv' /\ ListInv' /\ BundleInv' /\ MailInv'
    BY <1>1, <1>4 DEF SopInv, PoolInv, ListInv, BundleInv, MailInv, Turns, Looping
  <2>3. ~Quiet'
    BY <1>4, FaultsAreTrouble, CalmStays DEF SopInv, FateInv
  <2> QED
    BY <1>4, <2>1, <2>2, <2>3 DEF SopInv, FateInv, WholeInv
<1> QED
  BY <1>2, <1>3, <1>4 DEF Sop!Turn, Sop!Entry, Sop!Lost

\* What a turn that ends without a report leaves, whatever ends it.
LEMMA SopSkipStep ==
  ASSUME SopInv, step \in Turns, NEW why \in {"not rendered", "not stored"}, Sop!Skip(at, why),
         UNCHANGED <<entries, analysis, reports, ids, bundle, delivered>>,
         session' \in {"fresh", "aborted", "expired", "broken"}, SopTroubles',
         Quiet' => Quiet /\ why = "not rendered" /\ session' = session
  PROVE  SopInv'
<1>1. /\ at \in Sop!Ranks /\ at + 1 \in 1..(TopN + 1) /\ ~(at + 1 <= at) /\ step \in Looping
      /\ analysis[at] = "ready" /\ at <= entries
      /\ step \notin {"load", "analyze", "turn", "reload", "dispatch", "mail", "end", "lost"}
      /\ Len(ids) < at + 1 /\ \A i \in 1..Len(ids) : ids[i] < at + 1
  BY RankOfTurn
<1>2. step' = "turn" /\ at' = at + 1 /\ fate' = [fate EXCEPT ![at] = why]
  BY DEF Sop!Skip
<1>3. SopShapes'
  BY <1>1, <1>2 DEF SopInv, SopShapes, Sop!Steps, Sop!Fates
<1>4. SopLists' /\ PoolInv' /\ BundleInv' /\ MailInv'
  BY <1>1, <1>2 DEF SopInv, SopLists, PoolInv, BundleInv, MailInv, Turns, Looping
<1>5. ListInv'
  BY <1>1, <1>2 DEF SopInv, ListInv
<1>6. FateInv'
  <2> SUFFICES ASSUME Quiet'
               PROVE  FateInv'
    BY DEF FateInv
  <2>1. Quiet /\ why = "not rendered" /\ session' = session
    OBVIOUS
  <2>2. fate[at] = "pending" /\ ~Listed(at) /\ FateOf(at)
    BY <1>1, <2>1, RankOfTurn DEF SopInv, FateInv
  <2>3. fate'[at] = "not rendered" /\ ~(at' <= at)
    BY <1>1, <1>2, <2>1 DEF SopInv, SopShapes
  <2>4. ASSUME NEW r \in Sop!Ranks
        PROVE  FateOf(r)'
    <3>1. FateOf(r)
      BY <2>1 DEF SopInv, FateInv
    <3>2. CASE r = at
      BY <1>1, <2>2, <2>3, <3>1, <3>2 DEF FateOf, Listed
    <3>3. CASE r # at
      <4>1. fate'[r] = fate[r]
        BY <1>2, <3>3 DEF SopInv, SopShapes
      <4> QED
        BY <1>2, <3>1, <3>3, <4>1, OthersFateStays
    <3> QED
      BY <3>2, <3>3
  <2> QED
    BY <1>2, <2>1, <2>4 DEF SopInv, FateInv
<1>7. WholeInv'
  BY <1>2 DEF WholeInv
<1> QED
  BY <1>3, <1>4, <1>5, <1>6, <1>7 DEF SopInv

LEMMA SopRenderStep ==
  ASSUME SopInv, Sop!Render
  PROVE  SopInv'
<1>1. step \in Turns /\ UNCHANGED <<entries, analysis, session, reports, ids, bundle, delivered, trouble>>
  BY DEF Sop!Render, Turns
<1>2. CASE Sop!Skip(at, "not rendered")
  BY <1>1, <1>2, SopSkipStep, CalmStays DEF SopInv, SopShapes
<1>3. CASE step' = "store" /\ UNCHANGED <<at, fate>>
  <2>1. step' \in Turns /\ step \in Looping /\ step' \in Looping
    BY <1>1, <1>3 DEF Turns, Looping
  <2>2. SopShapes' /\ SopLists' /\ SopTroubles'
    BY <1>1, <1>3 DEF SopInv, SopShapes, SopLists, SopTroubles, Sop!Steps
  <2>3. PoolInv' /\ ListInv' /\ BundleInv' /\ MailInv' /\ WholeInv'
    BY <1>1, <1>3, <2>1 DEF SopInv, PoolInv, ListInv, BundleInv, MailInv, WholeInv, Turns
  <2>4. FateInv'
    BY <1>1, <1>3, <2>1, FateStays DEF SopInv, FateInv, Quiet
  <2> QED
    BY <2>2, <2>3, <2>4 DEF SopInv
<1> QED
  BY <1>2, <1>3 DEF Sop!Render, Sop!Entry

LEMMA SopStoreStep ==
  ASSUME SopInv, Sop!Store
  PROVE  SopInv'
<1>1. step = "store" /\ step \in Turns /\ UNCHANGED <<entries, analysis, ids, bundle, delivered>>
  BY DEF Sop!Store, Turns
<1>2. CASE /\ session' = "broken" /\ Sop!Skip(at, "not stored") /\ UNCHANGED reports
           /\ Sop!SqlFault \/ (session = "aborted" /\ UNCHANGED trouble)
  <2>1. SopTroubles' /\ ~Quiet'
    BY <1>2, FaultsAreTrouble, CalmStays DEF SopInv, FateInv
  <2> QED
    BY <1>1, <1>2, <2>1, SopSkipStep
<1>3. CASE /\ session # "aborted" /\ reports' = [reports EXCEPT ![at] = "draft"]
           /\ session' = "expired" /\ step' = "refresh" /\ UNCHANGED <<at, fate, trouble>>
  <2>1. at \in Sop!Ranks /\ step \in Looping /\ step' \in Looping /\ step' \in Turns
    BY <1>1, <1>3, RankOfTurn DEF Turns, Looping
  <2>2. SopShapes' /\ SopLists' /\ SopTroubles'
    BY <1>1, <1>3, <2>1 DEF SopInv, SopShapes, SopLists, SopTroubles, Sop!Steps
  <2>3. reports'[at] = "draft" /\ \A r \in Sop!Ranks : reports'[r] = reports[r] \/ reports'[r] = "draft"
    BY <1>3, <2>1 DEF SopInv, SopShapes
  <2>4. ListInv'
    <3>1. \A i \in 1..Len(ids) : ids[i] \in Sop!Ranks
      BY DEF SopInv, SopLists
    <3> QED
      BY <1>1, <1>3, <2>1, <2>3, <3>1 DEF SopInv, ListInv
  <2>5. PoolInv' /\ BundleInv' /\ MailInv' /\ WholeInv'
    BY <1>1, <1>3, <2>1 DEF SopInv, PoolInv, BundleInv, MailInv, WholeInv
  <2>6. ASSUME NEW r \in Sop!Ranks, FateOf(r)
        PROVE  FateOf(r)'
    BY <1>1, <1>3, <2>1, <2>3, <2>6 DEF FateOf, Listed
  <2>7. FateInv'
    BY <1>1, <1>3, <2>6, CalmStays DEF SopInv, FateInv
  <2> QED
    BY <2>2, <2>4, <2>5, <2>7 DEF SopInv
<1> QED
  BY <1>2, <1>3 DEF Sop!Store, Sop!Entry

\* A step of a turn that leaves the rows alone, or ends a follow-up that is in trouble.
LEMMA InsideTurn ==
  ASSUME SopInv, step \in Turns, step' \in {"final", "commit", "append", "reread", "lost"},
         step \in {"refresh", "final", "commit", "reread"},
         UNCHANGED <<entries, at, analysis, ids, bundle, delivered, fate>>,
         reports' = reports \/ (reports' = [reports EXCEPT ![at] = "final"] /\ reports[at] # "deleted"),
         session' \in {"fresh", "aborted", "expired", "broken"}, SopTroubles',
         Quiet' => Quiet /\ session' = session /\ step' # "lost"
  PROVE  SopInv'
<1>1. at \in Sop!Ranks /\ step \in Looping
  BY RankOfTurn
<1>2. SopShapes'
  BY <1>1 DEF SopInv, SopShapes, Sop!Steps
<1>3. SopLists'
  BY DEF SopInv, SopLists
<1>4. PoolInv'
  BY DEF SopInv, PoolInv, Turns
<1>5. \A r \in Sop!Ranks : reports'[r] = reports[r] \/ (reports'[r] = "final" /\ r = at)
  BY <1>1 DEF SopInv, SopShapes
<1>6. reports[at] # "none"
  BY DEF SopInv, ListInv
<1>7. ListInv'
  <2>1. \A i \in 1..Len(ids) : ids[i] \in Sop!Ranks
    BY DEF SopInv, SopLists
  <2>2. step' # "lost" => step' \in Looping
    BY DEF Looping, Turns
  <2>3. step' \in Looping => step' # "lost"
    BY DEF Looping, Turns
  <2> QED
    BY <1>1, <1>5, <1>6, <2>1 DEF SopInv, ListInv
<1>8. BundleInv' /\ MailInv' /\ WholeInv'
  BY <1>1 DEF SopInv, BundleInv, MailInv, WholeInv
<1>9. FateInv'
  <2> SUFFICES ASSUME Quiet'
               PROVE  FateInv'
    BY DEF FateInv
  <2>1. Quiet /\ session' = session /\ step' # "lost"
    OBVIOUS
  <2>2. step' \in Looping
    BY <2>1 DEF Looping, Turns
  <2>3. ASSUME NEW r \in Sop!Ranks
        PROVE  FateOf(r)'
    <3>1. FateOf(r)
      BY <2>1 DEF SopInv, FateInv
    <3>2. reports'[r] # "deleted"
      BY <1>5, <3>1 DEF FateOf
    <3> QED
      BY <1>1, <2>2, <3>1, <3>2 DEF FateOf, Listed
  <2> QED
    BY <2>1, <2>3 DEF SopInv, FateInv
<1> QED
  BY <1>2, <1>3, <1>4, <1>7, <1>8, <1>9 DEF SopInv

LEMMA SopRefreshStep ==
  ASSUME SopInv, Sop!Refresh
  PROVE  SopInv'
<1>1. step = "refresh" /\ step \in Turns /\ UNCHANGED <<entries, analysis, reports, ids, bundle, delivered>>
  BY DEF Sop!Refresh, Turns
<1>2. at \in Sop!Ranks
  BY <1>1, RankOfTurn
<1>3. CASE step' = "final" /\ UNCHANGED <<at, session, fate, trouble>>
  BY <1>1, <1>3, InsideTurn, CalmStays DEF SopInv, SopShapes
<1>4. CASE reports[at] = "deleted" /\ Sop!Skip(at, "not stored") /\ UNCHANGED <<session, trouble>>
  <2>1. ~Quiet
    BY <1>2, <1>4 DEF SopInv, FateInv, FateOf
  <2> QED
    BY <1>1, <1>4, <2>1, SopSkipStep, CalmStays DEF SopInv, SopShapes
<1>5. CASE Sop!SqlFault /\ session' = "broken" /\ Sop!Skip(at, "not stored")
  BY <1>1, <1>5, SopSkipStep, FaultsAreTrouble DEF SopInv
<1> QED
  BY <1>3, <1>4, <1>5 DEF Sop!Refresh, Sop!Entry

LEMMA SopFinalRenderStep ==
  ASSUME SopInv, Sop!FinalRender
  PROVE  SopInv'
<1>1. step = "final" /\ step \in Turns /\ step' \in {"commit", "append"}
      /\ UNCHANGED <<entries, at, analysis, session, reports, ids, bundle, delivered, fate, trouble>>
  BY DEF Sop!FinalRender, Turns
<1> QED
  BY <1>1, InsideTurn, CalmStays DEF SopInv, SopShapes

LEMMA SopFinalCommitStep ==
  ASSUME SopInv, Sop!FinalCommit
  PROVE  SopInv'
<1>1. step = "commit" /\ step \in Turns /\ UNCHANGED <<entries, at, analysis, ids, bundle, delivered, fate>>
  BY DEF Sop!FinalCommit, Turns
<1>2. at \in Sop!Ranks
  BY <1>1, RankOfTurn
<1>3. CASE /\ reports[at] # "deleted" /\ reports' = [reports EXCEPT ![at] = "final"]
           /\ step' = "reread" /\ UNCHANGED <<session, trouble>>
  BY <1>1, <1>3, InsideTurn, CalmStays DEF SopInv, SopShapes
<1>4. CASE reports[at] = "deleted" /\ step' = "lost" /\ session' = "broken" /\ UNCHANGED <<reports, trouble>>
  <2>1. ~Quiet
    BY <1>2, <1>4 DEF SopInv, FateInv, FateOf
  <2> QED
    BY <1>1, <1>4, <2>1, InsideTurn, CalmStays DEF SopInv
<1>5. CASE Sop!SqlFault /\ session' = "broken" /\ step' \in {"append", "lost"} /\ UNCHANGED reports
  BY <1>1, <1>5, InsideTurn, FaultsAreTrouble DEF SopInv
<1> QED
  BY <1>3, <1>4, <1>5 DEF Sop!FinalCommit, Sop!Entry

LEMMA SopRereadStep ==
  ASSUME SopInv, Sop!Reread
  PROVE  SopInv'
<1>1. step = "reread" /\ step \in Turns
      /\ UNCHANGED <<entries, at, analysis, session, reports, ids, bundle, delivered, fate>>
  BY DEF Sop!Reread, Turns
<1>2. at \in Sop!Ranks
  BY <1>1, RankOfTurn
<1>3. CASE step' = "append" /\ UNCHANGED trouble
  BY <1>1, <1>3, InsideTurn, CalmStays DEF SopInv, SopShapes
<1>4. CASE reports[at] = "deleted" /\ step' = "lost" /\ UNCHANGED trouble
  <2>1. ~Quiet
    BY <1>2, <1>4 DEF SopInv, FateInv, FateOf
  <2> QED
    BY <1>1, <1>4, <2>1, InsideTurn, CalmStays DEF SopInv, SopShapes
<1>5. CASE Sop!SqlFault /\ step' = "lost"
  BY <1>1, <1>5, InsideTurn, FaultsAreTrouble DEF SopInv, SopShapes
<1> QED
  BY <1>3, <1>4, <1>5 DEF Sop!Reread, Sop!Entry, Sop!Lost

LEMMA SopListReportStep ==
  ASSUME SopInv, Sop!ListReport
  PROVE  SopInv'
<1>1. step = "append" /\ step \in Turns /\ ids' = Append(ids, at)
      /\ UNCHANGED <<entries, analysis, session, reports, bundle, delivered, trouble>>
      /\ step' = "turn" /\ at' = at + 1 /\ fate' = [fate EXCEPT ![at] = "listed"]
  BY DEF Sop!ListReport, Turns, Sop!Entry, Sop!Skip
<1>2. /\ at \in Sop!Ranks /\ at + 1 \in 1..(TopN + 1) /\ ~(at + 1 <= at) /\ step \in Looping
      /\ analysis[at] = "ready" /\ at <= entries
      /\ \A i \in 1..Len(ids) : ids[i] < at + 1
      /\ (Quiet => fate[at] = "pending" /\ ~Listed(at))
  BY <1>1, RankOfTurn
<1>3. /\ ids \in Seq(Sop!Ranks) /\ Sop!Precedes(ids)
      /\ Len(ids) < at /\ \A i \in 1..Len(ids) : ids[i] < at
      /\ reports[at] # "none" /\ \A i \in 1..Len(ids) : reports[ids[i]] # "none"
  BY <1>1, <1>2 DEF SopInv, SopLists, ListInv
<1>4. /\ ids' \in Seq(Sop!Ranks) /\ Len(ids') = Len(ids) + 1
      /\ \A i \in 1..Len(ids) : ids'[i] = ids[i]
      /\ ids'[Len(ids) + 1] = at
      /\ Sop!Precedes(ids')
  BY <1>1, <1>2, <1>3, AppendKeepsOrder
<1>5. Len(ids) \in Nat /\ Len(ids) + 1 < at + 1 /\ Len(ids) + 1 <= TopN /\ at < at + 1
  BY <1>2, <1>3, TopNNat DEF Sop!Ranks
<1>6. \A i \in 1..Len(ids') : i \in 1..Len(ids) \/ i = Len(ids) + 1
  BY <1>4, <1>5
<1>7. SopShapes'
  BY <1>1, <1>2 DEF SopInv, SopShapes, Sop!Steps, Sop!Fates
<1>8. SopLists' /\ SopTroubles'
  BY <1>1, <1>4, <1>5 DEF SopInv, SopLists, SopTroubles
<1>9. PoolInv' /\ BundleInv' /\ MailInv'
  <2>1. bundle = <<>> /\ delivered = <<>>
    BY <1>2 DEF SopInv, BundleInv, MailInv
  <2> QED
    BY <1>1, <1>2, <2>1 DEF SopInv, PoolInv, BundleInv, MailInv, Turns, Looping
<1>10. ListInv'
  <2>1. \A i \in 1..Len(ids') : ids'[i] < at' /\ reports'[ids'[i]] # "none"
    BY <1>1, <1>2, <1>3, <1>4, <1>5, <1>6
  <2>2. Len(ids') < at'
    BY <1>1, <1>4, <1>5
  <2> QED
    BY <1>1, <1>4, <2>1, <2>2 DEF ListInv
<1>11. FateInv'
  <2> SUFFICES ASSUME Quiet'
               PROVE  FateInv'
    BY DEF FateInv
  <2>1. Quiet
    BY <1>1, CalmStays
  <2>2. ASSUME NEW r \in Sop!Ranks
        PROVE  Listed(r)' <=> Listed(r) \/ r = at
    <3>1. Len(ids) + 1 \in 1..Len(ids') /\ \A i \in 1..Len(ids) : i \in 1..Len(ids')
      BY <1>4, <1>5
    <3> QED
      BY <1>4, <1>6, <3>1 DEF Listed
  <2>3. ASSUME NEW r \in Sop!Ranks
        PROVE  FateOf(r)'
    <3>1. FateOf(r)
      BY <2>1 DEF SopInv, FateInv
    <3>2. step' \in Looping /\ (at' <= r => at <= r /\ r # at) /\ (at <= r /\ r # at => at' <= r)
      <4>1. at \in Nat /\ r \in Nat
        BY <1>2 DEF Sop!Ranks
      <4>2. step' \in Looping
        BY <1>1 DEF Looping
      <4> QED
        BY <1>1, <4>1, <4>2
    <3>3. fate'[r] = IF r = at THEN "listed" ELSE fate[r]
      BY <1>1 DEF SopInv, SopShapes
    <3> QED
      BY <1>1, <1>2, <2>2, <3>1, <3>2, <3>3 DEF FateOf
  <2> QED
    BY <1>1, <2>1, <2>3 DEF SopInv, FateInv
<1>12. WholeInv'
  BY <1>1 DEF WholeInv
<1> QED
  BY <1>7, <1>8, <1>9, <1>10, <1>11, <1>12 DEF SopInv

LEMMA SopReturnStep ==
  ASSUME SopInv, Sop!Return
  PROVE  SopInv'
<1>1. step = "turn" /\ entries < at /\ at' = 1
      /\ UNCHANGED <<entries, analysis, session, reports, ids, bundle, delivered, fate, trouble>>
  BY DEF Sop!Return, SopInv, SopShapes
<1>2. (step' = "reload" /\ ids # <<>>) \/ (step' = "end" /\ ids = <<>>)
  BY DEF Sop!Return
<1>3. bundle = <<>> /\ delivered = <<>> /\ step \in Looping /\ step' \notin Looping /\ step' \notin Turns
  BY <1>1, <1>2 DEF SopInv, BundleInv, MailInv, Looping, Turns
<1>4. SopShapes' /\ SopLists' /\ SopTroubles'
  BY <1>1, <1>2, TopNNat DEF SopInv, SopShapes, SopLists, SopTroubles, Sop!Steps
<1>5. PoolInv' /\ ListInv' /\ MailInv'
  BY <1>1, <1>2, <1>3 DEF SopInv, PoolInv, ListInv, MailInv
<1>6. BundleInv'
  BY <1>1, <1>2, <1>3 DEF SopInv, BundleInv
<1>7. WholeInv'
  BY <1>1, <1>2, <1>3 DEF SopInv, SopLists, WholeInv
<1>8. FateInv'
  <2> SUFFICES ASSUME Quiet'
               PROVE  FateInv'
    BY DEF FateInv
  <2>1. Quiet
    BY <1>1, CalmStays
  <2>2. ASSUME NEW r \in Sop!Ranks
        PROVE  FateOf(r)'
    <3>1. FateOf(r)
      BY <2>1 DEF SopInv, FateInv
    <3>2. analysis[r] = "ready" => ~(at <= r)
      <4>1. r \in Nat /\ at \in Nat /\ entries \in Nat /\ (analysis[r] # "none" => r <= entries)
        BY DEF SopInv, SopShapes, PoolInv, Sop!Ranks
      <4> QED
        BY <1>1, <4>1
    <3> QED
      BY <1>1, <1>3, <3>1, <3>2 DEF FateOf, Listed
  <2> QED
    BY <1>1, <1>2, <2>1, <2>2 DEF SopInv, FateInv
<1> QED
  BY <1>4, <1>5, <1>6, <1>7, <1>8 DEF SopInv

\* After the loop the parts that speak of it are as they were.
LEMMA AfterLoop ==
  ASSUME SopInv, step \in {"reload", "dispatch", "mail"},
         step' \in {"reload", "dispatch", "mail", "end", "lost"},
         UNCHANGED <<entries, analysis, session, reports, ids, fate>>, SopTroubles',
         at' \in 1..(TopN + 1), Quiet' => Quiet /\ step' # "lost"
  PROVE  SopShapes' /\ PoolInv' /\ ListInv' /\ FateInv'
<1>1. step \notin Looping /\ step' \notin Looping /\ step' \notin Turns
  BY DEF Looping, Turns
<1>2. SopShapes'
  BY DEF SopInv, SopShapes, Sop!Steps
<1>3. PoolInv' /\ ListInv'
  BY <1>1 DEF SopInv, PoolInv, ListInv
<1>4. FateInv'
  BY <1>1, FateIsSettled DEF SopInv, FateInv
<1> QED
  BY <1>2, <1>3, <1>4

LEMMA SopReloadStep ==
  ASSUME SopInv, Sop!Reload
  PROVE  SopInv'
<1>1. step = "reload" /\ UNCHANGED <<entries, analysis, session, reports, ids, delivered, fate>>
  BY DEF Sop!Reload
<1>2. /\ ids \in Seq(Sop!Ranks) /\ bundle \in Seq(Sop!Ranks) /\ Len(ids) \in Nat /\ Len(bundle) \in Nat
      /\ Len(ids) <= TopN /\ Len(bundle) <= TopN /\ at \in Nat /\ at \in 1..(TopN + 1)
      /\ \A i \in 1..Len(ids) : ids[i] \in Sop!Ranks
      /\ \A i \in 1..Len(bundle) : bundle[i] \in Sop!Ranks
  BY DEF SopInv, SopLists, SopShapes
<1>3. /\ Sop!Precedes(bundle) /\ Len(bundle) < at
      /\ \A i \in 1..Len(bundle) : \E j \in 1..Len(ids) : j < at /\ bundle[i] = ids[j]
      /\ Sop!Precedes(ids) /\ delivered = <<>>
  BY <1>1 DEF SopInv, BundleInv, ListInv, MailInv
<1>4. CASE /\ at <= Len(ids) /\ at' = at + 1 /\ UNCHANGED <<step, trouble>>
           /\ bundle' = IF Sop!Kept(ids[at]) THEN Append(bundle, ids[at]) ELSE bundle
  <2>1. at \in 1..Len(ids) /\ at + 1 \in 1..(TopN + 1) /\ Len(bundle) + 1 <= TopN
    BY <1>2, <1>3, <1>4, TopNNat
  <2>2. SopShapes' /\ SopTroubles' /\ PoolInv' /\ ListInv' /\ FateInv'
    BY <1>1, <1>4, <2>1, AfterLoop, CalmStays DEF SopInv
  <2>3. \A i \in 1..Len(bundle) : bundle[i] < ids[at]
    BY <1>2, <1>3, <2>1 DEF Sop!Precedes
  <2>4. CASE ~Sop!Kept(ids[at])
    <3>1. SopLists' /\ MailInv'
      BY <1>1, <1>3, <1>4, <2>4 DEF SopInv, SopLists, MailInv
    <3>2. BundleInv'
      <4>1. Len(bundle) < at + 1 /\ \A j \in 1..Len(ids) : j < at => j < at + 1
        BY <1>2, <1>3
      <4> QED
        BY <1>1, <1>3, <1>4, <2>4, <4>1 DEF BundleInv, Looping, Turns
    <3>3. WholeInv'
      <4>1. reports[ids[at]] = "deleted"
        BY <2>4 DEF Sop!Kept
      <4>2. \A j \in 1..Len(ids) : j < at + 1 => j < at \/ j = at
        BY <1>2
      <4> QED
        BY <1>1, <1>4, <2>4, <4>1, <4>2 DEF SopInv, WholeInv, InBundle, Bundled
    <3> QED
      BY <2>2, <3>1, <3>2, <3>3 DEF SopInv
  <2>5. CASE Sop!Kept(ids[at])
    <3>1. /\ bundle' \in Seq(Sop!Ranks) /\ Len(bundle') = Len(bundle) + 1
          /\ \A i \in 1..Len(bundle) : bundle'[i] = bundle[i]
          /\ bundle'[Len(bundle) + 1] = ids[at]
          /\ Sop!Precedes(bundle')
      BY <1>2, <1>3, <1>4, <2>1, <2>3, <2>5, AppendKeepsOrder
    <3>2. \A i \in 1..Len(bundle') : i \in 1..Len(bundle) \/ i = Len(bundle) + 1
      BY <1>2, <3>1
    <3>3. SopLists'
      BY <1>1, <1>2, <2>1, <3>1 DEF SopInv, SopLists
    <3>4. MailInv'
      BY <1>1, <1>2, <1>3, <1>4, <3>1 DEF MailInv
    <3>5. BundleInv'
      <4>1. Len(bundle') < at' /\ at < at' /\ \A j \in 1..Len(ids) : j < at => j < at'
        BY <1>2, <1>3, <1>4, <3>1
      <4>2. \A i \in 1..Len(bundle') : \E j \in 1..Len(ids) : j < at' /\ bundle'[i] = ids[j]
        BY <1>3, <2>1, <3>1, <3>2, <4>1
      <4> QED
        BY <1>1, <1>4, <3>1, <4>1, <4>2 DEF BundleInv, Looping, Turns
    <3>6. WholeInv'
      <4> SUFFICES ASSUME NEW j \in 1..Len(ids), j < at + 1
                   PROVE  InBundle(ids[j])'
        BY <1>1, <1>4 DEF WholeInv, InBundle, Bundled
      <4>1. Len(bundle) + 1 \in 1..Len(bundle') /\ \A i \in 1..Len(bundle) : i \in 1..Len(bundle')
        BY <1>2, <3>1
      <4>2. CASE j = at
        BY <1>1, <3>1, <4>1, <4>2 DEF InBundle, Bundled
      <4>3. CASE j # at
        <5>1. j < at
          BY <1>2, <4>3
        <5>2. InBundle(ids[j])
          BY <1>1, <5>1 DEF SopInv, WholeInv
        <5> QED
          BY <1>1, <3>1, <4>1, <5>2 DEF InBundle, Bundled
      <4> QED
        BY <4>2, <4>3
    <3> QED
      BY <2>2, <3>3, <3>4, <3>5, <3>6 DEF SopInv
  <2> QED
    BY <2>4, <2>5
<1>5. CASE /\ Len(ids) < at /\ UNCHANGED <<at, bundle, trouble>>
           /\ step' = IF bundle = <<>> THEN "end" ELSE "dispatch"
  <2>1. SopShapes' /\ SopTroubles' /\ PoolInv' /\ ListInv' /\ FateInv'
    BY <1>1, <1>2, <1>5, AfterLoop, CalmStays DEF SopInv
  <2>2. SopLists' /\ MailInv' /\ BundleInv'
    BY <1>1, <1>5 DEF SopInv, SopLists, MailInv, BundleInv, Looping, Turns
  <2>3. \A j \in 1..Len(ids) : j < at
    BY <1>2, <1>5
  <2>4. WholeInv'
    BY <1>1, <1>5, <2>3 DEF SopInv, WholeInv, InBundle, Bundled
  <2> QED
    BY <2>1, <2>2, <2>4 DEF SopInv
<1>6. CASE Sop!SqlFault /\ step' = "lost" /\ UNCHANGED <<at, bundle>>
  <2>1. SopShapes' /\ SopTroubles' /\ PoolInv' /\ ListInv' /\ FateInv'
    BY <1>1, <1>2, <1>6, AfterLoop, FaultsAreTrouble DEF SopInv
  <2>2. SopLists' /\ MailInv' /\ BundleInv' /\ WholeInv'
    BY <1>1, <1>6, FaultsAreTrouble DEF SopInv, SopLists, MailInv, BundleInv, WholeInv, Looping, Turns
  <2> QED
    BY <2>1, <2>2 DEF SopInv
<1> QED
  <2>1. at > Len(ids) <=> Len(ids) < at
    BY <1>2
  <2> QED
    BY <1>4, <1>5, <1>6, <2>1 DEF Sop!Reload, Sop!Lost

LEMMA SopDispatchStep ==
  ASSUME SopInv, Sop!Dispatch
  PROVE  SopInv'
<1>1. step = "dispatch" /\ step' \in {"mail", "end"} /\ at' = 1
      /\ UNCHANGED <<entries, analysis, session, reports, ids, bundle, delivered, fate>>
  BY DEF Sop!Dispatch
<1>2. SopTroubles' /\ (Quiet' => Quiet)
  BY FaultsAreTrouble, CalmStays DEF Sop!Dispatch, SopInv
<1>3. at' \in 1..(TopN + 1)
  BY <1>1, TopNNat
<1>4. SopShapes' /\ PoolInv' /\ ListInv' /\ FateInv'
  BY <1>1, <1>2, <1>3, AfterLoop
<1>5. SopLists' /\ BundleInv'
  BY <1>1 DEF SopInv, SopLists, BundleInv, Looping, Turns
<1>6. MailInv'
  BY <1>1 DEF SopInv, MailInv, Looping, Turns
<1>7. WholeInv'
  BY <1>1 DEF SopInv, WholeInv, InBundle, Bundled
<1> QED
  BY <1>2, <1>4, <1>5, <1>6, <1>7 DEF SopInv

LEMMA SopMailStep ==
  ASSUME SopInv, Sop!Mail
  PROVE  SopInv'
<1>1. step = "mail" /\ UNCHANGED <<entries, analysis, session, reports, ids, bundle, fate>>
  BY DEF Sop!Mail
<1>2. SopTroubles' /\ (Quiet' => Quiet)
  BY FaultsAreTrouble, CalmStays DEF Sop!Mail, SopInv
<1>3. /\ bundle \in Seq(Sop!Ranks) /\ delivered \in Seq(Sop!Ranks) /\ Len(bundle) \in Nat /\ Len(delivered) \in Nat
      /\ Len(bundle) <= TopN /\ at \in Nat /\ at \in 1..(TopN + 1)
      /\ Len(delivered) = at - 1
      /\ \A i \in 1..Len(delivered) : delivered[i] = bundle[i]
      /\ \A i \in 1..Len(bundle) : bundle[i] \in Sop!Ranks
  BY <1>1 DEF SopInv, SopLists, SopShapes, MailInv
<1>4. CASE at <= Len(bundle) /\ delivered' = Append(delivered, bundle[at]) /\ at' = at + 1 /\ UNCHANGED step
  <2>1. at \in 1..Len(bundle) /\ at + 1 \in 1..(TopN + 1)
    BY <1>3, <1>4, TopNNat
  <2>2. SopShapes' /\ PoolInv' /\ ListInv' /\ FateInv'
    BY <1>1, <1>2, <1>4, <2>1, AfterLoop
  <2>3. /\ delivered' \in Seq(Sop!Ranks) /\ Len(delivered') = Len(delivered) + 1
        /\ \A i \in 1..Len(delivered) : delivered'[i] = delivered[i]
        /\ delivered'[Len(delivered) + 1] = bundle[at]
    BY <1>3, <1>4, <2>1
  <2>4. Len(delivered) + 1 = at
    BY <1>3
  <2>5. \A i \in 1..Len(delivered') : delivered'[i] = bundle[i]
    BY <1>3, <2>3, <2>4
  <2>6. SopLists' /\ BundleInv' /\ WholeInv'
    <3>1. SopLists'
      BY <1>1, <2>3 DEF SopInv, SopLists
    <3> QED
      BY <1>1, <1>4, <3>1 DEF SopInv, BundleInv, WholeInv, InBundle, Bundled
  <2>7. MailInv'
    <3>1. Len(delivered') = at' - 1 /\ Len(delivered') <= Len(bundle)
      BY <1>3, <1>4, <2>3
    <3> QED
      BY <1>1, <1>4, <2>5, <3>1 DEF MailInv, Looping, Turns
  <2> QED
    BY <1>2, <2>2, <2>6, <2>7 DEF SopInv
<1>5. CASE /\ step' = "end" /\ UNCHANGED <<at, delivered>>
           /\ (at > Len(bundle) /\ UNCHANGED trouble) \/ Sop!SqlFault
  <2>1. SopShapes' /\ PoolInv' /\ ListInv' /\ FateInv'
    BY <1>1, <1>2, <1>3, <1>5, AfterLoop
  <2>2. SopLists' /\ BundleInv' /\ WholeInv'
    BY <1>1, <1>5 DEF SopInv, SopLists, BundleInv, WholeInv, InBundle, Bundled, Looping, Turns
  <2>3. MailInv'
    <3>1. trouble'.sql = 0 => Len(delivered) = Len(bundle)
      <4>1. CASE at > Len(bundle)
        <5>1. Len(delivered) <= Len(bundle) /\ Len(delivered) \in Nat
          BY <1>3 DEF SopInv, MailInv
        <5> QED
          BY <1>3, <4>1, <5>1
      <4>2. CASE Sop!SqlFault
        BY <4>2 DEF SopInv, SopTroubles, Sop!SqlFault
      <4> QED
        BY <1>5, <4>1, <4>2
    <3> QED
      BY <1>1, <1>5, <3>1 DEF SopInv, MailInv, Looping, Turns
  <2> QED
    BY <1>2, <2>1, <2>2, <2>3 DEF SopInv
<1> QED
  BY <1>4, <1>5 DEF Sop!Mail

LEMMA SopDeleteReportStep ==
  ASSUME SopInv, NEW r \in Sop!Ranks, Sop!DeleteReport(r)
  PROVE  SopInv'
<1>1. reports' = [reports EXCEPT ![r] = "deleted"]
      /\ UNCHANGED <<step, entries, at, analysis, session, ids, bundle, delivered, fate>>
  BY DEF Sop!DeleteReport
<1>2. SopTroubles' /\ ~Quiet'
  BY DEF Sop!DeleteReport, SopInv, SopTroubles, Quiet
<1>3. SopShapes' /\ SopLists' /\ PoolInv' /\ BundleInv'
  BY <1>1 DEF SopInv, SopShapes, SopLists, PoolInv, BundleInv
<1>5. MailInv'
  <2>1. trouble'.sql = trouble.sql
    BY DEF Sop!DeleteReport, SopInv, SopTroubles
  <2> QED
    BY <1>1, <2>1 DEF SopInv, MailInv
<1>6. WholeInv'
  <2>1. \A i \in 1..Len(ids) : InBundle(ids[i]) => InBundle(ids[i])'
    <3>1. \A i \in 1..Len(ids) : ids[i] \in Sop!Ranks
      BY DEF SopInv, SopLists
    <3> QED
      BY <1>1, <3>1 DEF SopInv, SopShapes, InBundle, Bundled
  <2> QED
    BY <1>1, <2>1 DEF SopInv, WholeInv
<1>4. ListInv'
  <2>1. \A s \in Sop!Ranks : reports[s] # "none" => reports'[s] # "none"
    BY <1>1 DEF SopInv, SopShapes
  <2>2. \A i \in 1..Len(ids) : ids[i] \in Sop!Ranks
    BY DEF SopInv, SopLists
  <2>3. step \in Turns => at \in Sop!Ranks
    BY RankOfTurn
  <2>4. step \in {"refresh", "final", "commit", "reread", "append"} => step \in Turns
    BY DEF Turns
  <2> QED
    BY <1>1, <2>1, <2>2, <2>3, <2>4 DEF SopInv, ListInv
<1> QED
  BY <1>2, <1>3, <1>4, <1>5, <1>6 DEF SopInv, FateInv

LEMMA SopInit ==
  ASSUME Sop!Init
  PROVE  SopInv
<1>1. SopShapes /\ SopTroubles
  BY TopNNat DEF Sop!Init, SopShapes, SopTroubles, Sop!Steps, Sop!Fates
<1>2. SopLists
  BY TopNNat DEF Sop!Init, SopLists
<1>3. PoolInv
  BY TopNNat DEF Sop!Init, PoolInv, Turns, Sop!Ranks
<1>4. ListInv /\ BundleInv /\ MailInv
  BY DEF Sop!Init, ListInv, BundleInv, MailInv, Sop!Precedes
<1>5. FateInv /\ WholeInv
  BY DEF Sop!Init, FateInv, FateOf, Listed, WholeInv
<1> QED
  BY <1>1, <1>2, <1>3, <1>4, <1>5 DEF SopInv

LEMMA SopStep ==
  ASSUME SopInv, [Sop!Next]_(Sop!vars)
  PROVE  SopInv'
<1>1. CASE UNCHANGED Sop!vars
  <2>1. /\ UNCHANGED <<step, entries, at, analysis, session, reports>>
        /\ UNCHANGED <<ids, bundle, delivered, fate, trouble>>
    BY <1>1 DEF Sop!vars
  <2>2. SopShapes' /\ SopLists' /\ SopTroubles' /\ PoolInv' /\ ListInv' /\ BundleInv' /\ MailInv'
    BY <2>1 DEF SopInv, SopShapes, SopLists, SopTroubles, PoolInv, ListInv, BundleInv, MailInv
  <2>3. \A r \in Sop!Ranks : FateOf(r) => FateOf(r)'
    BY <2>1, FateStays
  <2>4. FateInv' /\ WholeInv'
    BY <2>1, <2>3, CalmStays DEF SopInv, FateInv, WholeInv, InBundle, Bundled
  <2> QED
    BY <2>2, <2>4 DEF SopInv
<1>2. CASE Sop!Worker
  BY <1>2, SopTakeStep, SopAnalyzeStep DEF Sop!Worker
<1>3. CASE Sop!FollowUp
  BY <1>3, SopLoadStep, SopGatherStep, SopTurnStep, SopRenderStep, SopStoreStep, SopRefreshStep, SopFinalRenderStep,
     SopFinalCommitStep, SopRereadStep, SopListReportStep, SopReturnStep, SopReloadStep, SopDispatchStep, SopMailStep DEF Sop!FollowUp
<1>4. CASE \E r \in Sop!Ranks : Sop!DeleteReport(r)
  BY <1>4, SopDeleteReportStep
<1> QED
  BY <1>1, <1>2, <1>3, <1>4 DEF Sop!Next

\* What a follow-up promises in every state follows from the invariant.
LEMMA SopInvIsSound ==
  ASSUME SopInv
  PROVE  Sop!TypeOK /\ Sop!RankOrderKept /\ Sop!SessionHasOneThread /\ Sop!OwnFailuresOnly
<1>1. /\ ids \in Seq(Sop!Ranks) /\ bundle \in Seq(Sop!Ranks) /\ delivered \in Seq(Sop!Ranks)
      /\ Len(ids) \in Nat /\ Len(bundle) \in Nat /\ Len(delivered) \in Nat
      /\ \A i \in 1..Len(ids) : ids[i] \in Nat
  <2>1. ids \in Seq(Sop!Ranks) /\ bundle \in Seq(Sop!Ranks) /\ delivered \in Seq(Sop!Ranks)
    BY DEF SopInv, SopLists
  <2>2. \A r \in Sop!Ranks : r \in Nat
    BY DEF Sop!Ranks
  <2> QED
    BY <2>1, <2>2
<1>2. DOMAIN ids = 1..Len(ids) /\ DOMAIN bundle = 1..Len(bundle) /\ DOMAIN delivered = 1..Len(delivered)
  BY <1>1
<1>3. Sop!Precedes(ids) /\ Sop!Precedes(bundle)
  BY DEF SopInv, ListInv, BundleInv
<1>4. /\ \A i \in 1..Len(bundle) : \E j \in 1..Len(ids) : bundle[i] = ids[j]
      /\ Len(delivered) <= Len(bundle) /\ \A i \in 1..Len(delivered) : delivered[i] = bundle[i]
      /\ \A i \in 1..Len(ids) : reports[ids[i]] # "none"
  BY DEF SopInv, ListInv, BundleInv, MailInv
<1>5. Sop!TypeOK
  <2>1. Sop!IsInjective(ids)
    <3>1. ASSUME NEW i \in 1..Len(ids), NEW j \in 1..Len(ids), ids[i] = ids[j]
          PROVE  i = j
      <4>1. CASE i < j
        BY <1>1, <1>3, <3>1, <4>1 DEF Sop!Precedes
      <4>2. CASE j < i
        BY <1>1, <1>3, <3>1, <4>2 DEF Sop!Precedes
      <4> QED
        BY <1>1, <4>1, <4>2
    <3> QED
      BY <1>2, <3>1 DEF Sop!IsInjective
  <2>2. Sop!ToSet(delivered) \subseteq Sop!ToSet(bundle) \cup Sop!ToSet(ids) /\ Sop!ToSet(bundle) \subseteq Sop!ToSet(ids)
    <3>1. \A i \in 1..Len(delivered) : i \in 1..Len(bundle)
      BY <1>1, <1>4
    <3>2. \A x \in Sop!ToSet(delivered) : x \in Sop!ToSet(bundle)
      BY <1>2, <1>4, <3>1 DEF Sop!ToSet
    <3>3. \A x \in Sop!ToSet(bundle) : x \in Sop!ToSet(ids)
      BY <1>2, <1>4 DEF Sop!ToSet
    <3> QED
      BY <3>2, <3>3
  <2>3. \A r \in Sop!ToSet(ids) : reports[r] # "none"
    BY <1>2, <1>4 DEF Sop!ToSet
  <2> QED
    BY <2>1, <2>2, <2>3 DEF Sop!TypeOK, SopInv, SopShapes
<1>6. Sop!RankOrderKept
  <2>1. Sop!Precedes(delivered)
    BY <1>1, <1>3, <1>4 DEF Sop!Precedes
  <2> QED
    BY <1>3, <2>1 DEF Sop!RankOrderKept
<1>7. Sop!SessionHasOneThread
  BY DEF Sop!SessionHasOneThread, Sop!With, SopInv, PoolInv
<1>8. Sop!OwnFailuresOnly
  <2> SUFFICES ASSUME Sop!Over, trouble = [sql |-> 0, deletes |-> 0], NEW r \in 1..entries
               PROVE  /\ fate[r] = "listed" <=> analysis[r] = "ready" /\ fate[r] # "not rendered"
                      /\ fate[r] = "listed" => r \in Sop!ToSet(bundle)
    BY DEF Sop!OwnFailuresOnly
  <2>1. Quiet
    BY DEF Quiet
  <2>2. step = "end" /\ step \notin Looping
    BY <2>1 DEF Sop!Over, SopInv, FateInv, Looping, Turns
  <2>3. r \in Sop!Ranks /\ analysis[r] # "none"
    <3>1. r \in Sop!Ranks /\ r <= entries
      BY TopNNat DEF SopInv, SopShapes, Sop!Ranks
    <3> QED
      BY <3>1 DEF SopInv, PoolInv
  <2>4. FateOf(r) /\ analysis[r] \in {"ready", "failed"}
    BY <2>1, <2>2, <2>3 DEF SopInv, SopShapes, FateInv, PoolInv
  <2>5. fate[r] = "listed" => r \in Sop!ToSet(bundle)
    <3>1. \A j \in 1..Len(ids) : InBundle(ids[j])
      BY <2>2 DEF SopInv, WholeInv
    <3> QED
      BY <1>2, <2>4, <3>1 DEF FateOf, Listed, InBundle, Bundled, Sop!ToSet
  <2> QED
    BY <2>2, <2>4, <2>5 DEF FateOf
<1> QED
  BY <1>5, <1>6, <1>7, <1>8

\* What it promises of the mails follows from the invariant, too.
LEMMA SopInvMails ==
  ASSUME SopInv
  PROVE  Sop!SurvivorsAreMailed
<1>1. /\ ids \in Seq(Sop!Ranks) /\ bundle \in Seq(Sop!Ranks) /\ delivered \in Seq(Sop!Ranks)
      /\ DOMAIN ids = 1..Len(ids) /\ DOMAIN bundle = 1..Len(bundle)
  BY DEF SopInv, SopLists
<1>2. ASSUME step \in {"dispatch", "mail", "end"}, NEW r \in Sop!ToSet(ids)
      PROVE  r \in Sop!ToSet(bundle) \/ reports[r] = "deleted"
  <2>1. PICK j \in 1..Len(ids) : r = ids[j]
    BY <1>1 DEF Sop!ToSet
  <2>2. InBundle(r)
    BY <1>2, <2>1 DEF SopInv, WholeInv
  <2> QED
    BY <1>1, <2>2 DEF InBundle, Bundled, Sop!ToSet
<1>3. ASSUME step = "end", trouble.sql = 0
      PROVE  delivered \in {<<>>, bundle}
  <2>1. CASE Len(delivered) = Len(bundle)
    <3>1. \A i \in 1..Len(delivered) : delivered[i] = bundle[i]
      BY DEF SopInv, MailInv
    <3> QED
      BY <1>1, <2>1, <3>1
  <2> QED
    BY <1>3, <2>1 DEF SopInv, MailInv
<1> QED
  BY <1>2, <1>3 DEF Sop!SurvivorsAreMailed

\* The entries of a follow-up are listed, bundled and mailed in the order of their ranks and once
\* each, nothing is mailed that was never stored, the session is used by one thread, and a failed
\* analysis or rendering costs nobody else's report, for any number of entries and workers and
\* any failures (auto_sop_runner.py:55-214).
THEOREM FollowUpsAreSound == Sop!Spec => []FollowUpIsSound
<1>1. Sop!Init => SopInv
  BY SopInit
<1>2. SopInv /\ [Sop!Next]_(Sop!vars) => SopInv'
  BY SopStep
<1>3. SopInv => FollowUpIsSound
  BY SopInvIsSound DEF FollowUpIsSound
<1> QED
  BY <1>1, <1>2, <1>3, PTL DEF Sop!Spec

\* Whatever fails and whenever a report is deleted, no listed report that is still stored is left out of
\* the bundle, and the recipients get the whole bundle or nothing unless a statement fails
\* (_run_auto_sop_followup, scanner_service.py:702-768).
THEOREM SurvivorsReachTheMails == Sop!Spec => []SurvivorsAreMailed
<1>1. Sop!Init => SopInv
  BY SopInit
<1>2. SopInv /\ [Sop!Next]_(Sop!vars) => SopInv'
  BY SopStep
<1>3. SopInv => SurvivorsAreMailed
  BY SopInvMails DEF SurvivorsAreMailed
<1> QED
  BY <1>1, <1>2, <1>3, PTL DEF Sop!Spec

-----------------------------------------------------------------------------
\* What a detector may end with, and what a client may have read.
Ends == {"triggered", "no_event", "no_data", "error"}
Reads == Pool!Tickers \cup {Pool!Benchmark}

\* A client.
PoolClient == [open : BOOLEAN, evidence : Seq(Reads)]

\* A ticker on its way through the pool.
PoolScanning == [pc : {"scanning"}, client : Nat, start : Nat, results : Seq(Ends), reads : Nat]
PoolDone == [pc : {"done"}, raised : BOOLEAN, outcome : {"evaluated", "error", "no_data"}, entry : Nat,
             evidence : Seq(Reads), reads : Nat]
PoolTask == [pc : {"waiting"}] \cup PoolScanning \cup PoolDone

PoolTypes ==
    /\ stage \in {"build", "benchmark", "scan", "report", "returned", "raise", "raised"}
    /\ clients \in Seq(PoolClient)
    /\ Len(clients) <= Pool!WorkerCount
    /\ queue \in Seq(Nat)
    /\ tasks \in [Pool!Tickers -> PoolTask]
    /\ collected \in Seq(Pool!Tickers)
    /\ counts \in [processed : Nat, triggered : Nat, skipped : Nat, errors : Nat]
    /\ told \in Nat /\ failures \in Nat

\* Where the clients are: in the queue or with one thread, and open until the scan is over.
ClientsInv ==
    /\ \A i, j \in DOMAIN queue : queue[i] = queue[j] => i = j
    /\ \A i \in DOMAIN queue : queue[i] \in DOMAIN clients
    /\ \A t \in Pool!Started : /\ tasks[t].client \in DOMAIN clients
                               /\ \A i \in DOMAIN queue : queue[i] # tasks[t].client
    /\ \A t, u \in Pool!Started : t # u => tasks[t].client # tasks[u].client
    /\ \A i \in DOMAIN clients : clients[i].open = ~Pool!Over
    /\ stage # "scan" => Pool!Started = {}
    /\ stage = "benchmark" => Len(clients) = Pool!WorkerCount

\* What a ticker's client has read since the ticker took it, and what became of it.
EvidenceInv ==
    /\ \A t \in Pool!Started :
        LET read == clients[tasks[t].client].evidence
        IN  /\ Len(read) = tasks[t].start + tasks[t].reads
            /\ \A i \in 1..tasks[t].reads : read[tasks[t].start + i] = t
    /\ Pool!EvidenceIsOwn
    /\ Pool!ScoredWasEvaluated

\* The calling thread's counts are those of the results it has collected.
CountsInv ==
    /\ \A i, j \in DOMAIN collected : collected[i] = collected[j] => i = j
    /\ \A i \in DOMAIN collected : tasks[collected[i]].pc = "done"
    /\ counts.processed = Len(collected)
    /\ counts.triggered + counts.skipped = Len(collected)
    /\ counts.triggered = Cardinality(Pool!Hits)
    /\ counts.errors = Cardinality({i \in DOMAIN collected : tasks[collected[i]].raised})
    /\ told <= counts.processed

\* What it returns.
ResultInv == Pool!Scanned => Len(collected) = Pool!Total /\ told = Pool!Total /\ top = Pool!Best

ScanInv == PoolTypes /\ ClientsInv /\ EvidenceInv /\ CountsInv /\ ResultInv

-----------------------------------------------------------------------------
\* The tickers and the workers.
LEMMA PoolFacts ==
    /\ Pool!Total \in Nat
    /\ Universe \in [1..Pool!Total -> Pool!Tickers]
    /\ IsFiniteSet(Pool!Tickers) /\ Cardinality(Pool!Tickers) = Pool!Total
    /\ Pool!WorkerCount \in Nat \ {0}
    /\ BestN \in Nat /\ Detectors \in Nat /\ ProgressEvery \in Nat \ {0}
    /\ \A finding \in Findings : finding[1] \in Ends /\ finding[2] \in {0, 1}
    /\ \A score \in Scores : score \in Nat /\ score # 0
<1>0. Pool!ScanPoolAssumption
  BY ServerJobsAssumption
<1>1. Universe \in Seq(Pool!Tickers)
  BY <1>0 DEF Pool!ScanPoolAssumption, Pool!Tickers
<1>2. Pool!Total \in Nat /\ Universe \in [1..Pool!Total -> Pool!Tickers] /\ DOMAIN Universe = 1..Pool!Total
  BY <1>1 DEF Pool!Total
<1>3. /\ \A a, b \in 1..Pool!Total : Universe[a] = Universe[b] => a = b
      /\ \A t \in Pool!Tickers : \E a \in 1..Pool!Total : Universe[a] = t
  BY <1>0, <1>2 DEF Pool!ScanPoolAssumption, Pool!IsInjective, Pool!Tickers, Pool!ToSet
<1>4. Universe \in Bijection(1..Pool!Total, Pool!Tickers)
  BY <1>2, <1>3, Fun_IsBij
<1>5. IsFiniteSet(1..Pool!Total) /\ Cardinality(1..Pool!Total) = Pool!Total
  BY <1>2, FS_Interval
<1>6. IsFiniteSet(Pool!Tickers) /\ Cardinality(Pool!Tickers) = Pool!Total
  BY <1>4, <1>5, FS_Bijection DEF ExistsBijection
<1>7. Pool!WorkerCount \in Nat \ {0}
  BY <1>0, <1>2 DEF Pool!ScanPoolAssumption, Pool!WorkerCount, Pool!Smaller
<1>8. \A finding \in Findings : finding[1] \in Ends /\ finding[2] \in {0, 1}
  BY <1>0 DEF Pool!ScanPoolAssumption, Ends
<1> QED
  BY <1>0, <1>2, <1>6, <1>7, <1>8 DEF Pool!ScanPoolAssumption

LEMMA PoolInit == Pool!Init => ScanInv
<1> SUFFICES ASSUME Pool!Init PROVE ScanInv
  OBVIOUS
<1>1. Pool!Started = {}
  BY DEF Pool!Init, Pool!Started, Pool!Waiting
<1>2. PoolTypes
  <2>1. tasks \in [Pool!Tickers -> PoolTask]
    BY DEF Pool!Init, Pool!Waiting, PoolTask
  <2>2. clients \in Seq(PoolClient) /\ Len(clients) = 0
    BY DEF Pool!Init
  <2> QED BY <2>1, <2>2, PoolFacts DEF PoolTypes, Pool!Init
<1>3. ClientsInv
  BY <1>1 DEF ClientsInv, Pool!Init
<1>4. EvidenceInv
  BY <1>1 DEF EvidenceInv, Pool!Init, Pool!Waiting, Pool!EvidenceIsOwn, Pool!ScoredWasEvaluated
<1>5. CountsInv
  <2>1. collected = <<>> /\ DOMAIN collected = {} /\ Len(collected) = 0
    BY DEF Pool!Init
  <2>2. Pool!Hits = {} /\ {i \in DOMAIN collected : tasks[collected[i]].raised} = {}
    BY <2>1 DEF Pool!Hits
  <2> QED BY <2>1, <2>2, FS_EmptySet DEF CountsInv, Pool!Init
<1>6. ResultInv
  BY PoolFacts DEF ResultInv, Pool!Scanned, Pool!Init
<1> QED BY <1>2, <1>3, <1>4, <1>5, <1>6 DEF ScanInv

\* A sequence without doubles, with one element more at its end.
LEMMA AppendOne ==
    ASSUME NEW S, NEW s \in Seq(S), NEW x \in S
    PROVE  /\ Append(s, x) \in Seq(S) /\ Len(Append(s, x)) = Len(s) + 1 /\ Len(s) \in Nat
           /\ DOMAIN s = 1..Len(s) /\ DOMAIN Append(s, x) = 1..(Len(s) + 1)
           /\ \A i \in 1..Len(s) : Append(s, x)[i] = s[i] /\ s[i] \in S
           /\ Append(s, x)[Len(s) + 1] = x
           /\ (\A i, j \in DOMAIN s : s[i] = s[j] => i = j) /\ (\A i \in DOMAIN s : s[i] # x)
                => \A i, j \in DOMAIN Append(s, x) : Append(s, x)[i] = Append(s, x)[j] => i = j
<1> DEFINE r == Append(s, x)
           n == Len(s)
<1>1. /\ r \in Seq(S) /\ Len(r) = n + 1 /\ n \in Nat
      /\ \A i \in 1..n : r[i] = s[i] /\ s[i] \in S
      /\ r[n + 1] = x
  BY AppendProperties, ElementOfSeq, LenProperties
<1>2. DOMAIN s = 1..n /\ DOMAIN r = 1..(n + 1)
  BY <1>1, LenProperties
<1> HIDE DEF r, n
<1>3. (\A i, j \in 1..n : s[i] = s[j] => i = j) /\ (\A i \in 1..n : s[i] # x)
        => \A i, j \in 1..(n + 1) : r[i] = r[j] => i = j
  <2>1. \A i \in 1..(n + 1) : i \in 1..n \/ i = n + 1
    BY <1>1
  <2> QED BY <1>1, <2>1
<1> QED BY <1>1, <1>2, <1>3 DEF r, n

\* What holds of the tickers' tasks stays where neither they nor what was read changes.
LEMMA ThreadsStay ==
    ASSUME ScanInv, UNCHANGED tasks,
           \A t \in Pool!Started : clients'[tasks[t].client].evidence = clients[tasks[t].client].evidence
    PROVE  EvidenceInv' /\ Pool!Started' = Pool!Started
BY DEF ScanInv, EvidenceInv, Pool!Started, Pool!EvidenceIsOwn, Pool!ScoredWasEvaluated

LEMMA CountsStay ==
    ASSUME ScanInv, UNCHANGED <<tasks, collected, counts, told>>
    PROVE  CountsInv' /\ Pool!Best' = Pool!Best
BY DEF ScanInv, CountsInv, Pool!Hits, Pool!Best, Pool!Place, Pool!Before, Pool!Entry, Pool!Smaller

LEMMA PoolBuild == ScanInv /\ Pool!Build => ScanInv'
<1> SUFFICES ASSUME ScanInv, Pool!Build PROVE ScanInv'
  OBVIOUS
<1> USE PoolFacts
<1>0. /\ stage = "build" /\ UNCHANGED <<tasks, collected, counts, told, top>>
      /\ Pool!Started = {}
  BY DEF Pool!Build, ScanInv, ClientsInv
<1>1. EvidenceInv' /\ Pool!Started' = {}
  BY <1>0, ThreadsStay
<1>2. CountsInv'
  BY <1>0, CountsStay
<1>3. clients \in Seq(PoolClient) /\ queue \in Seq(Nat) /\ failures \in Nat
  BY DEF ScanInv, PoolTypes
<1>4. ResultInv'
  <2>1. stage' \in {"build", "raise", "benchmark"}
    BY <1>0 DEF Pool!Build
  <2> QED BY <2>1 DEF ResultInv, Pool!Scanned
<1>5. CASE Len(clients) < Pool!WorkerCount /\ UNCHANGED <<stage, failures>>
           /\ clients' = Append(clients, [open |-> TRUE, evidence |-> <<>>])
           /\ queue' = Append(queue, Len(clients) + 1)
  <2> DEFINE new == [open |-> TRUE, evidence |-> <<>>]
             n == Len(clients)
             k == Len(queue)
  <2>1. new \in PoolClient /\ new.open = TRUE
    BY DEF PoolClient
  <2> HIDE DEF new
  <2>2. /\ clients' = Append(clients, new) /\ queue' = Append(queue, n + 1) /\ n < Pool!WorkerCount
    BY <1>5 DEF new
  <2>3. /\ clients' \in Seq(PoolClient) /\ Len(clients') = n + 1 /\ n \in Nat
        /\ clients'[n + 1] = new
        /\ \A i \in 1..n : clients'[i] = clients[i]
        /\ DOMAIN clients' = 1..(n + 1) /\ DOMAIN clients = 1..n
    BY <1>3, <2>1, <2>2, AppendOne
  <2>6. \A i \in DOMAIN queue : queue[i] \in 1..n
    BY <2>3 DEF ScanInv, ClientsInv
  <2>7. \A i \in DOMAIN queue : queue[i] # n + 1
    BY <2>3, <2>6
  <2>8. \A i, j \in DOMAIN queue : queue[i] = queue[j] => i = j
    BY DEF ScanInv, ClientsInv
  <2>9. /\ queue' \in Seq(Nat) /\ k \in Nat
        /\ queue'[k + 1] = n + 1
        /\ \A i \in 1..k : queue'[i] = queue[i]
        /\ DOMAIN queue' = 1..(k + 1) /\ DOMAIN queue = 1..k
        /\ \A i, j \in DOMAIN queue' : queue'[i] = queue'[j] => i = j
    <3>1. n + 1 \in Nat
      BY <2>3
    <3> QED BY <1>3, <2>2, <2>7, <2>8, <3>1, AppendOne
  <2> HIDE DEF n, k
  <2>4. PoolTypes'
    <3>1. Len(clients') <= Pool!WorkerCount
      BY <2>2, <2>3
    <3> QED BY <1>0, <1>5, <2>3, <2>9, <3>1 DEF ScanInv, PoolTypes
  <2>5. ClientsInv'
    <3>3. \A i \in DOMAIN queue' : queue'[i] \in DOMAIN clients'
      <4>1. \A i \in 1..(k + 1) : i \in 1..k \/ i = k + 1
        BY <2>9
      <4>2. \A i \in 1..k : queue'[i] \in 1..n
        BY <2>6, <2>9
      <4> QED BY <2>3, <2>9, <4>1, <4>2
    <3>4. \A i \in DOMAIN clients' : clients'[i].open = ~Pool!Over'
      <4>1. \A i \in 1..n : clients[i].open = TRUE
        BY <1>0, <2>3 DEF ScanInv, ClientsInv, Pool!Over
      <4>2. \A i \in 1..(n + 1) : i \in 1..n \/ i = n + 1
        BY <2>3
      <4>3. ~Pool!Over'
        BY <1>0, <1>5 DEF Pool!Over
      <4> QED BY <2>1, <2>3, <4>1, <4>2, <4>3
    <3> QED BY <1>0, <1>1, <1>5, <2>9, <3>3, <3>4 DEF ClientsInv
  <2> QED BY <1>1, <1>2, <1>4, <2>4, <2>5 DEF ScanInv
<1>6. CASE UNCHANGED <<clients, queue>>
           /\ \/ stage' = "raise" /\ failures' = failures + 1
              \/ stage' = "benchmark" /\ failures' = failures /\ Len(clients) = Pool!WorkerCount
  <2>1. PoolTypes'
    BY <1>0, <1>6, <1>3 DEF ScanInv, PoolTypes
  <2>2. ClientsInv'
    BY <1>0, <1>1, <1>6 DEF ScanInv, ClientsInv, Pool!Over
  <2> QED BY <1>1, <1>2, <1>4, <2>1, <2>2 DEF ScanInv
<1> QED BY <1>0, <1>5, <1>6 DEF Pool!Build, Pool!Fails

\* A client reads one thing more.
LEMMA ReadMore ==
    ASSUME ScanInv, NEW c \in DOMAIN clients, NEW x \in Reads,
           clients' = [clients EXCEPT ![c].evidence = Append(@, x)]
    PROVE  /\ clients' \in Seq(PoolClient)
           /\ Len(clients') = Len(clients) /\ DOMAIN clients' = DOMAIN clients
           /\ \A i \in DOMAIN clients : i # c => clients'[i] = clients[i]
           /\ clients'[c].open = clients[c].open
           /\ clients'[c].evidence \in Seq(Reads)
           /\ Len(clients'[c].evidence) = Len(clients[c].evidence) + 1
           /\ clients'[c].evidence[Len(clients[c].evidence) + 1] = x
           /\ \A k \in 1..Len(clients[c].evidence) : clients'[c].evidence[k] = clients[c].evidence[k]
<1> DEFINE new == [clients[c] EXCEPT !.evidence = Append(@, x)]
           read == clients[c].evidence
<1>1. clients \in Seq(PoolClient) /\ DOMAIN clients = 1..Len(clients)
  BY LenProperties DEF ScanInv, PoolTypes
<1>2. clients[c] \in PoolClient
  BY <1>1, ElementOfSeq
<1>3. read \in Seq(Reads)
  BY <1>2 DEF PoolClient
<1>4. /\ Append(read, x) \in Seq(Reads) /\ Len(Append(read, x)) = Len(read) + 1
      /\ Append(read, x)[Len(read) + 1] = x
      /\ \A k \in 1..Len(read) : Append(read, x)[k] = read[k]
  BY <1>3, AppendProperties
<1>5. /\ new.open = clients[c].open /\ new.evidence = Append(read, x)
  BY <1>2 DEF PoolClient
<1>6. new \in PoolClient
  BY <1>2, <1>4 DEF PoolClient
<1>7. clients' = [clients EXCEPT ![c] = new]
  OBVIOUS
<1> HIDE DEF new
<1>8. /\ clients' \in Seq(PoolClient) /\ Len(clients') = Len(clients)
      /\ \A j \in 1..Len(clients) : clients'[j] = IF j = c THEN new ELSE clients[j]
  <2>1. c \in 1..Len(clients)
    BY <1>1
  <2>2. /\ [clients EXCEPT ![c] = new] \in Seq(PoolClient)
        /\ Len([clients EXCEPT ![c] = new]) = Len(clients)
        /\ \A j \in 1..Len(clients) : [clients EXCEPT ![c] = new][j] = IF j = c THEN new ELSE clients[j]
    <3> HIDE DEF read
    <3> QED BY ONLY <1>1, <1>6, <2>1, ExceptSeq
  <2> QED BY ONLY <1>7, <2>2
<1>9. DOMAIN clients' = 1..Len(clients)
  BY <1>8, LenProperties
<1> QED BY <1>1, <1>4, <1>5, <1>6, <1>8, <1>9 DEF PoolClient

LEMMA PoolBenchmark == ScanInv /\ Pool!FetchBenchmark => ScanInv'
<1> SUFFICES ASSUME ScanInv, Pool!FetchBenchmark PROVE ScanInv'
  OBVIOUS
<1> USE PoolFacts
<1>0. /\ stage = "benchmark" /\ stage' = "scan"
      /\ UNCHANGED <<queue, tasks, collected, counts, told, top, failures>>
      /\ Pool!Started = {} /\ ~Pool!Over /\ ~Pool!Over'
  BY DEF Pool!FetchBenchmark, ScanInv, ClientsInv, Pool!Over
<1>1. /\ clients' \in Seq(PoolClient)
      /\ Len(clients') = Len(clients) /\ DOMAIN clients' = DOMAIN clients
      /\ \A i \in DOMAIN clients : clients'[i].open = clients[i].open
  <2>1. CASE UNCHANGED clients
    BY <2>1 DEF ScanInv, PoolTypes
  <2>2. CASE clients' = [clients EXCEPT ![1].evidence = Append(@, Pool!Benchmark)]
    <3>1. 1 \in DOMAIN clients
      <4>1. Len(clients) = Pool!WorkerCount /\ DOMAIN clients = 1..Len(clients)
        BY <1>0 DEF ScanInv, ClientsInv, PoolTypes
      <4> QED BY <4>1
    <3>2. Pool!Benchmark \in Reads
      BY DEF Reads
    <3> QED BY <2>2, <3>1, <3>2, ReadMore
  <2> QED BY <2>1, <2>2 DEF Pool!FetchBenchmark
<1>2. EvidenceInv' /\ Pool!Started' = {}
  BY <1>0, ThreadsStay
<1>3. CountsInv'
  BY <1>0, CountsStay
<1>4. ResultInv'
  BY <1>0 DEF ResultInv, Pool!Scanned
<1>5. PoolTypes'
  BY <1>0, <1>1 DEF ScanInv, PoolTypes
<1>6. ClientsInv'
  BY <1>0, <1>1, <1>2 DEF ScanInv, ClientsInv
<1> QED BY <1>2, <1>3, <1>4, <1>5, <1>6 DEF ScanInv

-----------------------------------------------------------------------------
\* The steps of the threads.

\* A step of one ticker: what is known of it before and of the others after.
LEMMA OneTask ==
    ASSUME ScanInv, NEW t \in Pool!Tickers, NEW new \in PoolTask, tasks' = [tasks EXCEPT ![t] = new]
    PROVE  /\ tasks' \in [Pool!Tickers -> PoolTask]
           /\ tasks'[t] = new
           /\ \A u \in Pool!Tickers : u # t => tasks'[u] = tasks[u]
<1>1. tasks \in [Pool!Tickers -> PoolTask]
  BY DEF ScanInv, PoolTypes
<1> QED BY <1>1

LEMMA ScanningTask ==
    ASSUME ScanInv, NEW t \in Pool!Started
    PROVE  /\ t \in Pool!Tickers /\ tasks[t] \in PoolScanning
           /\ tasks[t].client \in DOMAIN clients
           /\ stage = "scan" /\ ~Pool!Over
<1>1. t \in Pool!Tickers /\ tasks[t].pc = "scanning" /\ tasks[t] \in PoolTask
  BY DEF ScanInv, PoolTypes, Pool!Started
<1>2. tasks[t] \in PoolScanning
  BY <1>1 DEF PoolTask, PoolDone
<1> QED BY <1>1, <1>2 DEF ScanInv, ClientsInv, Pool!Over

\* The counts do not know a ticker before it is done.
LEMMA CountsIgnore ==
    ASSUME ScanInv, NEW t \in Pool!Tickers, tasks[t].pc # "done",
           \A u \in Pool!Tickers : u # t => tasks'[u] = tasks[u],
           UNCHANGED <<collected, counts, told>>
    PROVE  CountsInv'
<1>1. \A i \in DOMAIN collected : collected[i] \in Pool!Tickers /\ tasks[collected[i]].pc = "done"
  <2>1. collected \in Seq(Pool!Tickers)
    BY DEF ScanInv, PoolTypes
  <2> QED BY <2>1 DEF ScanInv, CountsInv
<1>2. \A i \in DOMAIN collected : tasks'[collected[i]] = tasks[collected[i]]
  BY <1>1
<1>3. Pool!Hits' = Pool!Hits
  BY <1>2 DEF Pool!Hits
<1>4. {i \in DOMAIN collected : tasks[collected[i]].raised}'
        = {i \in DOMAIN collected : tasks[collected[i]].raised}
  BY <1>2
<1> QED BY <1>1, <1>2, <1>3, <1>4 DEF ScanInv, CountsInv

LEMMA PoolTake ==
    ASSUME ScanInv, NEW t \in Pool!Tickers, Pool!Take(t)
    PROVE  ScanInv'
<1> DEFINE c == Head(queue)
           new == [pc |-> "scanning", client |-> c, start |-> Len(clients[c].evidence),
                   results |-> <<>>, reads |-> 0]
<1>0. /\ stage = "scan" /\ tasks[t] = Pool!Waiting /\ queue # <<>>
      /\ tasks' = [tasks EXCEPT ![t] = new] /\ queue' = Tail(queue)
      /\ UNCHANGED <<stage, clients, collected, counts, told, top, failures>>
  BY DEF Pool!Take, Pool!CheckedOut
<1>1. queue \in Seq(Nat) /\ clients \in Seq(PoolClient)
  BY DEF ScanInv, PoolTypes
<1>2. /\ queue' \in Seq(Nat) /\ Len(queue') = Len(queue) - 1
      /\ c = queue[1] /\ Len(queue) \in Nat /\ Len(queue) > 0
      /\ \A i \in 1..(Len(queue) - 1) : queue'[i] = queue[i + 1]
      /\ DOMAIN queue = 1..Len(queue) /\ DOMAIN queue' = 1..(Len(queue) - 1)
  BY <1>0, <1>1
<1>3. c \in Nat /\ c \in DOMAIN clients /\ clients[c] \in PoolClient
  <2>1. c \in DOMAIN clients /\ DOMAIN clients = 1..Len(clients) /\ Len(clients) \in Nat
    <3>1. 1 \in DOMAIN queue
      BY <1>2
    <3>2. queue[1] \in DOMAIN clients
      BY <3>1 DEF ScanInv, ClientsInv
    <3> QED BY <1>1, <1>2, <3>2
  <2>2. clients[c] \in PoolClient
    BY <1>1, <2>1, ElementOfSeq
  <2> QED BY <2>1, <2>2
<1>4. Len(clients[c].evidence) \in Nat
  BY <1>3 DEF PoolClient
<1>5. new \in PoolScanning /\ new.pc = "scanning" /\ new.client = c /\ new.start = Len(clients[c].evidence) /\ new.reads = 0
  BY <1>3, <1>4 DEF PoolScanning
<1> HIDE DEF new, c
<1>6. /\ tasks' \in [Pool!Tickers -> PoolTask] /\ tasks'[t] = new
      /\ \A u \in Pool!Tickers : u # t => tasks'[u] = tasks[u]
  BY <1>0, <1>5, OneTask DEF PoolTask
<1>7. Pool!Started' = Pool!Started \cup {t} /\ t \notin Pool!Started
  BY <1>0, <1>5, <1>6 DEF Pool!Started, Pool!Waiting
<1>8. PoolTypes'
  BY <1>0, <1>2, <1>6 DEF ScanInv, PoolTypes
<1>9. ClientsInv'
  <2>1. \A i \in DOMAIN queue' : i + 1 \in DOMAIN queue /\ queue'[i] = queue[i + 1] /\ i + 1 # 1
    BY <1>2
  <2>2. \A i, j \in DOMAIN queue' : queue'[i] = queue'[j] => i = j
    <3> SUFFICES ASSUME NEW i \in DOMAIN queue', NEW j \in DOMAIN queue', queue'[i] = queue'[j] PROVE i = j
      OBVIOUS
    <3>1. i + 1 = j + 1
      BY <2>1 DEF ScanInv, ClientsInv
    <3> QED BY <1>2, <3>1
  <2>3. \A i \in DOMAIN queue' : queue'[i] # c /\ queue'[i] \in DOMAIN clients
    BY <1>2, <2>1 DEF ScanInv, ClientsInv
  <2>4. \A u \in Pool!Started : u \in Pool!Tickers /\ tasks'[u] = tasks[u] /\ tasks[u].client # c
    <3>1. \A u \in Pool!Started : u \in Pool!Tickers /\ u # t
      BY <1>7 DEF Pool!Started
    <3>2. 1 \in DOMAIN queue
      BY <1>2
    <3>3. \A u \in Pool!Started : queue[1] # tasks[u].client
      BY <3>2 DEF ScanInv, ClientsInv
    <3> QED BY <1>2, <1>6, <3>1, <3>3
  <2>5. \A u \in Pool!Started' : /\ tasks'[u].client \in DOMAIN clients
                                 /\ \A i \in DOMAIN queue' : queue'[i] # tasks'[u].client
    BY <1>3, <1>5, <1>6, <1>7, <2>1, <2>3, <2>4 DEF ScanInv, ClientsInv
  <2>6. \A u, v \in Pool!Started' : u # v => tasks'[u].client # tasks'[v].client
    BY <1>5, <1>6, <1>7, <2>4 DEF ScanInv, ClientsInv
  <2> QED BY <1>0, <2>2, <2>3, <2>5, <2>6 DEF ScanInv, ClientsInv, Pool!Over
<1>10. EvidenceInv'
  <2>1. \A u \in Pool!Started : u \in Pool!Tickers /\ tasks'[u] = tasks[u]
    BY <1>6, <1>7 DEF Pool!Started
  <2>2. \A u \in Pool!Started' :
          LET read == clients[tasks'[u].client].evidence
          IN  /\ Len(read) = tasks'[u].start + tasks'[u].reads
              /\ \A i \in 1..tasks'[u].reads : read[tasks'[u].start + i] = u
    BY <1>4, <1>5, <1>6, <1>7, <2>1 DEF ScanInv, EvidenceInv
  <2>3. \A u \in Pool!Tickers : tasks'[u].pc = "done" => tasks'[u] = tasks[u]
    BY <1>5, <1>6
  <2>4. Pool!EvidenceIsOwn' /\ Pool!ScoredWasEvaluated'
    BY <2>3 DEF ScanInv, EvidenceInv, Pool!EvidenceIsOwn, Pool!ScoredWasEvaluated
  <2> QED BY <1>0, <2>2, <2>4 DEF EvidenceInv
<1>11. CountsInv'
  <2>1. tasks[t].pc # "done"
    BY <1>0 DEF Pool!Waiting
  <2> QED BY <1>0, <1>6, <2>1, CountsIgnore
<1>12. ResultInv'
  BY <1>0 DEF ResultInv, Pool!Scanned
<1> QED BY <1>8, <1>9, <1>10, <1>11, <1>12 DEF ScanInv

LEMMA PoolDetect ==
    ASSUME ScanInv, NEW t \in Pool!Tickers, Pool!Detect(t)
    PROVE  ScanInv'
<1>0. /\ t \in Pool!Started
      /\ UNCHANGED <<stage, queue, collected, counts, told, top, failures>>
  BY DEF Pool!Detect
<1>1. PICK finding \in Findings :
        /\ tasks' = [tasks EXCEPT ![t].results = Append(@, finding[1]), ![t].reads = @ + finding[2]]
        /\ clients' = IF finding[2] = 0 THEN clients
                      ELSE [clients EXCEPT ![tasks[t].client].evidence = Append(@, t)]
  BY DEF Pool!Detect
<1>2. /\ tasks[t] \in PoolScanning /\ tasks[t].client \in DOMAIN clients /\ stage = "scan" /\ ~Pool!Over
  BY <1>0, ScanningTask
<1> DEFINE c == tasks[t].client
           e == finding[1]
           n == finding[2]
           new == [tasks[t] EXCEPT !.results = Append(@, e), !.reads = @ + n]
<1>3. e \in Ends /\ n \in {0, 1}
  BY PoolFacts
<1>4. /\ new \in PoolScanning /\ new.pc = "scanning" /\ new.client = c /\ new.start = tasks[t].start
      /\ new.reads = tasks[t].reads + n /\ tasks[t].reads \in Nat /\ tasks[t].start \in Nat
  <2> DEFINE all == Append(tasks[t].results, e)
             sum == tasks[t].reads + n
  <2>1. all \in Seq(Ends)
    BY <1>2, <1>3, AppendProperties DEF PoolScanning
  <2>2. sum \in Nat /\ tasks[t].reads \in Nat /\ tasks[t].start \in Nat
    BY <1>2, <1>3 DEF PoolScanning
  <2>3. new = [tasks[t] EXCEPT !.results = all, !.reads = sum]
    OBVIOUS
  <2> HIDE DEF new, all, sum
  <2>4. /\ new \in PoolScanning /\ new.pc = "scanning" /\ new.client = c /\ new.start = tasks[t].start
        /\ new.reads = sum
    BY <1>2, <2>1, <2>2, <2>3 DEF PoolScanning
  <2> QED BY <2>2, <2>4 DEF sum
<1>5. tasks' = [tasks EXCEPT ![t] = new]
  <2>1. tasks \in [Pool!Tickers -> PoolTask]
    BY DEF ScanInv, PoolTypes
  <2> QED BY <1>1, <2>1
<1> HIDE DEF new, e
<1>6. /\ tasks' \in [Pool!Tickers -> PoolTask] /\ tasks'[t] = new
      /\ \A u \in Pool!Tickers : u # t => tasks'[u] = tasks[u]
  BY <1>4, <1>5, OneTask DEF PoolTask
<1>7. Pool!Started' = Pool!Started
  BY <1>0, <1>4, <1>6 DEF Pool!Started
<1>8. /\ clients' \in Seq(PoolClient)
      /\ Len(clients') = Len(clients) /\ DOMAIN clients' = DOMAIN clients
      /\ \A i \in DOMAIN clients : i # c => clients'[i] = clients[i]
      /\ clients'[c].open = clients[c].open
      /\ Len(clients[c].evidence) \in Nat
      /\ Len(clients'[c].evidence) = Len(clients[c].evidence) + n
      /\ \A k \in 1..Len(clients[c].evidence) : clients'[c].evidence[k] = clients[c].evidence[k]
      /\ n = 1 => clients'[c].evidence[Len(clients[c].evidence) + 1] = t
  <2>1. clients \in Seq(PoolClient) /\ clients[c] \in PoolClient
    <3>1. clients \in Seq(PoolClient) /\ DOMAIN clients = 1..Len(clients)
      BY DEF ScanInv, PoolTypes
    <3> QED BY <1>2, <3>1, ElementOfSeq
  <2>2. Len(clients[c].evidence) \in Nat
    BY <2>1 DEF PoolClient
  <2>3. CASE n = 0
    <3>1. clients' = clients
      BY <1>1, <2>3
    <3> QED BY <2>1, <2>2, <2>3, <3>1
  <2>4. CASE n = 1
    <3>1. clients' = [clients EXCEPT ![c].evidence = Append(@, t)] /\ t \in Reads
      BY <1>1, <2>4 DEF Reads
    <3>2. /\ clients' \in Seq(PoolClient)
          /\ Len(clients') = Len(clients) /\ DOMAIN clients' = DOMAIN clients
          /\ \A i \in DOMAIN clients : i # c => clients'[i] = clients[i]
          /\ clients'[c].open = clients[c].open
          /\ Len(clients'[c].evidence) = Len(clients[c].evidence) + 1
          /\ clients'[c].evidence[Len(clients[c].evidence) + 1] = t
          /\ \A k \in 1..Len(clients[c].evidence) : clients'[c].evidence[k] = clients[c].evidence[k]
      BY <1>2, <3>1, ReadMore
    <3> QED BY <2>2, <2>4, <3>2
  <2> QED BY <1>3, <2>3, <2>4
<1>9. PoolTypes'
  BY <1>0, <1>6, <1>8 DEF ScanInv, PoolTypes
<1>10. \A u \in Pool!Started : u \in Pool!Tickers /\ tasks'[u].client = tasks[u].client
  BY <1>4, <1>6 DEF Pool!Started
<1>11. ClientsInv'
  <2>1. \A i \in DOMAIN clients : clients'[i].open = clients[i].open
    BY <1>8
  <2> QED BY <1>0, <1>2, <1>7, <1>8, <1>10, <2>1 DEF ScanInv, ClientsInv, Pool!Over
<1>12. EvidenceInv'
  <2>1. ASSUME NEW u \in Pool!Started
        PROVE  LET read == clients'[tasks'[u].client].evidence
               IN  /\ Len(read) = tasks'[u].start + tasks'[u].reads
                   /\ \A i \in 1..tasks'[u].reads : read[tasks'[u].start + i] = u
    <3>1. CASE u = t
      <4> DEFINE before == clients[c].evidence
                 after == clients'[c].evidence
                 s == tasks[t].start
                 r == tasks[t].reads
      <4>1. Len(before) = s + r /\ \A i \in 1..r : before[s + i] = t
        BY <1>0 DEF ScanInv, EvidenceInv
      <4>2. /\ Len(after) = Len(before) + n
            /\ \A k \in 1..Len(before) : after[k] = before[k]
            /\ n = 1 => after[Len(before) + 1] = t
        BY <1>8
      <4>3. s \in Nat /\ r \in Nat
        BY <1>4
      <4>4. tasks'[u].client = c /\ tasks'[u].start = s /\ tasks'[u].reads = r + n
        BY <1>4, <1>6, <3>1
      <4> HIDE DEF before, after, s, r, n
      <4>5. Len(after) = s + (r + n) /\ \A i \in 1..(r + n) : after[s + i] = t
        <5>1. Len(after) = s + (r + n)
          BY <1>3, <4>1, <4>2, <4>3
        <5>2. ASSUME NEW i \in 1..(r + n) PROVE after[s + i] = t
          <6>1. CASE i \in 1..r
            <7>1. s + i \in 1..Len(before)
              BY <4>1, <4>3, <6>1
            <7> QED BY <4>1, <4>2, <6>1, <7>1
          <6>2. CASE i \notin 1..r
            <7>1. n = 1 /\ s + i = Len(before) + 1
              BY <1>3, <4>1, <4>3, <6>2
            <7> QED BY <4>2, <7>1
          <6> QED BY <6>1, <6>2
        <5> QED BY <5>1, <5>2
      <4> QED BY <3>1, <4>4, <4>5 DEF after
    <3>2. CASE u # t
      <4>1. u \in Pool!Tickers /\ tasks'[u] = tasks[u]
        BY <1>6, <3>2 DEF Pool!Started
      <4>2. tasks[u].client \in DOMAIN clients /\ tasks[u].client # c
        BY <1>0, <3>2 DEF ScanInv, ClientsInv
      <4>3. clients'[tasks[u].client] = clients[tasks[u].client]
        BY <1>8, <4>2
      <4> QED BY <4>1, <4>3 DEF ScanInv, EvidenceInv
    <3> QED BY <3>1, <3>2
  <2>2. \A u \in Pool!Tickers : tasks'[u].pc = "done" => tasks'[u] = tasks[u]
    BY <1>4, <1>6
  <2>3. Pool!EvidenceIsOwn' /\ Pool!ScoredWasEvaluated'
    BY <2>2 DEF ScanInv, EvidenceInv, Pool!EvidenceIsOwn, Pool!ScoredWasEvaluated
  <2> QED BY <1>7, <2>1, <2>3 DEF EvidenceInv
<1>13. CountsInv'
  <2>1. tasks[t].pc # "done"
    BY <1>2 DEF PoolScanning
  <2> QED BY <1>0, <1>6, <2>1, CountsIgnore
<1>14. ResultInv'
  BY <1>0, <1>2 DEF ResultInv, Pool!Scanned
<1> QED BY <1>9, <1>11, <1>12, <1>13, <1>14 DEF ScanInv

\* What a ticker's client has read since the ticker took it.
LEMMA SliceIsOwn ==
    ASSUME ScanInv, NEW t \in Pool!Started
    PROVE  Pool!Slice(tasks[t]) = [i \in 1..tasks[t].reads |-> t] /\ Pool!Slice(tasks[t]) \in Seq(Reads)
<1> DEFINE read == clients[tasks[t].client].evidence
           s == tasks[t].start
           n == tasks[t].reads
           slice == SubSeq(read, s + 1, Len(read))
           own == [i \in 1..n |-> t]
<1>1. t \in Pool!Tickers /\ s \in Nat /\ n \in Nat
  BY ScanningTask DEF PoolScanning
<1>2. Len(read) = s + n /\ \A i \in 1..n : read[s + i] = t
  BY DEF ScanInv, EvidenceInv
<1>3. Pool!Slice(tasks[t]) = slice /\ t \in Reads
  BY <1>1 DEF Pool!Slice, Reads
<1>4. own \in Seq(Reads) /\ Len(own) = n /\ \A i \in 1..n : own[i] = t
  BY <1>1, <1>3
<1> HIDE DEF read, s, n, own
<1>5. \A i \in (s + 1)..Len(read) : read[i] \in Reads
  <2> SUFFICES ASSUME NEW i \in (s + 1)..Len(read) PROVE read[i] \in Reads
    OBVIOUS
  <2>1. i - s \in 1..n /\ s + (i - s) = i
    BY <1>1, <1>2
  <2> QED BY <1>2, <1>3, <2>1
<1>6. /\ slice \in Seq(Reads)
      /\ Len(slice) = IF s + 1 <= Len(read) THEN Len(read) - (s + 1) + 1 ELSE 0
      /\ \A i \in 1..(Len(read) - (s + 1) + 1) : slice[i] = read[s + 1 + i - 1]
  <2>1. s + 1 \in Int /\ Len(read) \in Int
    BY <1>1, <1>2
  <2> QED BY <1>5, <2>1, SubSeqProperties
<1> HIDE DEF slice
<1>7. Len(slice) = n /\ \A i \in 1..n : slice[i] = t
  <2>1. Len(slice) = n /\ Len(read) - (s + 1) + 1 = n
    BY <1>1, <1>2, <1>6
  <2>2. \A i \in 1..n : slice[i] = read[s + 1 + i - 1] /\ s + 1 + i - 1 = s + i
    BY <1>1, <1>6, <2>1
  <2> QED BY <1>2, <2>1, <2>2
<1>8. slice = own
  BY <1>4, <1>6, <1>7, SeqEqual
<1> QED BY <1>3, <1>6, <1>8 DEF own, n

LEMMA PoolFinish ==
    ASSUME ScanInv, NEW t \in Pool!Tickers, Pool!Finish(t)
    PROVE  ScanInv'
<1> DEFINE task == tasks[t]
           c == tasks[t].client
<1>0. /\ t \in Pool!Started /\ queue' = Append(queue, c)
      /\ UNCHANGED <<stage, clients, collected, counts, told, top>>
  BY DEF Pool!Finish
<1>1. /\ task \in PoolScanning /\ c \in DOMAIN clients /\ stage = "scan" /\ ~Pool!Over
  BY <1>0, ScanningTask
<1>2. PICK new \in PoolDone :
        /\ tasks' = [tasks EXCEPT ![t] = new]
        /\ new.evidence = [i \in 1..new.reads |-> t]
        /\ new.entry # 0 => new.outcome = "evaluated"
  <2> DEFINE scored(score) == [pc |-> "done", raised |-> FALSE, outcome |-> Pool!Outcome(task.results),
                               entry |-> score, evidence |-> Pool!Slice(task), reads |-> task.reads]
             raised == [pc |-> "done", raised |-> TRUE, outcome |-> "error", entry |-> Pool!NoEntry,
                        evidence |-> <<>>, reads |-> 0]
  <2>1. Pool!Slice(task) = [i \in 1..task.reads |-> t] /\ Pool!Slice(task) \in Seq(Reads)
    BY <1>0, SliceIsOwn
  <2>2. /\ Pool!Outcome(task.results) \in {"evaluated", "error", "no_data"}
        /\ "triggered" \in Pool!ToSet(task.results) => Pool!Outcome(task.results) = "evaluated"
    BY DEF Pool!Outcome
  <2>3. task.reads \in Nat
    BY <1>1 DEF PoolScanning
  <2>4. \A score \in Nat : scored(score) \in PoolDone
    BY <2>1, <2>2, <2>3 DEF PoolDone
  <2>5. tasks \in [Pool!Tickers -> PoolTask]
    BY DEF ScanInv, PoolTypes
  <2>6. ASSUME NEW score \in Nat, Pool!Scored(t, score),
               score # 0 => "triggered" \in Pool!ToSet(task.results)
        PROVE  \E new \in PoolDone :
                 /\ tasks' = [tasks EXCEPT ![t] = new]
                 /\ new.evidence = [i \in 1..new.reads |-> t]
                 /\ new.entry # 0 => new.outcome = "evaluated"
    <3>1. tasks' = [tasks EXCEPT ![t] = scored(score)]
      BY <2>5, <2>6 DEF Pool!Scored
    <3>2. /\ scored(score).evidence = [i \in 1..scored(score).reads |-> t]
          /\ scored(score).entry # 0 => scored(score).outcome = "evaluated"
      BY <2>1, <2>2, <2>6
    <3> HIDE DEF scored
    <3> QED BY <2>4, <3>1, <3>2
  <2>7. ASSUME Pool!Raised(t)
        PROVE  \E new \in PoolDone :
                 /\ tasks' = [tasks EXCEPT ![t] = new]
                 /\ new.evidence = [i \in 1..new.reads |-> t]
                 /\ new.entry # 0 => new.outcome = "evaluated"
    <3>1. tasks' = [tasks EXCEPT ![t] = raised]
      BY <2>7 DEF Pool!Raised
    <3>2. raised \in PoolDone
      BY DEF PoolDone, Pool!NoEntry
    <3>3. <<>> = [i \in 1..0 |-> t]
      OBVIOUS
    <3>4. raised.evidence = [i \in 1..raised.reads |-> t] /\ raised.entry = 0
      BY <3>3 DEF Pool!NoEntry
    <3> HIDE DEF raised
    <3> QED BY <3>1, <3>2, <3>4
  <2>8. CASE "triggered" \in Pool!ToSet(task.results)
    <3>1. (\E score \in Scores : Pool!Scored(t, score)) \/ Pool!Raised(t)
      BY <2>8 DEF Pool!Finish
    <3> QED BY <2>6, <2>7, <2>8, <3>1, PoolFacts
  <2>9. CASE "triggered" \notin Pool!ToSet(task.results)
    <3>1. Pool!Scored(t, 0)
      BY <2>9 DEF Pool!Finish, Pool!NoEntry
    <3> QED BY <2>6, <3>1
  <2> QED BY <2>8, <2>9
<1>3. failures' \in Nat
  BY DEF Pool!Finish, Pool!Scored, Pool!Raised, Pool!Fails, ScanInv, PoolTypes
<1>4. /\ tasks' \in [Pool!Tickers -> PoolTask] /\ tasks'[t] = new
      /\ \A u \in Pool!Tickers : u # t => tasks'[u] = tasks[u]
  BY <1>2, OneTask DEF PoolTask
<1>5. Pool!Started' = Pool!Started \ {t}
  BY <1>2, <1>4 DEF Pool!Started, PoolDone
<1>6. c \in Nat
  BY <1>1 DEF PoolScanning
<1>7. /\ queue' \in Seq(Nat) /\ Len(queue) \in Nat
      /\ queue'[Len(queue) + 1] = c
      /\ \A i \in 1..Len(queue) : queue'[i] = queue[i]
      /\ DOMAIN queue' = 1..(Len(queue) + 1) /\ DOMAIN queue = 1..Len(queue)
      /\ \A i, j \in DOMAIN queue' : queue'[i] = queue'[j] => i = j
  <2>1. queue \in Seq(Nat)
    BY DEF ScanInv, PoolTypes
  <2>2. (\A i, j \in DOMAIN queue : queue[i] = queue[j] => i = j) /\ \A i \in DOMAIN queue : queue[i] # c
    BY <1>0 DEF ScanInv, ClientsInv
  <2> QED BY <1>0, <1>6, <2>1, <2>2, AppendOne
<1>8. PoolTypes'
  BY <1>0, <1>3, <1>4, <1>7 DEF ScanInv, PoolTypes
<1>9. ClientsInv'
  <2>1. \A i \in DOMAIN queue' : (i \in DOMAIN queue /\ queue'[i] = queue[i]) \/ queue'[i] = c
    BY <1>7
  <2>2. \A i \in DOMAIN queue' : queue'[i] \in DOMAIN clients
    BY <1>1, <2>1 DEF ScanInv, ClientsInv
  <2>3. \A u \in Pool!Started' : /\ u \in Pool!Started /\ tasks'[u] = tasks[u] /\ tasks[u].client # c
    BY <1>0, <1>4, <1>5 DEF Pool!Started, ScanInv, ClientsInv
  <2>4. \A u \in Pool!Started' : /\ tasks'[u].client \in DOMAIN clients
                                 /\ \A i \in DOMAIN queue' : queue'[i] # tasks'[u].client
    BY <2>1, <2>3 DEF ScanInv, ClientsInv
  <2>5. \A u, v \in Pool!Started' : u # v => tasks'[u].client # tasks'[v].client
    BY <2>3 DEF ScanInv, ClientsInv
  <2> QED BY <1>0, <1>1, <1>7, <2>2, <2>4, <2>5 DEF ScanInv, ClientsInv, Pool!Over
<1>10. EvidenceInv'
  <2>1. \A u \in Pool!Started' : u \in Pool!Started /\ tasks'[u] = tasks[u]
    BY <1>4, <1>5 DEF Pool!Started
  <2>2. \A u \in Pool!Started' :
          LET read == clients[tasks'[u].client].evidence
          IN  /\ Len(read) = tasks'[u].start + tasks'[u].reads
              /\ \A i \in 1..tasks'[u].reads : read[tasks'[u].start + i] = u
    BY <2>1 DEF ScanInv, EvidenceInv
  <2>3. Pool!EvidenceIsOwn'
    BY <1>2, <1>4 DEF ScanInv, EvidenceInv, Pool!EvidenceIsOwn
  <2>4. Pool!ScoredWasEvaluated'
    BY <1>2, <1>4 DEF ScanInv, EvidenceInv, Pool!ScoredWasEvaluated, Pool!NoEntry
  <2> QED BY <1>0, <2>2, <2>3, <2>4 DEF EvidenceInv
<1>11. CountsInv'
  <2>1. tasks[t].pc # "done"
    BY <1>1 DEF PoolScanning
  <2> QED BY <1>0, <1>4, <2>1, CountsIgnore
<1>12. ResultInv'
  BY <1>0, <1>1 DEF ResultInv, Pool!Scanned
<1> QED BY <1>8, <1>9, <1>10, <1>11, <1>12 DEF ScanInv

-----------------------------------------------------------------------------
\* The calling thread.

\* A set of places, with one place more or not.
LEMMA OneMorePlace ==
    ASSUME NEW n \in Nat, NEW S \in SUBSET (1..n), NEW T, NEW more \in BOOLEAN,
           T = IF more THEN S \cup {n + 1} ELSE S
    PROVE  Cardinality(S) \in Nat /\ Cardinality(T) = Cardinality(S) + IF more THEN 1 ELSE 0
<1>0. IsFiniteSet(1..n) /\ S \subseteq 1..n
  BY FS_Interval
<1>1. IsFiniteSet(S) /\ Cardinality(S) \in Nat
  BY <1>0, FS_Subset, FS_CardinalityType
<1>2. n + 1 \notin S
  OBVIOUS
<1>3. Cardinality(S \cup {n + 1}) = Cardinality(S) + 1
  BY <1>1, <1>2, FS_AddElement
<1> QED BY <1>1, <1>3

LEMMA PoolCollect ==
    ASSUME ScanInv, NEW t \in Pool!Tickers, Pool!Collect(t)
    PROVE  ScanInv'
<1> DEFINE hit == IF tasks[t].entry # Pool!NoEntry THEN 1 ELSE 0
           miss == IF tasks[t].raised THEN 1 ELSE 0
           n == Len(collected)
           failed == {i \in DOMAIN collected : tasks[collected[i]].raised}
<1>0. /\ stage = "scan" /\ tasks[t].pc = "done" /\ t \notin Pool!ToSet(collected)
      /\ collected' = Append(collected, t)
      /\ counts' = [processed |-> counts.processed + 1, triggered |-> counts.triggered + hit,
                    skipped |-> counts.skipped + 1 - hit, errors |-> counts.errors + miss]
      /\ told' = IF counts'.processed % ProgressEvery = 0 THEN counts'.processed ELSE told
      /\ UNCHANGED <<stage, clients, queue, tasks, top, failures>>
  BY DEF Pool!Collect
<1>1. /\ collected' \in Seq(Pool!Tickers) /\ Len(collected') = n + 1 /\ n \in Nat
      /\ \A i \in 1..n : collected'[i] = collected[i]
      /\ collected'[n + 1] = t
      /\ DOMAIN collected' = 1..(n + 1) /\ DOMAIN collected = 1..n
      /\ \A i, j \in DOMAIN collected' : collected'[i] = collected'[j] => i = j
  <2>1. collected \in Seq(Pool!Tickers)
    BY DEF ScanInv, PoolTypes
  <2>2. (\A i, j \in DOMAIN collected : collected[i] = collected[j] => i = j)
          /\ \A i \in DOMAIN collected : collected[i] # t
    BY <1>0 DEF ScanInv, CountsInv, Pool!ToSet
  <2> QED BY <1>0, <2>1, <2>2, AppendOne
<1> HIDE DEF n
<1>2. \A i \in 1..(n + 1) : i \in 1..n \/ i = n + 1
  BY <1>1
<1>3. Pool!Hits \in SUBSET (1..n) /\ failed \in SUBSET (1..n)
  BY <1>1 DEF Pool!Hits
<1>4. Pool!Hits' = IF tasks[t].entry # Pool!NoEntry THEN Pool!Hits \cup {n + 1} ELSE Pool!Hits
  BY <1>0, <1>1, <1>2 DEF Pool!Hits
<1>5. failed' = IF tasks[t].raised THEN failed \cup {n + 1} ELSE failed
  BY <1>0, <1>1, <1>2
<1>6. tasks[t] \in PoolDone
  <2>1. tasks[t] \in PoolTask
    BY DEF ScanInv, PoolTypes
  <2> QED BY <1>0, <2>1 DEF PoolTask, PoolScanning
<1> HIDE DEF failed
<1>7. Cardinality(Pool!Hits) \in Nat /\ Cardinality(Pool!Hits') = Cardinality(Pool!Hits) + hit
  <2> DEFINE more == tasks[t].entry # Pool!NoEntry
  <2>1. more \in BOOLEAN /\ Pool!Hits' = (IF more THEN Pool!Hits \cup {n + 1} ELSE Pool!Hits)
    BY <1>4
  <2>2. hit = IF more THEN 1 ELSE 0
    OBVIOUS
  <2> HIDE DEF hit, more
  <2> QED BY ONLY <1>1, <1>3, <2>1, <2>2, OneMorePlace
<1>8. Cardinality(failed) \in Nat /\ Cardinality(failed') = Cardinality(failed) + miss
  <2> DEFINE more == tasks[t].raised
  <2>1. more \in BOOLEAN /\ failed' = (IF more THEN failed \cup {n + 1} ELSE failed)
    BY <1>5, <1>6 DEF PoolDone
  <2>2. miss = IF more THEN 1 ELSE 0
    OBVIOUS
  <2> HIDE DEF miss, more
  <2> QED BY ONLY <1>1, <1>3, <2>1, <2>2, OneMorePlace
<1>9. /\ counts.processed = n /\ counts.triggered + counts.skipped = n
      /\ counts.triggered = Cardinality(Pool!Hits) /\ counts.errors = Cardinality(failed)
      /\ told <= counts.processed /\ told \in Nat /\ counts.skipped \in Nat /\ counts.triggered \in Nat
      /\ counts.errors \in Nat
  BY DEF ScanInv, PoolTypes, CountsInv, n, failed
<1>10. hit \in {0, 1} /\ miss \in {0, 1}
  OBVIOUS
<1> HIDE DEF hit, miss
<1>11. /\ counts'.processed = n + 1 /\ counts'.triggered + counts'.skipped = n + 1
       /\ counts'.triggered = Cardinality(Pool!Hits') /\ counts'.errors = Cardinality(failed')
       /\ counts' \in [processed : Nat, triggered : Nat, skipped : Nat, errors : Nat]
       /\ told' <= counts'.processed /\ told' \in Nat
  <2>1. counts'.processed = n + 1 /\ counts'.triggered = counts.triggered + hit
        /\ counts'.skipped = counts.skipped + 1 - hit /\ counts'.errors = counts.errors + miss
        /\ DOMAIN counts' = {"processed", "triggered", "skipped", "errors"}
    BY <1>0, <1>9
  <2>2. told' \in {n + 1, told}
    BY <1>0, <2>1
  <2>3. counts.triggered + hit \in Nat /\ counts.skipped + 1 - hit \in Nat /\ counts.errors + miss \in Nat
        /\ counts.processed + 1 \in Nat
    BY <1>1, <1>9, <1>10
  <2>4. counts' \in [processed : Nat, triggered : Nat, skipped : Nat, errors : Nat]
    BY <1>0, <2>3
  <2>5. counts'.triggered + counts'.skipped = n + 1
    BY <1>9, <1>10, <2>1
  <2>6. counts'.processed = n + 1 /\ counts'.triggered = Cardinality(Pool!Hits') /\ counts'.errors = Cardinality(failed')
    BY <1>7, <1>8, <1>9, <2>1
  <2>7. told' <= counts'.processed /\ told' \in Nat
    BY <1>1, <1>9, <2>2, <2>6
  <2> QED BY <2>4, <2>5, <2>6, <2>7
<1>12. PoolTypes'
  BY <1>0, <1>1, <1>11 DEF ScanInv, PoolTypes
<1>13. EvidenceInv' /\ Pool!Started' = Pool!Started
  BY <1>0, ThreadsStay
<1>14. ClientsInv'
  BY <1>0, <1>13 DEF ScanInv, ClientsInv, Pool!Over
<1>15. CountsInv'
  <2>1. \A i \in DOMAIN collected' : tasks'[collected'[i]].pc = "done"
    BY <1>0, <1>1, <1>2 DEF ScanInv, CountsInv
  <2> QED BY <1>1, <1>11, <2>1 DEF CountsInv, failed
<1>16. ResultInv'
  BY <1>0 DEF ResultInv, Pool!Scanned
<1> QED BY <1>12, <1>13, <1>14, <1>15, <1>16 DEF ScanInv

\* As many results as tickers are the results of all of them.
LEMMA AllCollected ==
    ASSUME ScanInv, Len(collected) = Pool!Total
    PROVE  /\ collected \in Bijection(1..Pool!Total, Pool!Tickers)
           /\ Pool!ToSet(collected) = Pool!Tickers
           /\ \A t \in Pool!Tickers : tasks[t].pc = "done"
<1>1. collected \in [1..Pool!Total -> Pool!Tickers] /\ DOMAIN collected = 1..Pool!Total
  BY LenProperties DEF ScanInv, PoolTypes
<1>2. \A i, j \in 1..Pool!Total : collected[i] = collected[j] => i = j
  BY <1>1 DEF ScanInv, CountsInv
<1>3. collected \in Injection(1..Pool!Total, Pool!Tickers)
  BY <1>1, <1>2, Fun_IsInj
<1>4. Cardinality(1..Pool!Total) = Cardinality(Pool!Tickers) /\ IsFiniteSet(Pool!Tickers)
  BY PoolFacts, FS_Interval
<1>5. collected \in Surjection(1..Pool!Total, Pool!Tickers)
  BY <1>3, <1>4, FS_Injection
<1>6. \A t \in Pool!Tickers : \E i \in 1..Pool!Total : collected[i] = t
  BY <1>5, Fun_SurjectionProperties
<1>7. collected \in Bijection(1..Pool!Total, Pool!Tickers)
  BY <1>3, <1>5, Fun_IsBij
<1>8. Pool!ToSet(collected) = Pool!Tickers
  BY <1>1, <1>6 DEF Pool!ToSet
<1>9. \A t \in Pool!Tickers : tasks[t].pc = "done"
  BY <1>1, <1>6 DEF ScanInv, CountsInv
<1> QED BY <1>7, <1>8, <1>9

LEMMA PoolRank == ScanInv /\ Pool!Rank => ScanInv'
<1> SUFFICES ASSUME ScanInv, Pool!Rank PROVE ScanInv'
  OBVIOUS
<1>0. /\ stage = "scan" /\ Len(collected) = Pool!Total /\ told' = counts.processed /\ top' = Pool!Best
      /\ stage' = "report" /\ UNCHANGED <<clients, queue, tasks, collected, counts, failures>>
  BY DEF Pool!Rank, Pool!LastProgress
<1>1. Pool!Started = {}
  BY <1>0, AllCollected DEF Pool!Started
<1>2. EvidenceInv' /\ Pool!Started' = Pool!Started
  BY <1>0, ThreadsStay
<1>3. /\ counts.processed = Len(collected) /\ counts.processed \in Nat
  BY DEF ScanInv, PoolTypes, CountsInv
<1>4. PoolTypes'
  BY <1>0, <1>3 DEF ScanInv, PoolTypes
<1>5. ClientsInv'
  BY <1>0, <1>1, <1>2 DEF ScanInv, ClientsInv, Pool!Over
<1>6. CountsInv'
  BY <1>0, <1>3 DEF ScanInv, CountsInv, Pool!Hits
<1>7. Pool!Best' = Pool!Best
  BY <1>0 DEF Pool!Hits, Pool!Best, Pool!Place, Pool!Before, Pool!Entry, Pool!Smaller
<1>8. ResultInv'
  BY <1>0, <1>3, <1>7 DEF ResultInv
<1> QED BY <1>2, <1>4, <1>5, <1>6, <1>8 DEF ScanInv

\* The finally clause.
LEMMA AllClosed ==
    ASSUME ScanInv, clients' = [i \in DOMAIN clients |-> [clients[i] EXCEPT !.open = FALSE]]
    PROVE  /\ clients' \in Seq(PoolClient) /\ Len(clients') = Len(clients) /\ DOMAIN clients' = DOMAIN clients
           /\ \A i \in DOMAIN clients : clients'[i].open = FALSE
<1>1. clients \in Seq(PoolClient) /\ Len(clients) \in Nat /\ DOMAIN clients = 1..Len(clients)
  BY DEF ScanInv, PoolTypes
<1>2. \A i \in DOMAIN clients : /\ [clients[i] EXCEPT !.open = FALSE] \in PoolClient
                                /\ [clients[i] EXCEPT !.open = FALSE].open = FALSE
  <2> SUFFICES ASSUME NEW i \in DOMAIN clients
               PROVE  /\ [clients[i] EXCEPT !.open = FALSE] \in PoolClient
                      /\ [clients[i] EXCEPT !.open = FALSE].open = FALSE
    OBVIOUS
  <2>1. clients[i] \in PoolClient
    BY <1>1, ElementOfSeq
  <2> QED BY <2>1 DEF PoolClient
<1>3. clients' \in [1..Len(clients) -> PoolClient]
  BY <1>1, <1>2
<1>4. clients' \in Seq(PoolClient) /\ Len(clients') = Len(clients) /\ DOMAIN clients' = DOMAIN clients
  BY <1>1, <1>3
<1> QED BY <1>2, <1>4

LEMMA PoolEnds == ScanInv /\ (Pool!Return \/ Pool!Raise) => ScanInv'
<1> SUFFICES ASSUME ScanInv, Pool!Return \/ Pool!Raise PROVE ScanInv'
  OBVIOUS
<1>0. /\ \/ stage = "report" /\ stage' = "returned"
         \/ stage = "raise" /\ stage' = "raised"
      /\ clients' = [i \in DOMAIN clients |-> [clients[i] EXCEPT !.open = FALSE]]
      /\ UNCHANGED <<queue, tasks, collected, counts, told, top, failures>>
  BY DEF Pool!Return, Pool!Raise
<1>1. /\ clients' \in Seq(PoolClient) /\ Len(clients') = Len(clients) /\ DOMAIN clients' = DOMAIN clients
      /\ \A i \in DOMAIN clients : clients'[i].open = FALSE
  BY <1>0, AllClosed
<1>2. Pool!Started = {} /\ Pool!Over'
  BY <1>0 DEF ScanInv, ClientsInv, Pool!Over
<1>3. EvidenceInv' /\ Pool!Started' = Pool!Started
  BY <1>0, <1>2, ThreadsStay
<1>4. CountsInv' /\ Pool!Best' = Pool!Best
  BY <1>0, CountsStay
<1>5. PoolTypes'
  BY <1>0, <1>1 DEF ScanInv, PoolTypes
<1>6. ClientsInv'
  BY <1>0, <1>1, <1>2, <1>3 DEF ScanInv, ClientsInv
<1>7. ResultInv'
  BY <1>0, <1>4 DEF ScanInv, ResultInv, Pool!Scanned
<1> QED BY <1>3, <1>4, <1>5, <1>6, <1>7 DEF ScanInv

LEMMA PoolStep == ScanInv /\ [Pool!Next]_(Pool!vars) => ScanInv'
<1> SUFFICES ASSUME ScanInv, [Pool!Next]_(Pool!vars) PROVE ScanInv'
  OBVIOUS
<1>1. CASE Pool!Caller
  BY <1>1, PoolBuild, PoolBenchmark, PoolCollect, PoolRank, PoolEnds DEF Pool!Caller
<1>2. CASE Pool!Thread
  BY <1>2, PoolTake, PoolDetect, PoolFinish DEF Pool!Thread
<1>3. CASE UNCHANGED Pool!vars
  <2>1. UNCHANGED <<stage, clients, queue, tasks, collected, counts, told, top, failures>>
    BY <1>3 DEF Pool!vars
  <2>2. EvidenceInv' /\ Pool!Started' = Pool!Started
    BY <2>1, ThreadsStay
  <2>3. CountsInv' /\ Pool!Best' = Pool!Best
    BY <2>1, CountsStay
  <2>4. PoolTypes' /\ ClientsInv' /\ ResultInv'
    BY <2>1, <2>2, <2>3 DEF ScanInv, PoolTypes, ClientsInv, ResultInv, Pool!Over, Pool!Scanned
  <2> QED BY <2>2, <2>3, <2>4 DEF ScanInv
<1> QED BY <1>1, <1>2, <1>3 DEF Pool!Next

-----------------------------------------------------------------------------
\* What is returned.

\* The cardinality the engine's module speaks of is the library's.
LEMMA SameCardinality == \A S : Pool!Cardinality(S) = Cardinality(S)
BY DEF Pool!Cardinality, Cardinality

\* The tickers of a kind are as many as the places they were collected in.
LEMMA AsManyPlaces ==
    ASSUME NEW n \in Nat, NEW All, NEW f \in Bijection(1..n, All), NEW T \in SUBSET All
    PROVE  Cardinality({i \in 1..n : f[i] \in T}) = Cardinality(T)
<1> DEFINE S == {i \in 1..n : f[i] \in T}
           g == [i \in S |-> f[i]]
<1>1. /\ f \in [1..n -> All] /\ \A a, b \in 1..n : f[a] = f[b] => a = b
      /\ \A t \in All : \E a \in 1..n : f[a] = t
  BY Fun_BijectionProperties, Fun_SurjectionProperties, Fun_InjectionProperties DEF Bijection
<1>2. g \in [S -> T] /\ (\A a, b \in S : g[a] = g[b] => a = b) /\ \A t \in T : \E a \in S : g[a] = t
  BY <1>1
<1>3. IsFiniteSet(1..n) /\ S \in SUBSET (1..n)
  BY FS_Interval
<1>4. IsFiniteSet(S)
  BY <1>3, FS_Subset
<1> HIDE DEF S, g
<1>5. g \in Bijection(S, T)
  BY <1>2, Fun_IsBij
<1>6. Cardinality(T) = Cardinality(S)
  BY <1>4, <1>5, FS_Bijection DEF ExistsBijection
<1> QED BY <1>6 DEF S

\* The order of the results with an entry is strict and total; each has a place of its own,
\* and every place up to their number is one's.
LEMMA PlacesAreTaken ==
    ASSUME ScanInv, Len(collected) = Pool!Total
    PROVE  LET n == Cardinality(Pool!Hits)
           IN  /\ n \in Nat
               /\ \A j \in Pool!Hits : Pool!Place(j) \in 1..n
               /\ \A i, j \in Pool!Hits : Pool!Place(i) = Pool!Place(j) => i = j
               /\ \A p \in 1..n : \E j \in Pool!Hits : Pool!Place(j) = p
               /\ \A i, j \in Pool!Hits : Pool!Place(i) < Pool!Place(j) => Pool!Entry(i) >= Pool!Entry(j)
<1> DEFINE H == Pool!Hits
           n == Cardinality(H)
           W(j) == {i \in H : Pool!Before(i, j)}
           place == [j \in H |-> Pool!Place(j)]
<1>1. collected \in [1..Pool!Total -> Pool!Tickers] /\ DOMAIN collected = 1..Pool!Total
  BY LenProperties DEF ScanInv, PoolTypes
<1>2. \A i \in 1..Pool!Total : Pool!Entry(i) \in Nat
  <2>1. \A t \in Pool!Tickers : tasks[t] \in PoolTask /\ tasks[t].pc = "done"
    BY AllCollected DEF ScanInv, PoolTypes
  <2>2. \A t \in Pool!Tickers : tasks[t] \in PoolDone
    BY <2>1 DEF PoolTask, PoolScanning
  <2> QED BY <1>1, <2>2 DEF Pool!Entry, PoolDone
<1>3. H \in SUBSET (1..Pool!Total) /\ IsFiniteSet(1..Pool!Total) /\ Pool!Total \in Nat
  BY <1>1, PoolFacts, FS_Interval DEF Pool!Hits
<1>4. IsFiniteSet(H) /\ n \in Nat
  BY <1>3, FS_Subset, FS_CardinalityType
<1>5. \A i \in H : i \in Nat /\ Pool!Entry(i) \in Nat
  BY <1>2, <1>3
<1> HIDE DEF H
<1>6. /\ \A i \in H : ~Pool!Before(i, i)
      /\ \A i, j, k \in H : Pool!Before(i, j) /\ Pool!Before(j, k) => Pool!Before(i, k)
      /\ \A i, j \in H : i # j => Pool!Before(i, j) \/ Pool!Before(j, i)
      /\ \A i, j \in H : Pool!Before(i, j) => Pool!Entry(i) >= Pool!Entry(j)
  BY <1>5 DEF Pool!Before
<1>7. \A j \in H : W(j) \in SUBSET H /\ IsFiniteSet(W(j)) /\ Cardinality(W(j)) \in Nat /\ Cardinality(W(j)) < n
  <2> SUFFICES ASSUME NEW j \in H
               PROVE  /\ W(j) \in SUBSET H /\ IsFiniteSet(W(j)) /\ Cardinality(W(j)) \in Nat
                      /\ Cardinality(W(j)) < n
    OBVIOUS
  <2>1. W(j) \in SUBSET H /\ j \notin W(j)
    BY <1>6
  <2> HIDE DEF W
  <2>2. IsFiniteSet(W(j)) /\ Cardinality(W(j)) \in Nat /\ Cardinality(W(j)) <= n /\ Cardinality(W(j)) # n
    BY <1>4, <2>1, FS_Subset, FS_CardinalityType
  <2> HIDE DEF n
  <2>3. Cardinality(W(j)) < n
    BY <1>4, <2>2
  <2> QED BY <2>1, <2>2, <2>3
<1>8. \A j \in H : Pool!Place(j) = 1 + Cardinality(W(j))
  BY SameCardinality DEF Pool!Place, H
<1>9. \A i, j \in H : Pool!Before(i, j) => Pool!Place(i) < Pool!Place(j)
  <2> SUFFICES ASSUME NEW i \in H, NEW j \in H, Pool!Before(i, j) PROVE Pool!Place(i) < Pool!Place(j)
    OBVIOUS
  <2>1. W(i) \in SUBSET W(j) /\ i \in W(j) /\ i \notin W(i)
    BY <1>6
  <2> HIDE DEF W
  <2>2. Cardinality(W(i)) <= Cardinality(W(j)) /\ Cardinality(W(i)) # Cardinality(W(j))
    BY <1>7, <2>1, FS_Subset
  <2> QED BY <1>7, <1>8, <2>2
<1> HIDE DEF n, W
<1>10. \A j \in H : Pool!Place(j) \in 1..n
  BY <1>4, <1>7, <1>8
<1>11. \A i, j \in H : Pool!Place(i) = Pool!Place(j) => i = j
  <2> SUFFICES ASSUME NEW i \in H, NEW j \in H, Pool!Place(i) = Pool!Place(j), i # j PROVE FALSE
    OBVIOUS
  <2>1. Pool!Place(i) < Pool!Place(j) \/ Pool!Place(j) < Pool!Place(i)
    BY <1>6, <1>9
  <2>2. Pool!Place(i) \in Nat /\ Pool!Place(j) \in Nat
    BY <1>4, <1>10
  <2> QED BY <2>1, <2>2
<1>12. \A p \in 1..n : \E j \in H : Pool!Place(j) = p
  <2>1. place \in Injection(H, 1..n)
    <3>1. place \in [H -> 1..n] /\ \A i, j \in H : place[i] = place[j] => i = j
      BY <1>10, <1>11
    <3> HIDE DEF place
    <3> QED BY <3>1, Fun_IsInj
  <2>2. IsFiniteSet(1..n) /\ Cardinality(1..n) = Cardinality(H)
    BY <1>4, FS_Interval DEF n
  <2>3. place \in Surjection(H, 1..n)
    BY <2>1, <2>2, FS_Injection
  <2>4. \A p \in 1..n : \E j \in H : place[j] = p
    <3> HIDE DEF place
    <3> QED BY <2>3, Fun_SurjectionProperties
  <2> QED BY <2>4
<1>13. \A i, j \in H : Pool!Place(i) < Pool!Place(j) => Pool!Entry(i) >= Pool!Entry(j)
  <2> SUFFICES ASSUME NEW i \in H, NEW j \in H, Pool!Place(i) < Pool!Place(j) PROVE Pool!Entry(i) >= Pool!Entry(j)
    OBVIOUS
  <2>1. Pool!Place(i) \in Nat /\ Pool!Place(j) \in Nat
    BY <1>4, <1>10
  <2>2. ~Pool!Before(j, i) /\ i # j
    BY <1>9, <2>1
  <2> QED BY <1>6, <2>2
<1> QED BY <1>4, <1>10, <1>11, <1>12, <1>13 DEF H, n

\* The first top_n are the best.
LEMMA BestAreFirst ==
    ASSUME ScanInv, Pool!Scanned
    PROVE  Pool!BestAreReturned
<1> DEFINE n == Cardinality(Pool!Hits)
           m == Pool!Smaller(BestN, n)
           J(p) == CHOOSE j \in Pool!Hits : Pool!Place(j) = p
<1>0. /\ Len(collected) = Pool!Total /\ top = Pool!Best /\ Pool!Total \in Nat /\ BestN \in Nat
  BY PoolFacts DEF ScanInv, ResultInv
<1>1. /\ collected \in Bijection(1..Pool!Total, Pool!Tickers)
      /\ Pool!ToSet(collected) = Pool!Tickers
      /\ collected \in [1..Pool!Total -> Pool!Tickers] /\ DOMAIN collected = 1..Pool!Total
      /\ \A t \in Pool!Tickers : \E i \in 1..Pool!Total : collected[i] = t
      /\ \A i, j \in 1..Pool!Total : collected[i] = collected[j] => i = j
  <2>1. collected \in Bijection(1..Pool!Total, Pool!Tickers) /\ Pool!ToSet(collected) = Pool!Tickers
    BY <1>0, AllCollected
  <2>2. collected \in [1..Pool!Total -> Pool!Tickers] /\ DOMAIN collected = 1..Pool!Total
    BY <1>0, LenProperties DEF ScanInv, PoolTypes
  <2> QED BY <2>1, <2>2 DEF ScanInv, CountsInv, Pool!ToSet
<1>2. \A t \in Pool!Tickers : tasks[t].entry \in Nat
  <2>1. \A t \in Pool!Tickers : tasks[t] \in PoolTask /\ tasks[t].pc = "done"
    BY <1>0, AllCollected DEF ScanInv, PoolTypes
  <2>2. \A t \in Pool!Tickers : tasks[t] \in PoolDone
    BY <2>1 DEF PoolTask, PoolScanning
  <2> QED BY <2>2 DEF PoolDone
<1>3. /\ n \in Nat
      /\ \A j \in Pool!Hits : Pool!Place(j) \in 1..n
      /\ \A i, j \in Pool!Hits : Pool!Place(i) = Pool!Place(j) => i = j
      /\ \A p \in 1..n : \E j \in Pool!Hits : Pool!Place(j) = p
      /\ \A i, j \in Pool!Hits : Pool!Place(i) < Pool!Place(j) => Pool!Entry(i) >= Pool!Entry(j)
  BY <1>0, PlacesAreTaken
<1>4. Pool!IsInjective(collected) /\ Pool!ToSet(collected) = Pool!Tickers
  BY <1>1 DEF Pool!IsInjective
<1>5. /\ counts.triggered = n /\ counts.triggered + counts.skipped = Pool!Total
      /\ counts.errors = Cardinality({i \in 1..Pool!Total : tasks[collected[i]].raised})
  BY <1>0, <1>1 DEF ScanInv, CountsInv
<1>6. counts.triggered = Cardinality({t \in Pool!Tickers : tasks[t].entry # Pool!NoEntry})
  <2> DEFINE T == {t \in Pool!Tickers : tasks[t].entry # Pool!NoEntry}
  <2>1. Pool!Hits = {i \in 1..Pool!Total : collected[i] \in T}
    BY <1>1 DEF Pool!Hits
  <2>2. T \in SUBSET Pool!Tickers
    OBVIOUS
  <2> HIDE DEF T
  <2>3. Cardinality({i \in 1..Pool!Total : collected[i] \in T}) = Cardinality(T)
    BY <1>0, <1>1, <2>2, AsManyPlaces
  <2> QED BY <1>5, <2>1, <2>3 DEF T
<1>7. counts.errors = Cardinality({t \in Pool!Tickers : tasks[t].raised})
  <2> DEFINE T == {t \in Pool!Tickers : tasks[t].raised}
  <2>1. {i \in 1..Pool!Total : tasks[collected[i]].raised} = {i \in 1..Pool!Total : collected[i] \in T}
    BY <1>1
  <2>2. T \in SUBSET Pool!Tickers
    OBVIOUS
  <2> HIDE DEF T
  <2>3. Cardinality({i \in 1..Pool!Total : collected[i] \in T}) = Cardinality(T)
    BY <1>0, <1>1, <2>2, AsManyPlaces
  <2> QED BY <1>5, <2>1, <2>3 DEF T
<1>8. m \in Nat /\ m <= n /\ Len(top) = m /\ DOMAIN top = 1..m /\ \A p \in 1..m : top[p] = collected[J(p)]
  <2>1. m \in Nat /\ m <= n
    BY <1>0, <1>3 DEF Pool!Smaller
  <2>2. top = [p \in 1..m |-> collected[J(p)]]
    BY <1>0, SameCardinality DEF Pool!Best
  <2> HIDE DEF m, J
  <2> QED BY <2>1, <2>2
<1>9. \A p \in 1..m : J(p) \in Pool!Hits /\ Pool!Place(J(p)) = p
  <2> SUFFICES ASSUME NEW p \in 1..m PROVE J(p) \in Pool!Hits /\ Pool!Place(J(p)) = p
    OBVIOUS
  <2>1. p \in 1..n
    BY <1>3, <1>8
  <2> HIDE DEF m, n
  <2>2. \E j \in Pool!Hits : Pool!Place(j) = p
    BY <1>3, <2>1
  <2> QED BY <2>2
<1> HIDE DEF J, m, n
<1>10. \A i \in Pool!Hits : i \in 1..Pool!Total /\ Pool!Entry(i) = tasks[collected[i]].entry
  BY <1>1 DEF Pool!Hits, Pool!Entry
<1>11. \A p \in 1..m : tasks[top[p]].entry = Pool!Entry(J(p))
  BY <1>8, <1>9, <1>10
<1>12. \A i, j \in DOMAIN top : i < j => tasks[top[i]].entry >= tasks[top[j]].entry
  BY <1>3, <1>8, <1>9, <1>11
<1>13. ASSUME NEW t \in Pool!Tickers \ Pool!ToSet(top), NEW s \in Pool!ToSet(top)
       PROVE  tasks[t].entry <= tasks[s].entry
  <2>1. PICK p \in 1..m : s = top[p]
    BY <1>8 DEF Pool!ToSet
  <2>2. PICK i \in 1..Pool!Total : collected[i] = t
    BY <1>1
  <2>3. J(p) \in Pool!Hits /\ Pool!Place(J(p)) = p /\ tasks[s].entry = Pool!Entry(J(p))
    BY <1>9, <1>11, <2>1
  <2>4. CASE i \notin Pool!Hits
    <3>1. tasks[t].entry = 0
      BY <1>1, <2>2, <2>4 DEF Pool!Hits, Pool!NoEntry
    <3>2. tasks[s].entry \in Nat
      <4>1. J(p) \in 1..Pool!Total
        BY <1>10, <2>3
      <4>2. s = collected[J(p)]
        BY <1>8, <2>1
      <4>3. s \in Pool!Tickers
        BY <1>1, <4>1, <4>2
      <4> QED BY <1>2, <4>3
    <3> QED BY <3>1, <3>2
  <2>5. CASE i \in Pool!Hits
    <3>1. Pool!Place(i) \in 1..n
      BY <1>3, <2>5
    <3>2. ~(Pool!Place(i) \in 1..m)
      <4> SUFFICES ASSUME Pool!Place(i) \in 1..m PROVE FALSE
        OBVIOUS
      <4>1. J(Pool!Place(i)) = i
        BY <1>3, <1>9, <2>5
      <4>2. top[Pool!Place(i)] = t
        BY <1>8, <2>2, <4>1
      <4> QED BY <1>8, <4>2 DEF Pool!ToSet
    <3>3. Pool!Place(J(p)) < Pool!Place(i)
      <4>1. Pool!Place(i) > m
        BY <1>3, <1>8, <3>1, <3>2
      <4> QED BY <1>3, <1>8, <2>3, <3>1, <4>1
    <3>4. Pool!Entry(J(p)) >= Pool!Entry(i) /\ Pool!Entry(i) = tasks[t].entry
      BY <1>3, <1>10, <2>2, <2>3, <2>5, <3>3
    <3>5. tasks[t].entry \in Nat /\ tasks[s].entry = Pool!Entry(J(p))
      BY <1>2, <2>3
    <3> QED BY <3>4, <3>5
  <2> QED BY <2>4, <2>5
<1> QED
  <2>1. Len(top) = Pool!Smaller(BestN, counts.triggered)
    BY <1>5, <1>8 DEF m
  <2> QED BY <1>4, <1>5, <1>6, <1>7, <1>12, <1>13, <2>1, SameCardinality DEF Pool!BestAreReturned

LEMMA PoolIsWhole == ScanInv => ScanIsWhole
<1> SUFFICES ASSUME ScanInv PROVE ScanIsWhole
  OBVIOUS
<1>1. Pool!TypeOK
  <2>1. Pool!IsInjective(queue) /\ Pool!ToSet(queue) \subseteq DOMAIN clients
    BY DEF ScanInv, ClientsInv, Pool!IsInjective, Pool!ToSet
  <2>2. \A t \in Pool!Started : tasks[t].client \notin Pool!ToSet(queue) /\ clients[tasks[t].client].open
    BY ScanningTask DEF ScanInv, ClientsInv, Pool!ToSet
  <2> QED BY <2>1, <2>2 DEF ScanInv, PoolTypes, ClientsInv, CountsInv, Pool!TypeOK
<1>2. Pool!BestAreReturned
  BY BestAreFirst DEF Pool!BestAreReturned
<1>3. Pool!ProgressEndsFull
  BY DEF ScanInv, ResultInv, Pool!ProgressEndsFull
<1>4. Pool!ClientsAreClosed
  BY DEF ScanInv, ClientsInv, Pool!ClientsAreClosed
<1> QED BY <1>1, <1>2, <1>3, <1>4 DEF ScanInv, EvidenceInv, ScanIsWhole

\* A scan's threads share the data clients, and each holds one that is neither queued nor
\* another's (runner.py:8-11, 248-262); the evidence of a ticker is what its own detectors
\* read, every ticker is counted once, the entries returned are the best top_n of those
\* scored, and every client built is closed: for every universe, number of workers and
\* order in which the threads end.
THEOREM ScansStayWhole == Pool!Spec => []ScanIsWhole
<1>1. ScanInv /\ [Pool!Next]_(Pool!vars) => ScanInv'
  BY PoolStep
<1>2. Pool!Spec => []ScanInv
  BY <1>1, PoolInit, PTL DEF Pool!Spec
<1> QED BY <1>2, PoolIsWhole, PTL

=============================================================================
