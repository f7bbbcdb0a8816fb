------------------------------ MODULE EvolveLoop ------------------------------
(***************************************************************************)
(* The keep-or-roll-back loop of the self-evolving strategy                *)
(* (v2/self_evolve/loop.py) over its files: one version.json per round and *)
(* one line per round in path_log.jsonl.  Any invocation may die between   *)
(* two steps; the next one resumes from the versions, while the command    *)
(* line (run.py) and the paper-trading sleeve (graduate.py) look the best  *)
(* configuration up in the log.                                            *)
(*                                                                         *)
(* A configuration is the set of the rounds whose changes it carries: the  *)
(* baseline carries none.                                                  *)
(***************************************************************************)
EXTENDS Integers, Sequences, FiniteSets

CONSTANTS
    Metrics,        \* what a backtest may return
    Tolerance,      \* MAXDD_TOLERANCE_PP
    None,           \* Python's None
    MaxRound,       \* bound: rounds of all invocations
    MaxCrashes      \* bound: invocations that die

Rounds == 1..MaxRound
Versions == 0..MaxRound     \* 0 is the baseline, v0

NoMetrics == [sharpe |-> None, turnover |-> None, drawdown |-> None]

EvolveAssumption ==
    /\ MaxRound \in Nat /\ MaxCrashes \in Nat /\ Tolerance \in Nat
    /\ None \notin Int
    /\ Metrics \subseteq [sharpe : Int \cup {None}, turnover : Int \cup {None}, drawdown : Int \cup {None}]

VARIABLES
    prog,       \* [pc, round, last]: where the invocation is, in which round, and the round it ends with
    memory,     \* [config, best, base]: current_config, best_val_metrics, base_val_metrics
    draft,      \* the record of the round that is being persisted
    versions,   \* version -> its version.json
    log,        \* the entries read_path_log returns
    tail,       \* how path_log.jsonl ends: after a newline, in half a line, or in a line without its newline
    crashes

vars == <<prog, memory, draft, versions, log, tail, crashes>>

Absent == [file |-> "absent", config |-> {}, val |-> NoMetrics, kept |-> FALSE]
Partial == [Absent EXCEPT !.file = "partial"]
Record(config, val, kept) == [file |-> "whole", config |-> config, val |-> val, kept |-> kept]

Records ==
    [file : {"absent", "partial", "whole"}, config : SUBSET Rounds,
     val : Metrics \cup {NoMetrics}, kept : BOOLEAN]

\* The shapes; a round that is worked on is within the bound.
TypeOK ==
    /\ prog \in [pc : {"off", "baseline", "loop", "write", "append", "score"},
                 round : 0..(MaxRound + 1), last : Versions]
    /\ memory \in [config : SUBSET Rounds, best : Metrics \cup {NoMetrics}, base : Metrics \cup {NoMetrics}]
    /\ draft \in Records
    /\ versions \in [Versions -> Records]
    /\ log \in Seq([v : Versions, kept : BOOLEAN])
    /\ tail \in {"newline", "torn", "bare"}
    /\ crashes \in 0..MaxCrashes
    /\ prog.pc \in {"write", "append"} => prog.round \in Versions

Init ==
    /\ prog = [pc |-> "off", round |-> 0, last |-> 0]
    /\ memory = [config |-> {}, best |-> NoMetrics, base |-> NoMetrics]
    /\ draft = Absent
    /\ versions = [v \in Versions |-> Absent]
    /\ log = <<>> /\ tail = "newline"
    /\ crashes = 0

-----------------------------------------------------------------------------
(* _resume_state *)

\* list_versions: half a file is a file.
Existing == {v \in Versions : versions[v].file # "absent"}

Whole(v) == versions[v].file = "whole"
Kept(v) == Whole(v) /\ versions[v].kept
KeptRounds == {r \in Rounds : Kept(r)}

Latest(S) == CHOOSE v \in S : \A w \in S : w <= v

NextRound == IF Existing \cap Rounds = {} THEN 1 ELSE Latest(Existing \cap Rounds) + 1

\* Mutant of Restored: the last version, kept or not.
RestoredLast == versions[Latest(Existing)]

\* The record of the last kept round, else the baseline's; what is unreadable has no metrics.
Restored == IF KeptRounds # {} THEN versions[Latest(KeptRounds)] ELSE versions[0]

\* The base configuration given to evolve() is the one v0 was written from.
Begin(last) ==
    /\ prog.pc = "off"
    /\ last >= NextRound
    /\ IF Existing = {}
       THEN /\ prog' = [pc |-> "baseline", round |-> 0, last |-> last]
            /\ memory' = [config |-> {}, best |-> NoMetrics, base |-> NoMetrics]
       ELSE /\ prog' = [pc |-> "loop", round |-> NextRound, last |-> last]
            /\ memory' = [config |-> Restored.config, best |-> Restored.val, base |-> versions[0].val]
    /\ UNCHANGED <<draft, versions, log, tail, crashes>>

\* A fresh start scores the baseline, which is kept whatever it scores.
Baseline(val) ==
    /\ prog.pc = "baseline"
    /\ memory' = [memory EXCEPT !.best = val, !.base = val]
    /\ draft' = Record(memory.config, val, TRUE)
    /\ prog' = [prog EXCEPT !.pc = "write"]
    /\ UNCHANGED <<versions, log, tail, crashes>>

-----------------------------------------------------------------------------
(* The rounds *)

Improves(val) ==
    /\ val.sharpe # None
    /\ memory.best.sharpe # None => val.sharpe > memory.best.sharpe

\* TURNOVER_MULT is 1.5.
WithinCeiling(val) ==
    /\ val.turnover # None
    /\ memory.base.turnover # None => 2 * val.turnover <= 3 * memory.base.turnover

\* Drawdowns are negative percents.
WithinDrawdown(val) ==
    /\ val.drawdown # None
    /\ memory.best.drawdown # None => val.drawdown >= memory.best.drawdown - Tolerance

\* _default_keep
Keep(val) == Improves(val) /\ WithinCeiling(val) /\ WithinDrawdown(val)

Round == prog.pc = "loop" /\ prog.round <= prog.last

\* The memory after the decision.
Adopted(val) ==
    IF Keep(val)
    THEN [memory EXCEPT !.config = @ \cup {prog.round}, !.best = val]
    ELSE memory

\* A change to the running best, scored and decided on.
Evaluate(val) ==
    /\ Round
    /\ draft' = Record(memory.config \cup {prog.round}, val, Keep(val))
    /\ memory' = Adopted(val)
    /\ prog' = [prog EXCEPT !.pc = "write"]
    /\ UNCHANGED <<versions, log, tail, crashes>>

\* No proposal, one that does not apply, or a backtest that raises.
Skip ==
    /\ Round
    /\ prog' = [prog EXCEPT !.round = @ + 1]
    /\ UNCHANGED <<memory, draft, versions, log, tail, crashes>>

-----------------------------------------------------------------------------
(* write_version and append_path_log *)

Write ==
    /\ prog.pc = "write"
    /\ versions' = [versions EXCEPT ![prog.round] = draft]
    /\ prog' = [prog EXCEPT !.pc = "append"]
    /\ UNCHANGED <<memory, draft, log, tail, crashes>>

Entry == [v |-> prog.round, kept |-> draft.kept]

\* The log when more is written onto an unfinished last line, which no longer parses.
Joined == IF tail = "bare" THEN SubSeq(log, 1, Len(log) - 1) ELSE log

AppendEntry ==
    /\ prog.pc = "append"
    /\ log' = IF tail = "newline" THEN Append(log, Entry) ELSE Joined
    /\ tail' = "newline"
    /\ prog' = [prog EXCEPT !.pc = "loop", !.round = @ + 1]
    /\ UNCHANGED <<memory, draft, versions, crashes>>

\* evolve() returns and run.py scores the best configuration on the test sample.
Finish ==
    /\ prog.pc = "loop" /\ prog.round > prog.last
    /\ prog' = [prog EXCEPT !.pc = "score"]
    /\ UNCHANGED <<memory, draft, versions, log, tail, crashes>>

Score ==
    /\ prog.pc = "score"
    /\ prog' = [prog EXCEPT !.pc = "off"]
    /\ UNCHANGED <<memory, draft, versions, log, tail, crashes>>

-----------------------------------------------------------------------------
(* An invocation that dies, or a write that fails, which nothing catches *)

Dies ==
    /\ crashes < MaxCrashes /\ crashes' = crashes + 1
    /\ prog.pc # "off"
    /\ prog' = [prog EXCEPT !.pc = "off"]
    /\ UNCHANGED <<memory, draft>>

Crash == Dies /\ UNCHANGED <<versions, log, tail>>

\* Half of a version.json: the file is there and does not parse.
CrashInWrite ==
    /\ Dies /\ prog.pc = "write"
    /\ versions' = [versions EXCEPT ![prog.round] = Partial]
    /\ UNCHANGED <<log, tail>>

\* A part of the line, or all of it but the newline.
CrashInAppend ==
    /\ Dies /\ prog.pc = "append"
    /\ \E complete \in BOOLEAN :
        /\ log' = IF tail = "newline" /\ complete THEN Append(log, Entry) ELSE Joined
        /\ tail' = IF tail = "newline" /\ complete THEN "bare" ELSE "torn"
    /\ UNCHANGED versions

Next ==
    \/ \E last \in Rounds : Begin(last)
    \/ \E val \in Metrics : Baseline(val) \/ Evaluate(val)
    \/ Skip \/ Write \/ AppendEntry \/ Finish \/ Score
    \/ Crash \/ CrashInWrite \/ CrashInAppend

Spec == Init /\ [][Next]_vars

-----------------------------------------------------------------------------
(* Who looks the best configuration up *)

LoggedKept == {i \in DOMAIN log : log[i].kept}

\* _best_config of run.py: the last kept entry's, else v0's, else skill_config.yaml.
BestConfig ==
    IF LoggedKept # {} /\ Whole(log[Latest(LoggedKept)].v)
    THEN versions[log[Latest(LoggedKept)].v].config
    ELSE versions[0].config

\* load_best_config of graduate.py: the newest kept entry with a readable version, else skill_config.yaml.
LoadBestConfig ==
    LET readable == {i \in LoggedKept : Whole(log[i].v)}
    IN  IF readable = {} THEN {} ELSE versions[log[Latest(readable)].v].config

-----------------------------------------------------------------------------
(* Properties *)

\* A version carries the changes of all kept versions before it and its own: what was rolled back, or lost
\* in a crash, never comes back, and what was kept is never dropped on a resume.
CarriesWhatWasKept ==
    \A v \in Versions : Whole(v) =>
        versions[v].config = {r \in KeptRounds : r < v} \cup (IF v = 0 THEN {} ELSE {v})

\* Each kept version has a better validation Sharpe than every kept one before it, across all invocations.
KeptImproves ==
    \A s \in KeptRounds : \A r \in {v \in Versions : Kept(v) /\ v < s} :
        /\ versions[s].val.sharpe # None
        /\ versions[r].val.sharpe # None => versions[s].val.sharpe > versions[r].val.sharpe

\* The turnover of kept versions is measured against the first baseline for as long as that can be read,
\* and does not creep up from one kept version to the next.
TurnoverIsAnchored ==
    Whole(0) /\ versions[0].val.turnover # None =>
        \A r \in KeptRounds : 2 * versions[r].val.turnover <= 3 * versions[0].val.turnover

\* Every line of the log that parses names a version that is whole, with the decision it records, in the
\* order of the rounds: the configuration a reader is sent to can always be read.
LoggedIsStored ==
    /\ \A i \in DOMAIN log : Whole(log[i].v) /\ versions[log[i].v].kept = log[i].kept
    /\ \A i, j \in DOMAIN log : i < j => log[i].v < log[j].v

\* The whole versions that no line of the log names, but for the one about to be logged.
Unlogged ==
    {v \in Versions : Whole(v) /\ \A i \in DOMAIN log : log[i].v # v}
        \ (IF prog.pc = "append" THEN {prog.round} ELSE {})

\* An invocation that dies costs the log two rounds at most: its own, and one joined to its unfinished line.
LossIsBounded == Cardinality(Unlogged) <= 2 * crashes

\* The command line and the paper-trading sleeve take the same configuration for the best.
ReadersAgree == BestConfig = LoadBestConfig

=============================================================================
