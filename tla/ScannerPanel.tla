------------------------------ MODULE ScannerPanel ------------------------------
(***************************************************************************)
(* The scanner panel of the web client (scanner-panel.tsx and streamRun of *)
(* scanner-service.ts) before a server that runs scans: requests that are  *)
(* in flight when the user turns to another configuration, runs it again,  *)
(* deletes it or leaves the tab, and the one event stream of the panel.    *)
(*                                                                         *)
(* The browser runs one callback at a time: a step goes from one await, or *)
(* event of the stream, to the next.  A callback of an instance that is no *)
(* longer mounted changes no state, but may still open a stream.           *)
(*                                                                         *)
(* Runs are numbered in the order the server creates them; their last      *)
(* event follows their row at once here, and a stream gets it only if it   *)
(* was opened before (ScanRuns and ScanBroadcaster have the steps).        *)
(***************************************************************************)
EXTENDS Naturals, Sequences, FiniteSets

CONSTANTS
    Configs,
    None,           \* no configuration
    MaxRuns,        \* bound: scans
    MaxMounts,      \* bound: instances of the panel
    MaxMoves        \* bound: selections and clicks

PanelAssumption == None \notin Configs /\ MaxRuns \in Nat /\ {MaxMounts, MaxMoves} \subseteq Nat \ {0}

VARIABLES
    runs,       \* the server's runs: [config, status]
    alive,      \* the server's configurations
    panel,      \* [mount, on, selected, runId, run, status, progress, partial, entries, error, moves]
    attach,     \* the effect of the current selection: [pc, run, status]
    streams,    \* open streams: [mount, run, live]
    fetches,    \* getRunEntries of onComplete: [mount, run]
    clicks,     \* runNow: [mount, config, run], 0 until the server has answered
    left        \* the panel has been turned to another configuration with work of this one in flight

vars == <<runs, alive, panel, attach, streams, fetches, clicks, left>>

Ids == 0..MaxRuns       \* 0 is null
Statuses == {"PENDING", "RUNNING", "COMPLETE", "ERROR"}
UnderWay == {"PENDING", "RUNNING"}

\* No run id, run, progress, entries or error.
Cleared(p) ==
    [p EXCEPT !.runId = 0, !.run = 0, !.status = "ERROR", !.progress = 0, !.partial = FALSE, !.entries = 0,
              !.error = FALSE]

Pending == {"asked", "read", "detail"}
NoAttach == [pc |-> "off", run |-> 0, status |-> "ERROR"]
Attaching == [NoAttach EXCEPT !.pc = "asked"]

\* The shapes; only runs the server knows are shown.
TypeOK ==
    /\ runs \in Seq([config : Configs, status : Statuses]) /\ Len(runs) <= MaxRuns
    /\ alive \subseteq Configs
    /\ panel \in [mount : 1..MaxMounts, on : BOOLEAN, selected : Configs \cup {None}, runId : Ids, run : Ids,
                  status : Statuses, progress : Ids, partial : BOOLEAN, entries : Ids, error : BOOLEAN,
                  moves : 0..MaxMoves]
    /\ attach \in [pc : Pending \cup {"off", "failed"}, run : Ids, status : Statuses]
    /\ streams \subseteq [mount : 1..MaxMounts, run : DOMAIN runs, live : BOOLEAN]
    /\ fetches \subseteq [mount : 1..MaxMounts, run : DOMAIN runs]
    /\ clicks \subseteq [mount : 1..MaxMounts, config : Configs, run : {0} \cup DOMAIN runs]
    /\ {panel.runId, panel.run, panel.progress, panel.entries} \subseteq {0} \cup DOMAIN runs
    /\ left \in BOOLEAN

FirstOf(c) ==
    [mount |-> 1, on |-> TRUE, selected |-> c, runId |-> 0, run |-> 0, status |-> "ERROR", progress |-> 0,
     partial |-> FALSE, entries |-> 0, error |-> FALSE, moves |-> 0]
NothingYet ==
    /\ runs = <<>> /\ alive = Configs
    /\ attach = Attaching
    /\ streams = {} /\ fetches = {} /\ clicks = {} /\ left = FALSE
Init == NothingYet /\ \E c \in Configs : panel = FirstOf(c)

-----------------------------------------------------------------------------
(* The server *)

RunsOf(c) == {r \in DOMAIN runs : runs[r].config = c}
Running(c) == {r \in RunsOf(c) : runs[r].status = "RUNNING"}

NewRun(c) == Append(runs, [config |-> c, status |-> "PENDING"])

\* A run of the schedule; only a RUNNING row keeps it from being started.
Scheduled(c) ==
    /\ c \in alive /\ Running(c) = {} /\ Len(runs) < MaxRuns
    /\ runs' = NewRun(c)
    /\ UNCHANGED <<alive, panel, attach, streams, fetches, clicks, left>>

Begins(r) ==
    /\ runs[r].status = "PENDING"
    /\ runs' = [runs EXCEPT ![r].status = "RUNNING"]
    /\ UNCHANGED <<alive, panel, attach, streams, fetches, clicks, left>>

Ends(r, status) ==
    /\ runs[r].status = "RUNNING" \/ (runs[r].status = "PENDING" /\ status = "ERROR")
    /\ runs' = [runs EXCEPT ![r].status = status]
    /\ UNCHANGED <<alive, panel, attach, streams, fetches, clicks, left>>

-----------------------------------------------------------------------------
(* subscribeToRun and the handlers of its stream *)

Here(s) == panel.on /\ s.mount = panel.mount
Busy == \E s \in streams \cup fetches \cup clicks : Here(s)

Opened(mount, r) == [mount |-> mount, run |-> r, live |-> runs[r].status \in UnderWay]

\* The streams after subscribeToRun, which aborts that of its own instance.
Subscribed(mount, r) == {s \in streams : s.mount # mount} \cup {Opened(mount, r)}

\* More or less than all tickers processed.
StreamProgress(s, partial) ==
    /\ s.live /\ runs[s.run].status = "RUNNING"
    /\ Here(s)
    /\ panel' = [panel EXCEPT !.progress = s.run, !.partial = partial]
    /\ UNCHANGED <<runs, alive, attach, streams, fetches, clicks, left>>

\* The end of the run: on a complete event its entries are fetched, an error is shown.
StreamEnds(s) ==
    /\ s.live /\ runs[s.run].status \notin UnderWay
    /\ streams' = streams \ {s}
    /\ IF runs[s.run].status = "COMPLETE"
       THEN fetches' = fetches \cup {[mount |-> s.mount, run |-> s.run]} /\ UNCHANGED panel
       ELSE UNCHANGED fetches /\ panel' = IF Here(s) THEN [panel EXCEPT !.error = TRUE] ELSE panel
    /\ UNCHANGED <<runs, alive, attach, clicks, left>>

\* onFatal.
StreamBreaks(s) ==
    /\ streams' = streams \ {s}
    /\ panel' = IF Here(s) THEN [panel EXCEPT !.error = TRUE] ELSE panel
    /\ UNCHANGED <<runs, alive, attach, fetches, clicks, left>>

\* Mutant of Completed: the run that is shown stays.
CompletedEntries(r) == [panel EXCEPT !.entries = r]

\* The entries and the run, whatever is selected by now.
Completed(r) == [panel EXCEPT !.entries = r, !.run = r, !.status = "COMPLETE"]

\* The entries arrive, or not: they go with their configuration.
Fetched(f) ==
    /\ fetches' = fetches \ {f}
    /\ panel' \in IF Here(f) THEN {Completed(f.run), [panel EXCEPT !.error = TRUE]} ELSE {panel}
    /\ UNCHANGED <<runs, alive, attach, streams, clicks, left>>

-----------------------------------------------------------------------------
(* The effect of a selection *)

\* Selecting what is selected changes no state.
Select(c) ==
    /\ panel.on /\ panel.selected \in alive /\ panel.moves < MaxMoves
    /\ c \in alive \ {panel.selected}
    /\ panel' = [panel EXCEPT !.selected = c, !.moves = @ + 1]
    /\ attach' = Attaching
    /\ left' = (left \/ Busy)
    /\ UNCHANGED <<runs, alive, streams, fetches, clicks>>

\* The latest run, whatever its status.
Latest(c) == CHOOSE r \in {0} \cup RunsOf(c) : \A other \in RunsOf(c) : r >= other

AttachRead ==
    /\ panel.on /\ attach.pc = "asked" /\ panel.selected \in alive
    /\ LET r == Latest(panel.selected)
       IN  attach' = [pc |-> "read", run |-> r, status |-> IF r = 0 THEN "ERROR" ELSE runs[r].status]
    /\ UNCHANGED <<runs, alive, panel, streams, fetches, clicks, left>>

AttachRunning ==
    /\ panel.on /\ attach.pc = "read" /\ attach.status = "RUNNING"
    /\ panel' = [Cleared(panel) EXCEPT !.runId = attach.run, !.run = attach.run, !.status = "RUNNING"]
    /\ streams' = Subscribed(panel.mount, attach.run)
    /\ attach' = NoAttach
    /\ UNCHANGED <<runs, alive, fetches, clicks, left>>

AttachComplete ==
    /\ panel.on /\ attach.pc = "read" /\ attach.status = "COMPLETE"
    /\ attach' = [attach EXCEPT !.pc = "detail"]
    /\ UNCHANGED <<runs, alive, panel, streams, fetches, clicks, left>>

\* The stream of another run, if there is one, stays open.
AttachEntries ==
    /\ panel.on /\ attach.pc = "detail"
    /\ panel' = [Cleared(panel) EXCEPT !.runId = attach.run, !.run = attach.run, !.status = "COMPLETE",
                                       !.entries = attach.run]
    /\ attach' = NoAttach
    /\ UNCHANGED <<runs, alive, streams, fetches, clicks, left>>

\* No run, a failed one, or one that has not begun: the view is empty.
AttachNothing ==
    /\ panel.on /\ attach.pc = "read" /\ attach.status \in {"PENDING", "ERROR"}
    /\ panel' = Cleared(panel)
    /\ streams' = {s \in streams : s.mount # panel.mount}
    /\ attach' = NoAttach
    /\ UNCHANGED <<runs, alive, fetches, clicks, left>>

\* Whatever is showing is left.
AttachFails ==
    /\ panel.on /\ attach.pc \in Pending
    /\ attach' = [NoAttach EXCEPT !.pc = "failed"]
    /\ UNCHANGED <<runs, alive, panel, streams, fetches, clicks, left>>

-----------------------------------------------------------------------------
(* handleRunNow *)

IsRunning ==
    \/ panel.run # 0 /\ panel.status = "RUNNING"
    \/ panel.runId # 0 /\ panel.progress # 0 /\ panel.partial /\ panel.entries = 0

Click ==
    /\ panel.on /\ panel.selected \in alive /\ ~IsRunning /\ panel.moves < MaxMoves
    /\ panel' = [Cleared(panel) EXCEPT !.moves = @ + 1]
    /\ clicks' = clicks \cup {[mount |-> panel.mount, config |-> panel.selected, run |-> 0]}
    /\ UNCHANGED <<runs, alive, attach, streams, fetches, left>>

\* The server starts a run, or answers the one under way.
Started(k) ==
    /\ k.run = 0 /\ k.config \in alive
    /\ \/ Running(k.config) = {} /\ Len(runs) < MaxRuns /\ runs' = NewRun(k.config)
          /\ clicks' = (clicks \ {k}) \cup {[k EXCEPT !.run = Len(runs) + 1]}
       \/ \E r \in Running(k.config) : clicks' = (clicks \ {k}) \cup {[k EXCEPT !.run = r]} /\ UNCHANGED runs
    /\ UNCHANGED <<alive, panel, attach, streams, fetches, left>>

\* The panel follows the run it is answered, and so does an instance that is gone.
Follow(k) ==
    /\ k.run # 0
    /\ clicks' = clicks \ {k}
    /\ streams' = Subscribed(k.mount, k.run)
    /\ panel' = IF Here(k) THEN [panel EXCEPT !.runId = k.run] ELSE panel
    /\ UNCHANGED <<runs, alive, attach, fetches, left>>

NotStarted(k) ==
    /\ k.run = 0
    /\ clicks' = clicks \ {k}
    /\ panel' = IF Here(k) THEN [panel EXCEPT !.error = TRUE] ELSE panel
    /\ UNCHANGED <<runs, alive, attach, streams, fetches, left>>

-----------------------------------------------------------------------------
(* handleConfirmDelete, and the tab *)

\* The server deletes the configuration with its rows.  A dialog is open until it has answered.
Delete ==
    /\ panel.on /\ panel.selected \in alive
    /\ alive' = alive \ {panel.selected}
    /\ UNCHANGED <<runs, panel, attach, streams, fetches, clicks, left>>

\* The view and its stream are dropped, the next configuration is selected.
Deleted ==
    /\ panel.on /\ panel.selected \in Configs \ alive
    /\ \E c \in IF alive = {} THEN {None} ELSE alive :
        /\ panel' = [Cleared(panel) EXCEPT !.selected = c]
        /\ attach' = IF c = None THEN NoAttach ELSE Attaching
    /\ streams' = {s \in streams : s.mount # panel.mount}
    /\ left' = (left \/ \E f \in fetches \cup clicks : Here(f))
    /\ UNCHANGED <<runs, alive, fetches, clicks>>

\* The effect's clean-up aborts the stream there is.
Unmount ==
    /\ panel.on
    /\ panel' = [Cleared(panel) EXCEPT !.on = FALSE]
    /\ attach' = NoAttach
    /\ streams' = {s \in streams : s.mount # panel.mount}
    /\ left' = FALSE
    /\ UNCHANGED <<runs, alive, fetches, clicks>>

\* The list of configurations is loaded and one of them selected.
Mount ==
    /\ ~panel.on /\ panel.mount < MaxMounts
    /\ \E c \in alive : panel' = [panel EXCEPT !.on = TRUE, !.mount = @ + 1, !.selected = c]
    /\ attach' = Attaching
    /\ UNCHANGED <<runs, alive, streams, fetches, clicks, left>>

Next ==
    \/ \E c \in Configs : Scheduled(c) \/ Select(c)
    \/ \E r \in DOMAIN runs : Begins(r) \/ \E status \in {"COMPLETE", "ERROR"} : Ends(r, status)
    \/ \E s \in streams : (\E partial \in BOOLEAN : StreamProgress(s, partial)) \/ StreamEnds(s) \/ StreamBreaks(s)
    \/ \E f \in fetches : Fetched(f)
    \/ AttachRead \/ AttachRunning \/ AttachComplete \/ AttachEntries \/ AttachNothing \/ AttachFails
    \/ Click
    \/ \E k \in clicks : Started(k) \/ Follow(k) \/ NotStarted(k)
    \/ Delete \/ Deleted \/ Unmount \/ Mount

Spec == Init /\ [][Next]_vars

-----------------------------------------------------------------------------
(* Properties *)

\* An instance of the panel has one stream open at most, mounted or not.
OneStream == \A s, t \in streams : s.mount = t.mount => s = t

\* The entries that are shown are those of the run whose status and end are shown above them.
EntriesAreOfRun == panel.entries # 0 => panel.run = panel.entries

\* Something this instance will hear from: a stream that gets the end of its run, a fetch or a click.
Heard ==
    \/ \E s \in streams : Here(s) /\ s.live
    \/ \E f \in fetches \cup clicks : Here(f)

\* This instance's stream was opened when the last event of its run was out, so that it never hears it: the
\* run ended between the answer RUNNING (or already_running) and the subscription.
TooLate == \E s \in streams : Here(s) /\ ~s.live /\ runs[s.run].status \notin UnderWay

\* A button that says "Running..." is one somebody will release: the panel will hear from a stream or a
\* request, or shows an error.  The exception is the stream that came too late, which leaves the button as
\* it is until it breaks; a run that is under way is always heard.
RunningIsFollowed == IsRunning => Heard \/ TooLate \/ panel.error

\* The runs on show: the id the table and its quotes go by, the run, its progress and its entries.
Shown == {panel.runId, panel.run, panel.progress, panel.entries} \ {0}

\* The request for the latest run of the selection has been answered, and what it answers is on show.
Settled == panel.on /\ attach.pc = "off"

\* Once a selection has settled, everything on show is of the selected configuration, unless work of another
\* configuration was in flight when the user turned away from it.
ShownUnlessLeft == Settled /\ ~left => \A r \in Shown : runs[r].config = panel.selected

=============================================================================
