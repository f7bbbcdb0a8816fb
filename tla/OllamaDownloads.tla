---------------------------- MODULE OllamaDownloads ----------------------------
(***************************************************************************)
(* Downloads of local models with their progress                           *)
(* (app/backend/services/ollama_service.py): every request is a generator  *)
(* that relays what the Ollama server reports and keeps one entry per      *)
(* model in _download_progress, which other requests read and cancel.      *)
(* Generators run on one event loop: a step goes from one await, or yield, *)
(* to the next.                                                            *)
(*                                                                         *)
(* The server is external: it fetches a model layer by layer, reporting    *)
(* each until its completed bytes are its total (the code reads both, and  *)
(* the layer's digest), installs the model after the last one, and stops   *)
(* when the connection is closed.                                          *)
(***************************************************************************)
EXTENDS Naturals, FiniteSets

CONSTANTS
    Downloads,      \* requests for a download
    Models,
    Layers,         \* of a model
    MaxCancels,     \* bound: cancellations
    None            \* no entry

OllamaAssumption == Layers \in Nat \ {0} /\ MaxCancels \in Nat

VARIABLES
    progress,   \* _download_progress: model -> the status of its entry
    downloads,  \* request -> [model, pc, left, told]: told is the last status sent to its page
    installed,  \* the models the server has
    cancels,
    cut         \* the models a page of which left while its generator was waiting

vars == <<progress, downloads, installed, cancels, cut>>

Active == {"starting", "downloading"}
Statuses == Active \cup {"completed", "error", "cancelled", None}

\* The shapes; a generator that still reads has told its page nothing final.
TypeOK ==
    /\ progress \in [Models -> Statuses]
    /\ downloads \in [Downloads -> [model : Models \cup {None}, left : 0..Layers, told : Statuses,
                                    pc : {"new", "check", "pull", "finally", "ended"}]]
    /\ installed \subseteq Models /\ cut \subseteq Models /\ cancels \in 0..MaxCancels
    /\ \A d \in Downloads : downloads[d].pc = "pull" => downloads[d].told \in Active

Init ==
    /\ progress = [m \in Models |-> None]
    /\ downloads = [d \in Downloads |-> [model |-> None, pc |-> "new", left |-> 0, told |-> None]]
    /\ installed = {} /\ cut = {} /\ cancels = 0

Model(d) == downloads[d].model
Live == {d \in Downloads : downloads[d].pc \in {"check", "pull", "finally"}}

\* A status is put into the entry and sent to the page.
Report(d, status, pc) ==
    /\ progress' = [progress EXCEPT ![Model(d)] = status]
    /\ downloads' = [downloads EXCEPT ![d].told = status, ![d].pc = pc]
    /\ UNCHANGED <<cancels, cut>>

Request(d, m) ==
    /\ downloads[d].pc = "new"
    /\ downloads' = [downloads EXCEPT ![d].model = m, ![d].pc = "check", ![d].left = Layers]
    /\ UNCHANGED <<progress, installed, cancels, cut>>

Start(d) ==
    /\ downloads[d].pc = "check"
    /\ Report(d, "starting", "pull")
    /\ UNCHANGED installed

\* The page is told that there is no server; the entry, another request's, is not touched before the end.
NoServer(d) ==
    /\ downloads[d].pc = "check"
    /\ downloads' = [downloads EXCEPT ![d].told = "error", ![d].pc = "finally"]
    /\ UNCHANGED <<progress, installed, cancels, cut>>

\* What the server reports of a layer, or of its preparations.
Progress(d) ==
    /\ downloads[d].pc = "pull"
    /\ Report(d, "downloading", "pull")
    /\ UNCHANGED installed

\* A layer is complete, which _process_download_progress takes for the whole model.
LayerComplete(d) ==
    /\ downloads[d].pc = "pull" /\ downloads[d].left > 0
    /\ progress' = [progress EXCEPT ![Model(d)] = "completed"]
    /\ downloads' = [downloads EXCEPT ![d].told = "completed", ![d].pc = "finally", ![d].left = @ - 1]
    /\ UNCHANGED <<installed, cancels, cut>>

\* The server has all layers: it installs the model and reports success.
Success(d) ==
    /\ downloads[d].pc = "pull" /\ downloads[d].left = 0
    /\ installed' = installed \cup {Model(d)}
    /\ Report(d, "completed", "finally")

Fail(d) ==
    /\ downloads[d].pc = "pull"
    /\ Report(d, "error", "finally")
    /\ UNCHANGED installed

\* The connection to the server outlives the loop that read it by the second of the finally block.
FetchUnread(d) ==
    /\ downloads[d].pc = "finally" /\ downloads[d].told = "completed"
    /\ IF downloads[d].left > 0
       THEN downloads' = [downloads EXCEPT ![d].left = @ - 1] /\ UNCHANGED installed
       ELSE Model(d) \notin installed /\ installed' = installed \cup {Model(d)} /\ UNCHANGED downloads
    /\ UNCHANGED <<progress, cancels, cut>>

\* The end of the finally block, a second later: the entry goes, whoever wrote it.
CleanUp(d) ==
    /\ downloads[d].pc = "finally"
    /\ progress' = [progress EXCEPT ![Model(d)] = None]
    /\ downloads' = [downloads EXCEPT ![d].pc = "ended"]
    /\ UNCHANGED <<installed, cancels, cut>>

\* The page leaves.  A generator at a yield is closed later and does its finally block; one at an await is
\* cancelled there, and again at the sleep of its finally block, and leaves the entry.
LeaveAtYield(d) ==
    /\ downloads[d].pc = "pull"
    /\ downloads' = [downloads EXCEPT ![d].pc = "finally"]
    /\ UNCHANGED <<progress, installed, cancels, cut>>

LeaveAtAwait(d) ==
    /\ downloads[d].pc \in {"check", "pull", "finally"}
    /\ downloads' = [downloads EXCEPT ![d].pc = "ended"]
    /\ cut' = cut \cup (IF downloads[d].pc = "check" THEN {} ELSE {Model(d)})
    /\ UNCHANGED <<progress, installed, cancels>>

\* cancel_download: the entry says so; nothing tells the generator.
Cancel(m) ==
    /\ cancels < MaxCancels /\ cancels' = cancels + 1
    /\ progress[m] # None
    /\ progress' = [progress EXCEPT ![m] = "cancelled"]
    /\ UNCHANGED <<downloads, installed, cut>>

Next ==
    \/ \E d \in Downloads :
        \/ \E m \in Models : Request(d, m)
        \/ Start(d) \/ NoServer(d)
        \/ Progress(d) \/ LayerComplete(d) \/ Success(d) \/ Fail(d) \/ FetchUnread(d)
        \/ CleanUp(d) \/ LeaveAtYield(d) \/ LeaveAtAwait(d)
    \/ \E m \in Models : Cancel(m)

Spec == Init /\ [][Next]_vars

\* The server answers every pull in the end, and the event loop runs what is ready.
Fairness ==
    \A d \in Downloads :
        /\ WF_vars(Start(d) \/ NoServer(d))
        /\ WF_vars(LayerComplete(d) \/ Success(d) \/ Fail(d))
        /\ WF_vars(CleanUp(d))

FairSpec == Spec /\ Fairness

-----------------------------------------------------------------------------
(* Properties *)

\* Every entry goes in the end, whatever became of its downloads, unless one was cut off while it waited.
EntriesGo ==
    \A m \in Models : progress[m] # None ~> (progress[m] = None \/ m \in cut)
=============================================================================
