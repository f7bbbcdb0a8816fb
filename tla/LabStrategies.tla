----------------------------- MODULE LabStrategies -----------------------------
(***************************************************************************)
(* One strategy of the lab (app/backend/routes/lab.py) under requests that *)
(* overlap: manual edits, chat turns that wait for the language model,     *)
(* applied proposals, backtests and a deletion.  Every request has a       *)
(* session of its own; each commit is a step.                              *)
(*                                                                         *)
(* The database reads what is committed, and cascades a deletion; the      *)
(* session keeps the row it has read until its next commit, so that the    *)
(* version an update adds one to is that of the request's first read.      *)
(***************************************************************************)
EXTENDS Integers, Sequences, FiniteSets

CONSTANTS
    Requests,
    Specs, InitialSpec,
    None

LabStrategiesAssumption == InitialSpec \in Specs /\ None \notin Specs

VARIABLES
    strategy,   \* the row: [alive, spec, version]
    chat,       \* lab_chat_messages, oldest first
    backtests,  \* the specs of the stored backtests
    requests,   \* request -> [kind, pc, version, spec, base, msg]
    edits,      \* the specs committed so far, oldest first
    overlapped  \* two requests have been changing the specification at once

vars == <<strategy, chat, backtests, requests, edits, overlapped>>

Roles == {"user", "assistant", "user_manual_edit"}
Kinds == {"edit", "apply", "chat", "backtest", "delete"}

\* A message; base is the number of edits that are in the specification it is about, and answers
\* the message an answer is to.
Message(role, patch, base, answers) ==
    [role |-> role, patch |-> patch, accepted |-> FALSE, base |-> base, answers |-> answers]

NoRequest == [kind |-> None, pc |-> "new", version |-> 0, spec |-> None, base |-> 0, msg |-> 0]

\* The shapes; nothing hangs on a strategy that is gone.
TypeOK ==
    /\ strategy \in [alive : BOOLEAN, spec : Specs, version : Nat \ {0}]
    /\ \A i \in DOMAIN chat :
        chat[i] \in [role : Roles, patch : Specs \cup {None}, accepted : BOOLEAN, base : Nat, answers : 0..i]
    /\ backtests \subseteq Specs
    /\ requests \in [Requests -> [kind : Kinds \cup {None}, version : Nat, spec : Specs \cup {None},
                                  base : Nat, msg : Nat,
                                  pc : {"new", "update", "log", "mark", "post", "prompt", "model", "run", "done"}]]
    /\ edits \in Seq(Specs) /\ overlapped \in BOOLEAN
    /\ ~strategy.alive => chat = <<>> /\ backtests = {}

Init ==
    /\ strategy = [alive |-> TRUE, spec |-> InitialSpec, version |-> 1]
    /\ chat = <<>> /\ backtests = {}
    /\ requests = [r \in Requests |-> NoRequest]
    /\ edits = <<>> /\ overlapped = FALSE

At(r, kind, pc) == requests[r].kind = kind /\ requests[r].pc = pc
Goes(r, pc) == requests' = [requests EXCEPT ![r].pc = pc]
Changing == {r \in Requests : requests[r].pc = "update"}

\* The first read of a request, which answers 404 if there is no strategy.
Arrives(r, kind, pc, spec, msg) ==
    /\ requests[r] = NoRequest /\ strategy.alive
    /\ requests' = [requests EXCEPT ![r] =
            [kind |-> kind, pc |-> pc, version |-> strategy.version, spec |-> spec, base |-> Len(edits), msg |-> msg]]
    /\ overlapped' = (overlapped \/ (pc = "update" /\ Changing # {}))
    /\ UNCHANGED <<strategy, chat, backtests, edits>>

\* update_spec of a row that is there, with the version the session knows.
Updated(r, pc) ==
    /\ strategy' = [strategy EXCEPT !.spec = requests[r].spec, !.version = requests[r].version + 1]
    /\ edits' = Append(edits, requests[r].spec)
    /\ requests' = [requests EXCEPT ![r].pc = pc, ![r].base = Len(edits) + 1]
    /\ UNCHANGED <<chat, backtests, overlapped>>

\* What a statement on a deleted row, or one that refers to it, comes to: an answer of 500, or of 404.
FailsIfGone(r) ==
    /\ requests[r].pc \notin {"new", "done"} /\ ~strategy.alive
    /\ Goes(r, "done")
    /\ UNCHANGED <<strategy, chat, backtests, edits, overlapped>>

-----------------------------------------------------------------------------
(* PATCH /lab/strategies/{id} *)

Edit(r, spec) == Arrives(r, "edit", "update", spec, 0)

EditUpdate(r) == At(r, "edit", "update") /\ strategy.alive /\ Updated(r, "log")

EditLog(r) ==
    /\ At(r, "edit", "log") /\ strategy.alive
    /\ chat' = Append(chat, Message("user_manual_edit", requests[r].spec, requests[r].base, 0))
    /\ Goes(r, "done")
    /\ UNCHANGED <<strategy, backtests, edits, overlapped>>

-----------------------------------------------------------------------------
(* POST /lab/strategies/{id}/chat/apply *)

IsProposal(i) == chat[i].role = "assistant" /\ chat[i].patch # None

Apply(r, i) == i \in DOMAIN chat /\ IsProposal(i) /\ Arrives(r, "apply", "update", chat[i].patch, i)

ApplyUpdate(r) == At(r, "apply", "update") /\ strategy.alive /\ Updated(r, "mark")

ApplyMark(r) ==
    /\ At(r, "apply", "mark") /\ strategy.alive
    /\ chat' = [chat EXCEPT ![requests[r].msg].accepted = TRUE]
    /\ Goes(r, "done")
    /\ UNCHANGED <<strategy, backtests, edits, overlapped>>

-----------------------------------------------------------------------------
(* POST /lab/strategies/{id}/chat *)

Chat(r) == Arrives(r, "chat", "post", strategy.spec, 0)

ChatPost(r) ==
    /\ At(r, "chat", "post") /\ strategy.alive
    /\ chat' = Append(chat, Message("user", None, Len(edits), 0))
    /\ requests' = [requests EXCEPT ![r].pc = "prompt", ![r].msg = Len(chat) + 1]
    /\ UNCHANGED <<strategy, backtests, edits, overlapped>>

\* Mutant of PromptedWith: the specification read when the request arrived.
PromptedWithFirst(r) == [requests[r] EXCEPT !.pc = "model"]

\* The commit of the message has expired the row: the prompt takes the specification as it is by now.
PromptedWith(r) == [requests[r] EXCEPT !.pc = "model", !.spec = strategy.spec, !.base = Len(edits)]

ChatPrompt(r) ==
    /\ At(r, "chat", "prompt") /\ strategy.alive
    /\ requests' = [requests EXCEPT ![r] = PromptedWith(r)]
    /\ UNCHANGED <<strategy, chat, backtests, edits, overlapped>>

\* The model proposes a specification or just answers; a proposal that is not valid is stored as an answer,
\* and a provider without its key leaves the message without one.
ChatAnswer(r, patch) ==
    /\ At(r, "chat", "model") /\ strategy.alive
    /\ chat' = Append(chat, Message("assistant", patch, requests[r].base, requests[r].msg))
    /\ Goes(r, "done")
    /\ UNCHANGED <<strategy, backtests, edits, overlapped>>

ChatRefused(r) ==
    /\ At(r, "chat", "model") /\ strategy.alive
    /\ Goes(r, "done")
    /\ UNCHANGED <<strategy, chat, backtests, edits, overlapped>>

-----------------------------------------------------------------------------
(* POST /lab/strategies/{id}/backtest and DELETE /lab/strategies/{id} *)

Backtest(r) == Arrives(r, "backtest", "run", strategy.spec, 0)

BacktestStore(r) ==
    /\ At(r, "backtest", "run") /\ strategy.alive
    /\ backtests' = backtests \cup {requests[r].spec}
    /\ Goes(r, "done")
    /\ UNCHANGED <<strategy, chat, edits, overlapped>>

Delete(r) ==
    /\ requests[r] = NoRequest /\ strategy.alive
    /\ strategy' = [strategy EXCEPT !.alive = FALSE]
    /\ chat' = <<>> /\ backtests' = {}
    /\ requests' = [requests EXCEPT ![r] = [NoRequest EXCEPT !.kind = "delete", !.pc = "done"]]
    /\ UNCHANGED <<edits, overlapped>>

Next ==
    \E r \in Requests :
        \/ \E spec \in Specs : Edit(r, spec)
        \/ \E i \in 1..Len(chat) : Apply(r, i)
        \/ \E patch \in Specs \cup {None} : ChatAnswer(r, patch)
        \/ EditUpdate(r) \/ EditLog(r) \/ ApplyUpdate(r) \/ ApplyMark(r)
        \/ Chat(r) \/ ChatPost(r) \/ ChatPrompt(r) \/ ChatRefused(r)
        \/ Backtest(r) \/ BacktestStore(r) \/ Delete(r) \/ FailsIfGone(r)

Spec == Init /\ [][Next]_vars

-----------------------------------------------------------------------------
(* Properties *)

\* A proposal that is marked accepted has been the strategy's specification.
AcceptedWasApplied ==
    \A i \in DOMAIN chat : chat[i].accepted => \E k \in DOMAIN edits : edits[k] = chat[i].patch

\* Every change of the specification is told in the chat, by the message of a manual edit or by an accepted
\* proposal, or its request is about to tell it.
ChangesAreTold ==
    strategy.alive => \A k \in DOMAIN edits :
        \/ \E i \in DOMAIN chat : chat[i].role = "user_manual_edit" /\ chat[i].base = k
        \/ \E i \in DOMAIN chat : chat[i].accepted /\ chat[i].patch = edits[k]
        \/ \E r \in Requests : requests[r].pc \in {"log", "mark"} /\ requests[r].base = k

\* A proposal starts from a specification that includes every edit the chat tells of before the message it
\* answers: the model is never asked about a specification older than what the user can see.
ProposalsKnowEdits ==
    \A p, e \in DOMAIN chat :
        IsProposal(p) /\ chat[e].role = "user_manual_edit" /\ e < chat[p].answers => chat[p].base >= chat[e].base

\* Changes that do not overlap add one to the version each.
SequentialChangesCount == ~overlapped => strategy.version = 1 + Len(edits)

=============================================================================
