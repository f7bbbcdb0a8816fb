------------------------------ MODULE EventStream ------------------------------
(***************************************************************************)
(* What the progress stream of a scan run promises a reader, with no       *)
(* threads, locks, event loop or queues: from the moment it joins, the     *)
(* reader sees every event of its run, once and in order, and then the end *)
(* of the stream, provided it joined before the run was over.              *)
(***************************************************************************)
EXTENDS Naturals

CONSTANTS Runs, Readers

VARIABLES
    count,    \* events each run has emitted
    over,     \* runs whose stream has ended
    reader    \* where each reader is, and the window of events it has seen

vars == <<count, over, reader>>

NoRun == 0
Away == [pc |-> "away", run |-> NoRun, from |-> 0, upto |-> 0, late |-> FALSE]

Init ==
    /\ count = [r \in Runs |-> 0]
    /\ over = [r \in Runs |-> FALSE]
    /\ reader = [s \in Readers |-> Away]

Emit(r) ==
    /\ ~over[r]
    /\ count' = [count EXCEPT ![r] = @ + 1]
    /\ UNCHANGED <<over, reader>>

Finish(r) ==
    /\ ~over[r]
    /\ over' = [over EXCEPT ![r] = TRUE]
    /\ UNCHANGED <<count, reader>>

\* The window opens at the events emitted so far.
Join(s, r) ==
    /\ reader[s].pc = "away"
    /\ reader' = [reader EXCEPT ![s] = [pc |-> "reading", run |-> r, from |-> count[r],
                                        upto |-> count[r], late |-> over[r]]]
    /\ UNCHANGED <<count, over>>

\* Always the next event: no gap, no repetition.
Receive(s) ==
    /\ reader[s].pc = "reading"
    /\ reader[s].upto < count[reader[s].run]
    /\ reader' = [reader EXCEPT ![s].upto = @ + 1]
    /\ UNCHANGED <<count, over>>

\* The end comes after the last event.
End(s) ==
    /\ reader[s].pc = "reading"
    /\ ~reader[s].late
    /\ over[reader[s].run]
    /\ reader[s].upto = count[reader[s].run]
    /\ reader' = [reader EXCEPT ![s].pc = "ended"]
    /\ UNCHANGED <<count, over>>

Leave(s) ==
    /\ reader[s].pc \in {"away", "reading"}
    /\ reader' = [reader EXCEPT ![s] = [Away EXCEPT !.pc = "left"]]
    /\ UNCHANGED <<count, over>>

Next ==
    \/ \E r \in Runs : Emit(r) \/ Finish(r)
    \/ \E s \in Readers, r \in Runs : Join(s, r)
    \/ \E s \in Readers : Receive(s) \/ End(s) \/ Leave(s)

Spec == Init /\ [][Next]_vars

\* A reader that stays is served.
Fairness == \A s \in Readers : WF_vars(Receive(s)) /\ WF_vars(End(s))

FairSpec == Spec /\ Fairness
=============================================================================
