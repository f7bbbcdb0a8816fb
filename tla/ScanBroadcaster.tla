---------------------------- MODULE ScanBroadcaster ----------------------------
(***************************************************************************)
(* The fan-out of scan events (app/backend/services/scan_broadcaster.py    *)
(* and the stream route of app/backend/routes/scanner.py): the thread of a *)
(* run publishes, the event loop of the server runs the callbacks it is    *)
(* handed and serves one coroutine per subscriber.                         *)
(*                                                                         *)
(* An action is what happens under one hold of the lock, or between two    *)
(* awaits of the event loop.                                               *)
(***************************************************************************)
EXTENDS Naturals, Sequences, Functions

CONSTANTS
    Runs,          \* run ids
    Subscribers,   \* requests for a stream
    MaxEvents,     \* events a run may publish
    LoopMayClose   \* does the model let the server's event loop close

ASSUME ScanBroadcasterAssumption ==
    /\ MaxEvents \in Nat \ {0}
    /\ LoopMayClose \in BOOLEAN
    /\ 0 \notin Runs

VARIABLES
    subs,     \* _subs: the registered queues of each run, in order
    feed,     \* the publishing thread of each run
    loop,     \* the event loop: open or closed, and its pending callbacks
    stream    \* the subscribe() generator and the route behind each request

vars == <<subs, feed, loop, stream>>

NoRun == 0
None == 0                                \* the end-of-stream sentinel
Items == [run : Runs, n : 0..MaxEvents]  \* event n of a run, None when it is over
Registered == {"waiting", "yielded", "leaving"}

Feed == [n : 0..MaxEvents, closed : BOOLEAN, todo : Seq(Subscribers)]
Stream == [pc : {"idle", "opened", "ended", "left"} \cup Registered,
           run : Runs \cup {NoRun}, queue : Seq(Items), got : Seq(Items),
           from : 0..MaxEvents, late : BOOLEAN]

\* A queue is registered at most once in the list of a run.
TypeOK ==
    /\ subs \in [Runs -> Seq(Subscribers)]
    /\ \A r \in Runs : IsInjective(subs[r])
    /\ feed \in [Runs -> Feed]
    /\ loop \in [open : BOOLEAN, ready : Seq(Subscribers \X Items)]
    /\ stream \in [Subscribers -> Stream]

Init ==
    /\ subs = [r \in Runs |-> <<>>]
    /\ feed = [r \in Runs |-> [n |-> 0, closed |-> FALSE, todo |-> <<>>]]
    /\ loop = [open |-> TRUE, ready |-> <<>>]
    /\ stream = [s \in Subscribers |-> [pc |-> "idle", run |-> NoRun, queue |-> <<>>,
                                        got |-> <<>>, from |-> 0, late |-> FALSE]]

-----------------------------------------------------------------------------
\* The publishing thread of a run: one per run, so its calls follow one another.

\* Mutant of Publish: the list is copied before the lock is taken, so a subscriber
\* that is registered right now misses out.
PublishStale(r) ==
    /\ ~feed[r].closed
    /\ feed[r].todo = <<>>
    /\ feed[r].n < MaxEvents
    /\ \E copy \in {subs[r], SelectSeq(subs[r], LAMBDA s : stream[s].got # <<>>)} :
          feed' = [feed EXCEPT ![r].n = @ + 1, ![r].todo = copy]
    /\ UNCHANGED <<subs, loop, stream>>

\* publish(): a copy of the subscribers is taken under the lock ...
Publish(r) ==
    /\ ~feed[r].closed
    /\ feed[r].todo = <<>>
    /\ feed[r].n < MaxEvents
    /\ feed' = [feed EXCEPT ![r].n = @ + 1, ![r].todo = subs[r]]
    /\ UNCHANGED <<subs, loop, stream>>

\* close(): the same with the sentinel, after the run's last event.
Close(r) ==
    /\ ~feed[r].closed
    /\ feed[r].todo = <<>>
    /\ feed[r].n > 0
    /\ feed' = [feed EXCEPT ![r].closed = TRUE, ![r].todo = subs[r]]
    /\ UNCHANGED <<subs, loop, stream>>

Item(r) == [run |-> r, n |-> IF feed[r].closed THEN None ELSE feed[r].n]

\* ... and then, without the lock, each of them is handed a put_nowait through
\* call_soon_threadsafe; a closed loop raises, and the subscriber is skipped.
Schedule(r) ==
    /\ feed[r].todo # <<>>
    /\ feed' = [feed EXCEPT ![r].todo = Tail(@)]
    /\ loop' = IF loop.open
               THEN [loop EXCEPT !.ready = Append(@, <<Head(feed[r].todo), Item(r)>>)]
               ELSE loop
    /\ UNCHANGED <<subs, stream>>

\* The loop runs its callbacks first in, first out; the queue has no bound.
RunCallback ==
    /\ loop.open
    /\ loop.ready # <<>>
    /\ LET call == Head(loop.ready)
       IN  stream' = [stream EXCEPT ![call[1]].queue = Append(@, call[2])]
    /\ loop' = [loop EXCEPT !.ready = Tail(@)]
    /\ UNCHANGED <<subs, feed>>

\* The server shuts down with streams still open.
LoopCloses ==
    /\ LoopMayClose
    /\ loop.open
    /\ loop' = [open |-> FALSE, ready |-> <<>>]
    /\ UNCHANGED <<subs, feed, stream>>

-----------------------------------------------------------------------------
\* A request for the stream of a run.

\* stream_run: the response starts with an event of its own.
Open(s, r) ==
    /\ loop.open
    /\ stream[s].pc = "idle"
    /\ stream' = [stream EXCEPT ![s].pc = "opened", ![s].run = r]
    /\ UNCHANGED <<subs, feed, loop>>

\* subscribe(), up to its first await.  `from' and `late' remember how far the run was.
Register(s) ==
    /\ loop.open
    /\ stream[s].pc = "opened"
    /\ LET r == stream[s].run
       IN  /\ subs' = [subs EXCEPT ![r] = Append(@, s)]
           /\ stream' = [stream EXCEPT ![s].pc = "waiting", ![s].from = feed[r].n,
                                       ![s].late = feed[r].closed]
    /\ UNCHANGED <<feed, loop>>

\* A list without one queue, which is in it at most once: the others keep their order.
Without(list, s) ==
    IF s \notin Range(list) THEN list
    ELSE [i \in 1..(Len(list) - 1) |->
             IF \E j \in 1..i : list[j] = s THEN list[i + 1] ELSE list[i]]

\* Mutant of Unregister: the list is edited in place, under a publisher's iteration.
UnregisterInPlace(s) ==
    /\ subs' = [subs EXCEPT ![stream[s].run] = Without(@, s)]
    /\ feed' = [feed EXCEPT ![stream[s].run].todo = IF @ = <<>> THEN @ ELSE Tail(@)]

\* The finally clause: a new list without this queue.
Unregister(s) ==
    /\ subs' = [subs EXCEPT ![stream[s].run] = Without(@, s)]
    /\ UNCHANGED feed

\* The generator takes the next item: an event is yielded to the route, the sentinel
\* ends the stream.
Get(s) ==
    /\ loop.open
    /\ stream[s].pc = "waiting"
    /\ stream[s].queue # <<>>
    /\ LET item == Head(stream[s].queue)
       IN  \/ /\ item.n # None
              /\ stream' = [stream EXCEPT ![s].queue = Tail(@), ![s].pc = "yielded",
                                          ![s].got = Append(@, item)]
              /\ UNCHANGED <<subs, feed>>
           \/ /\ item.n = None
              /\ stream' = [stream EXCEPT ![s].queue = Tail(@), ![s].pc = "ended"]
              /\ Unregister(s)
    /\ UNCHANGED loop

\* The route has sent the event and asks for the next one.
Sent(s) ==
    /\ loop.open
    /\ stream[s].pc = "yielded"
    /\ stream' = [stream EXCEPT ![s].pc = "waiting"]
    /\ UNCHANGED <<subs, feed, loop>>

\* is_disconnected() breaks the loop of the route; the abandoned generator is closed
\* by a later callback of the loop.
Break(s) ==
    /\ loop.open
    /\ stream[s].pc = "yielded"
    /\ stream' = [stream EXCEPT ![s].pc = "leaving"]
    /\ UNCHANGED <<subs, feed, loop>>

\* Mutant of Leave: no finally clause.
LeaveWithoutCleanUp(s) ==
    /\ stream[s].pc \in {"waiting", "leaving"}
    /\ stream' = [stream EXCEPT ![s].pc = "left"]
    /\ UNCHANGED <<subs, feed, loop>>

\* The generator is closed, or the disconnect cancels it in its await.
Leave(s) ==
    /\ loop.open
    /\ stream[s].pc \in {"waiting", "leaving"}
    /\ stream' = [stream EXCEPT ![s].pc = "left"]
    /\ Unregister(s)
    /\ UNCHANGED loop

\* The client is gone before the generator started.
Abandon(s) ==
    /\ loop.open
    /\ stream[s].pc = "opened"
    /\ stream' = [stream EXCEPT ![s].pc = "left"]
    /\ UNCHANGED <<subs, feed, loop>>

-----------------------------------------------------------------------------
Next ==
    \/ \E r \in Runs : Publish(r) \/ Close(r) \/ Schedule(r)
    \/ RunCallback \/ LoopCloses
    \/ \E s \in Subscribers, r \in Runs : Open(s, r)
    \/ \E s \in Subscribers : Register(s) \/ Get(s) \/ Sent(s) \/ Break(s) \/ Leave(s) \/ Abandon(s)

Spec == Init /\ [][Next]_vars

\* Threads and the loop are scheduled; a run's thread reaches its finally clause; an
\* abandoned generator is finalised.  No client has to disconnect.
Fairness ==
    /\ \A r \in Runs : WF_vars(Schedule(r)) /\ WF_vars(Close(r))
    /\ WF_vars(RunCallback)
    /\ \A s \in Subscribers :
         /\ WF_vars(Register(s))
         /\ WF_vars(Get(s))
         /\ WF_vars(Sent(s))
         /\ WF_vars(stream[s].pc = "leaving" /\ Leave(s))

FairSpec == Spec /\ Fairness

-----------------------------------------------------------------------------
\* Properties.

\* Every subscriber has received exactly the events of its own run, in the order they
\* were published and without a gap, starting with the first one published after it
\* registered: whoever else comes and goes, and however callbacks interleave.
NothingMissedOrRepeated ==
    \A s \in Subscribers : \A i \in DOMAIN stream[s].got :
        stream[s].got[i] = [run |-> stream[s].run, n |-> stream[s].from + i]

\* A queue stays listed exactly as long as its generator lives: no queue of a client
\* that has gone keeps filling up.
ListedWhileAlive ==
    \A s \in Subscribers, r \in Runs :
        s \in Range(subs[r]) <=> stream[s].pc \in Registered /\ stream[s].run = r

\* How far an item takes a reader of the run: the sentinel comes after the last event.
Rank(r, n) == IF n = None THEN feed[r].n + 1 ELSE n

\* The rank up to which the pipe holds what its subscriber is due: everything the run
\* has announced, except what its thread still has to hand over; nothing that was
\* announced before the subscriber registered.
Announced(r) == IF feed[r].closed THEN feed[r].n + 1 ELSE feed[r].n
Due(s) ==
    IF stream[s].late THEN stream[s].from
    ELSE IF s \in Range(feed[stream[s].run].todo) THEN Announced(stream[s].run) - 1
    ELSE Announced(stream[s].run)
Queued(s) == stream[s].from + Len(stream[s].got) + Len(stream[s].queue)

\* Where the pending callbacks take a subscriber, 0 for those that are not its own.
Pending(s) == [j \in DOMAIN loop.ready |->
                  IF loop.ready[j][1] = s THEN Rank(loop.ready[j][2].run, loop.ready[j][2].n)
                  ELSE 0]

\* Ranks that go up from one number to another, each once.
Climbs(ranks, low, high) ==
    /\ low <= high
    /\ \A j \in DOMAIN ranks : ranks[j] # 0 => ranks[j] > low /\ ranks[j] <= high
    /\ \A i, j \in DOMAIN ranks : i < j /\ ranks[i] # 0 /\ ranks[j] # 0 => ranks[i] < ranks[j]
    /\ \A n \in (low + 1)..high : \E j \in DOMAIN ranks : ranks[j] = n

\* Who a run's thread and the loop's callbacks may still be serving, and what they carry.
ItemInv(item, s) ==
    /\ item.run = stream[s].run
    /\ item.n = None => feed[item.run].closed
    /\ item.n <= feed[item.run].n

FeedInv ==
    \A r \in Runs :
        /\ IsInjective(feed[r].todo)
        /\ feed[r].todo # <<>> => feed[r].n > 0
        /\ \A s \in Range(feed[r].todo) : /\ stream[s].run = r /\ ~stream[s].late
                                         /\ stream[s].pc \notin {"idle", "opened"}

StreamInv(s) ==
    /\ stream[s].pc \in {"idle", "opened"} =>
         stream[s].queue = <<>> /\ stream[s].got = <<>> /\ ~stream[s].late
    /\ stream[s].pc # "idle" => stream[s].run \in Runs
    /\ stream[s].late => feed[stream[s].run].closed
    /\ \A i \in DOMAIN stream[s].queue : ItemInv(stream[s].queue[i], s)

ReadyInv ==
    \A j \in DOMAIN loop.ready :
        /\ stream[loop.ready[j][1]].pc \notin {"idle", "opened"}
        /\ ItemInv(loop.ready[j][2], loop.ready[j][1])

\* The pipe of a registered subscriber: behind what it got, its queue and then the
\* pending callbacks carry the following items one by one, up to what is due.
PipeInv(s) ==
    /\ \A i \in DOMAIN stream[s].queue :
         Rank(stream[s].run, stream[s].queue[i].n) = stream[s].from + Len(stream[s].got) + i
    /\ Climbs(Pending(s), Queued(s), Due(s))

BroadcastInv ==
    /\ ListedWhileAlive /\ NothingMissedOrRepeated
    /\ FeedInv /\ ReadyInv
    /\ \A s \in Subscribers :
         /\ StreamInv(s)
         /\ loop.open /\ stream[s].pc \in Registered => PipeInv(s)

\* The broadcaster implements the stream its readers are promised; and unless the server
\* shuts down, a reader that stays gets every event and the end.
Promise == INSTANCE EventStream WITH
    Readers <- Subscribers,
    count <- [r \in Runs |-> feed[r].n],
    over <- [r \in Runs |-> feed[r].closed],
    reader <- [s \in Subscribers |->
        IF stream[s].pc \in {"idle", "opened", "left"}
        THEN [pc |-> IF stream[s].pc = "left" THEN "left" ELSE "away",
              run |-> NoRun, from |-> 0, upto |-> 0, late |-> FALSE]
        ELSE [pc |-> IF stream[s].pc = "ended" THEN "ended" ELSE "reading",
              run |-> stream[s].run,
              from |-> stream[s].from,
              upto |-> stream[s].from + Len(stream[s].got),
              late |-> stream[s].late]]

KeepsPromise == Promise!Spec /\ ([]loop.open => Promise!Fairness)

\* The route's claim: a stream opened for a run that has already finished ends.
FinishedRunEndsStream ==
    \A s \in Subscribers :
        (stream[s].pc = "opened" /\ feed[stream[s].run].closed) ~>
            stream[s].pc \in {"ended", "left"}
=============================================================================
