------------------------------- MODULE RateLimit -------------------------------
(***************************************************************************)
(* The Finnhub client's way to a request (v2/data/finnhub_client.py): a    *)
(* throttle per client, a token bucket shared by all clients of the        *)
(* process, and retries of what the provider refused as too many.  Each    *)
(* thread has a client of its own (runner.py builds one per worker).       *)
(*                                                                         *)
(* Tokens are counted in units: the bucket gains Rate of them per tick and *)
(* a request costs Cost.                                                   *)
(***************************************************************************)
EXTENDS Integers, Sequences

CONSTANTS
    Threads,
    Capacity, Rate, Cost,   \* of the bucket: 1.0, 0.95 and 1.0 in the code
    MinInterval,            \* min_call_interval
    RetryDelays,            \* _RETRY_DELAYS
    MaxTime                 \* the clock stops here

ASSUME RateLimitAssumption ==
    /\ Capacity \in Nat /\ Rate \in Nat /\ Cost \in Nat
    /\ MinInterval \in Nat /\ MaxTime \in Nat
    /\ RetryDelays \in Seq(Nat)

VARIABLES
    clock,      \* time.monotonic()
    bucket,     \* _global_bucket: [tokens, last]
    calls,      \* thread -> its _get call: [pc, wakes, attempt]
    lastCall,   \* thread -> _last_call_at of its client
    since       \* time -> units granted at that time or later

vars == <<clock, bucket, calls, lastCall, since>>

Times == 0..MaxTime

\* The shapes, with the bucket between empty and full.
TypeOK ==
    /\ clock \in Times
    /\ bucket \in [tokens : 0..Capacity, last : Times]
    /\ calls \in [Threads -> [pc : {"idle", "throttle", "acquire", "send", "backoff"},
                              wakes : Nat, attempt : 0..(Len(RetryDelays) + 1)]]
    /\ lastCall \in [Threads -> Int]
    /\ since \in [Times -> Nat]

Idle == [pc |-> "idle", wakes |-> 0, attempt |-> 0]

Init ==
    /\ clock = 0
    /\ bucket = [tokens |-> Capacity, last |-> 0]
    /\ calls = [t \in Threads |-> Idle]
    /\ lastCall = [t \in Threads |-> -MinInterval]
    /\ since = [a \in Times |-> 0]

Tick == clock < MaxTime /\ clock' = clock + 1 /\ UNCHANGED <<bucket, calls, lastCall, since>>

\* _throttle: under the client's lock, the rest of the interval since its last call is slept.
Call(t) ==
    /\ calls[t].pc = "idle"
    /\ LET rest == lastCall[t] + MinInterval - clock
       IN  calls' = [calls EXCEPT ![t] = [pc |-> "throttle", wakes |-> IF rest > 0 THEN clock + rest ELSE clock,
                                          attempt |-> 0]]
    /\ UNCHANGED <<clock, bucket, lastCall, since>>

Throttled(t) ==
    /\ calls[t].pc = "throttle" /\ calls[t].wakes <= clock
    /\ lastCall' = [lastCall EXCEPT ![t] = clock]
    /\ calls' = [calls EXCEPT ![t].pc = "acquire", ![t].attempt = 1]
    /\ UNCHANGED <<clock, bucket, since>>

\* What the bucket holds now.
Refilled ==
    LET tokens == bucket.tokens + Rate * (clock - bucket.last)
    IN  IF tokens <= Capacity THEN tokens ELSE Capacity

\* acquire(), under the bucket's lock: a request's worth of tokens, if there is.
Grant(t) ==
    /\ calls[t].pc = "acquire" /\ Refilled >= Cost
    /\ bucket' = [tokens |-> Refilled - Cost, last |-> clock]
    /\ calls' = [calls EXCEPT ![t].pc = "send"]
    /\ since' = [a \in Times |-> IF a <= clock THEN since[a] + Cost ELSE since[a]]
    /\ UNCHANGED <<clock, lastCall>>

\* Otherwise the thread sleeps and tries again, in no particular order with others.
Wait(t) ==
    /\ calls[t].pc = "acquire" /\ Refilled < Cost
    /\ bucket' = [tokens |-> Refilled, last |-> clock]
    /\ UNCHANGED <<clock, calls, lastCall, since>>

\* An answer, an error, or 429 while there are retries left.
Respond(t) ==
    /\ calls[t].pc = "send"
    /\ \/ calls' = [calls EXCEPT ![t] = Idle]
       \/ /\ calls[t].attempt <= Len(RetryDelays)
          /\ calls' = [calls EXCEPT ![t] = [pc |-> "backoff", wakes |-> clock + RetryDelays[calls[t].attempt],
                                            attempt |-> calls[t].attempt]]
    /\ UNCHANGED <<clock, bucket, lastCall, since>>

\* Mutant of Retry: the retry has its token already.
RetryAtOnce(t) ==
    /\ calls[t].pc = "backoff" /\ calls[t].wakes <= clock
    /\ calls' = [calls EXCEPT ![t].pc = "send", ![t].attempt = @ + 1]
    /\ since' = [a \in Times |-> IF a <= clock THEN since[a] + Cost ELSE since[a]]
    /\ UNCHANGED <<clock, bucket, lastCall>>

\* A retry waits for the bucket like a first attempt.
Retry(t) ==
    /\ calls[t].pc = "backoff" /\ calls[t].wakes <= clock
    /\ calls' = [calls EXCEPT ![t].pc = "acquire", ![t].attempt = @ + 1]
    /\ UNCHANGED <<clock, bucket, lastCall, since>>

Step(t) == Call(t) \/ Throttled(t) \/ Grant(t) \/ Wait(t) \/ Respond(t) \/ Retry(t)
Next == Tick \/ \E t \in Threads : Step(t)

Spec == Init /\ [][Next]_vars

-----------------------------------------------------------------------------
\* What all threads are granted in any stretch of time, retries included, stays under the
\* bucket and its refill: with the code's numbers no minute sees more than 58 of the 60
\* requests the provider allows (finnhub_client.py:79-87).
CeilingHolds == \A a \in 0..clock : since[a] <= Capacity + Rate * (clock - a)
=============================================================================
