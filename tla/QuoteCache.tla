------------------------------ MODULE QuoteCache ------------------------------
(***************************************************************************)
(* Live quotes (app/backend/services/live_quotes.py): concurrent calls of  *)
(* fetch_live_quotes ask a provider for each ticker on a pool of threads,  *)
(* through one cache of the process that is bounded in size and keeps a    *)
(* row for a fixed time.  The provider is asked outside the lock.          *)
(***************************************************************************)
EXTENDS Naturals, Sequences, FiniteSets, SequencesExt

CONSTANTS
    Calls,          \* calls of fetch_live_quotes
    Users, Tickers,
    Lists,          \* the ticker lists asked for
    Ttl,            \* QUOTE_CACHE_TTL_SECONDS
    Capacity,       \* 4096 in the code
    PoolSize,       \* 4 in the code
    MaxTime         \* the clock stops here

QuoteAssumption ==
    /\ Lists \subseteq Seq(Tickers) \ {<<>>}
    /\ Ttl \in Nat \ {0} /\ Capacity \in Nat \ {0} /\ PoolSize \in Nat \ {0} /\ MaxTime \in Nat \ {0}

VARIABLES
    clock,      \* time.monotonic()
    cache,      \* _QUOTE_CACHE: oldest entry first
    calls,      \* call -> [state, user, tickers, answer]
    fetches,    \* call -> ticker -> fetch(ticker) on its thread
    seen,       \* call -> for each ticker the newest row its user had got before the call
    raced       \* keys asked twice at the same time

vars == <<clock, cache, calls, fetches, seen, raced>>

NoPrice == 0
Row == [user : Users, ticker : Tickers, at : 0..MaxTime]    \* at: when the provider gave it
Idle == [pc |-> "none"]

Init ==
    /\ clock = 1 /\ cache = <<>>
    /\ calls = [c \in Calls |-> [state |-> "idle"]]
    /\ fetches = [c \in Calls |-> [t \in Tickers |-> Idle]]
    /\ seen = [c \in Calls |-> [t \in Tickers |-> NoPrice]]
    /\ raced = {}

Tick == clock < MaxTime /\ clock' = clock + 1 /\ UNCHANGED <<cache, calls, fetches, seen, raced>>

-----------------------------------------------------------------------------
\* Mutant of CacheKey: one row for everybody.
TickerKey(user, ticker) == <<"any", ticker>>

\* cache_key: a user's quotes come from the user's own provider account.
CacheKey(user, ticker) == <<user, ticker>>

KeyOf(c, t) == CacheKey(calls[c].user, t)
Cached(key) == {i \in 1..Len(cache) : cache[i].key = key}

\* The newest row a finished call of the user has answered for a ticker.
Newest(user, ticker) ==
    LET rows == UNION {ToSet(calls[c].answer) : c \in {d \in Calls : calls[d].state = "done" /\ calls[d].user = user}}
        times == {row.at : row \in {r \in rows : r.ticker = ticker}} \cup {NoPrice}
    IN  CHOOSE m \in times : \A n \in times : n <= m

\* One fetch for each different ticker of the list.
Begin(c, user, tickers) ==
    /\ calls[c].state = "idle"
    /\ calls' = [calls EXCEPT ![c] = [state |-> "open", user |-> user, tickers |-> tickers]]
    /\ fetches' = [fetches EXCEPT ![c] = [t \in Tickers |-> IF t \in ToSet(tickers) THEN [pc |-> "queued"] ELSE Idle]]
    /\ seen' = [seen EXCEPT ![c] = [t \in Tickers |-> IF t \in ToSet(tickers) THEN Newest(user, t) ELSE NoPrice]]
    /\ UNCHANGED <<clock, cache, raced>>

\* dict.fromkeys: a ticker has the place where it is first named.
Place(c, t) == CHOOSE i \in DOMAIN calls[c].tickers :
    calls[c].tickers[i] = t /\ \A j \in 1..(i - 1) : calls[c].tickers[j] # t

\* A thread of the call's pool takes the next ticker and reads the clock.
Take(c, t) ==
    /\ fetches[c][t].pc = "queued"
    /\ \A u \in Tickers : fetches[c][u].pc = "queued" => Place(c, t) <= Place(c, u)
    /\ Cardinality({u \in Tickers : fetches[c][u].pc \in {"look", "ask", "store"}}) < PoolSize
    /\ fetches' = [fetches EXCEPT ![c][t] = [pc |-> "look", now |-> clock]]
    /\ UNCHANGED <<clock, cache, calls, seen, raced>>

Fetched(c, t, row) == [fetches EXCEPT ![c][t] = [pc |-> "done", row |-> row]]

\* Under the lock: an entry that has not expired answers.
Look(c, t) ==
    /\ fetches[c][t].pc = "look"
    /\ LET valid == {i \in Cached(KeyOf(c, t)) : cache[i].expires > fetches[c][t].now}
       IN  IF valid # {} THEN \E i \in valid : fetches' = Fetched(c, t, cache[i].row)
           ELSE fetches' = [fetches EXCEPT ![c][t] = [pc |-> "ask"]]
    /\ UNCHANGED <<clock, cache, calls, seen, raced>>

\* Another thread holds an answer for the key that is not in the cache yet.
InFlight(c, t) ==
    \E d \in Calls : d # c /\ fetches[d][t].pc = "store" /\ KeyOf(d, t) = KeyOf(c, t)

\* The provider: a row without a price is answered and not kept.
Ask(c, t) ==
    /\ fetches[c][t].pc = "ask"
    /\ LET row == [user |-> calls[c].user, ticker |-> t, at |-> clock]
       IN  \/ fetches' = [fetches EXCEPT ![c][t] = [pc |-> "store", row |-> row]]
           \/ fetches' = Fetched(c, t, [row EXCEPT !.at = NoPrice])
    /\ raced' = IF InFlight(c, t) THEN raced \cup {KeyOf(c, t)} ELSE raced
    /\ UNCHANGED <<clock, cache, calls, seen>>

Others(key) == IF Cached(key) = {} THEN cache ELSE RemoveAt(cache, CHOOSE i \in Cached(key) : TRUE)

\* The entry at the end of the cache, in place of the one its key had.
Kept(entry) == Append(Others(entry.key), entry)

\* Under the lock: write, move_to_end, drop the first while there are too many.
Store(c, t) ==
    /\ fetches[c][t].pc = "store"
    /\ LET entries == Kept([key |-> KeyOf(c, t), expires |-> clock + Ttl, row |-> fetches[c][t].row])
           surplus == IF Len(entries) > Capacity THEN Len(entries) - Capacity ELSE 0
       IN  cache' = SubSeq(entries, surplus + 1, Len(entries))
    /\ fetches' = Fetched(c, t, fetches[c][t].row)
    /\ UNCHANGED <<clock, calls, seen, raced>>

\* The pool is joined; a row for every place of the list.
Answer(c) ==
    /\ calls[c].state = "open"
    /\ \A t \in ToSet(calls[c].tickers) : fetches[c][t].pc = "done"
    /\ calls' = [calls EXCEPT ![c] =
         [state |-> "done", user |-> @.user, tickers |-> @.tickers,
          answer |-> [i \in DOMAIN @.tickers |-> fetches[c][@.tickers[i]].row]]]
    /\ fetches' = [fetches EXCEPT ![c] = [t \in Tickers |-> Idle]]
    /\ UNCHANGED <<clock, cache, seen, raced>>

Next ==
    \/ Tick
    \/ \E c \in Calls, user \in Users, tickers \in Lists : Begin(c, user, tickers)
    \/ \E c \in Calls, t \in Tickers : Take(c, t) \/ Look(c, t) \/ Ask(c, t) \/ Store(c, t)
    \/ \E c \in Calls : Answer(c)

Spec == Init /\ [][Next]_vars

-----------------------------------------------------------------------------
\* The cache holds one entry per key and no more than its capacity, in the order in which
\* its entries expire: what is dropped to make room is what would have expired first.
TypeOK ==
    /\ Len(cache) <= Capacity
    /\ \A i, j \in 1..Len(cache) : i < j =>
         cache[i].key # cache[j].key /\ cache[i].expires <= cache[j].expires
    /\ \A c \in Calls : calls[c].state = "done" => \A i \in DOMAIN calls[c].answer : calls[c].answer[i] \in Row

\* Every place of a list is answered with a row of its own ticker, fetched for the same
\* user, and two places with one ticker alike (test_user_finnhub_key.py: cached results
\* are not shared between users).
AnswersFit ==
    \A c \in Calls : calls[c].state = "done" =>
        /\ Len(calls[c].answer) = Len(calls[c].tickers)
        /\ \A i \in DOMAIN calls[c].answer :
             /\ calls[c].answer[i].ticker = calls[c].tickers[i]
             /\ calls[c].answer[i].user = calls[c].user
             /\ \A j \in DOMAIN calls[c].answer :
                  calls[c].tickers[i] = calls[c].tickers[j] => calls[c].answer[i] = calls[c].answer[j]

\* A user who has got a quote gets an older one in a later call only if the provider was
\* asked for it twice at once; the later of the two to be stored is then kept for a whole
\* period, be it the older one.
OlderOnlyByRace ==
    \A c \in Calls : calls[c].state = "done" =>
        \A i \in DOMAIN calls[c].answer :
            LET row == calls[c].answer[i]
            IN  \/ row.at = NoPrice
                \/ row.at >= seen[c][row.ticker]
                \/ CacheKey(row.user, row.ticker) \in raced
=============================================================================
