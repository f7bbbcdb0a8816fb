----------------------------- MODULE MCMarketData -----------------------------
\* A small instance of one way to market data: the limits on requests (RateLimit), the live
\* quotes (QuoteCache) or the stored daily bars (MarketCache).
EXTENDS RateLimit, TLC

CONSTANTS
    A, B, c1, c2, c3, u1, u2, Requests, Users, Tickers, QuoteTtl, Entries, PoolSize, QuoteTime,
    Lists, Days, Ranges, Contents, BarTtl, MarketTime, MaxRefusals, MaxRevisions, NoValue

VARIABLES
    which,
    quoteClock, cache, asked, fetches, seen, raced,
    marketClock, provider, lastTrue, snapshots, bars, syncs, reads, overtaken, trouble

quoteVars == <<quoteClock, cache, asked, fetches, seen, raced>>
marketVars == <<marketClock, provider, lastTrue, snapshots, bars, syncs, reads, overtaken, trouble>>

OneRetry == <<2>>
TwoLists == {<<A>>, <<B, A, B>>}
OneOrBoth == {{1}, {1, 2}}

Quotes == INSTANCE QuoteCache WITH
    Calls <- Requests, Ttl <- QuoteTtl, Capacity <- Entries, MaxTime <- QuoteTime,
    clock <- quoteClock, calls <- asked
Market == INSTANCE MarketCache WITH
    Reads <- Requests, Ttl <- BarTtl, MaxTime <- MarketTime, clock <- marketClock

ASSUME MarketDataAssumption == Quotes!QuoteAssumption /\ Market!MarketCacheAssumption

Same == Permutations({c1, c2, c3}) \cup Permutations({u1, u2})

\* What a behaviour is not about stays without a value.
NoQuotes ==
    /\ quoteClock = NoValue /\ cache = NoValue /\ asked = NoValue
    /\ fetches = NoValue /\ seen = NoValue /\ raced = NoValue
NoMarket ==
    /\ marketClock = NoValue /\ provider = NoValue /\ lastTrue = NoValue
    /\ snapshots = NoValue /\ bars = NoValue /\ syncs = NoValue
    /\ reads = NoValue /\ overtaken = NoValue /\ trouble = NoValue

DataInit ==
    /\ Init
    /\ \/ which = "limits" /\ NoQuotes /\ NoMarket
       \/ which = "quotes" /\ Quotes!Init /\ NoMarket
       \/ which = "market" /\ NoQuotes /\ Market!Init
DataNext ==
    \/ which = "limits" /\ Next /\ UNCHANGED <<which, quoteVars, marketVars>>
    \/ which = "quotes" /\ Quotes!Next /\ UNCHANGED <<which, vars, marketVars>>
    \/ which = "market" /\ Market!Next /\ UNCHANGED <<which, vars, quoteVars>>
DataSpec == DataInit /\ [][DataNext]_<<which, vars, quoteVars, marketVars>>

\* A quote is the user's own, in the place it was asked for, and older than one the user has
\* got before only if the provider was asked for it twice at once; the cache keeps its bound
\* and drops what expires first.
QuotesAreOwn == which = "quotes" => Quotes!TypeOK /\ Quotes!AnswersFit /\ Quotes!OlderOnlyByRace

\* Bars are served whole and with evidence that is stored, whatever the store refuses; they
\* are stale only if a slow call has stored its response after a later one.
BarsAreStored == which = "market" =>
    Market!TypeOK /\ Market!EvidenceIsStored /\ Market!StaleOnlyIfOvertaken
=============================================================================
