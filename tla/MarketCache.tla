------------------------------ MODULE MarketCache ------------------------------
(***************************************************************************)
(* CachedDataClient.get_prices (v2/data/cached_client.py), for one ticker: *)
(* concurrent reads of daily bars look for a stored response to the same   *)
(* request, then for stored bars that cover it, and only then ask the      *)
(* provider, whose response they store as a snapshot, as revisions of the  *)
(* bars and as a record of the synchronisation.                            *)
(*                                                                         *)
(* The store runs one operation at a time, without transactions; it may    *)
(* refuse any operation and an operation may fail half-way.  The provider  *)
(* is asked outside its lock.                                              *)
(***************************************************************************)
EXTENDS Naturals, Sequences, FiniteSets, SequencesExt

CONSTANTS
    Reads,      \* calls of get_prices
    Days,       \* trading sessions, all over
    Ranges,     \* the sets of sessions asked for
    Contents,   \* what the provider may have for a session
    Ttl,        \* MARKET_CACHE_TTL_SECONDS
    MaxTime,    \* the clock stops here
    MaxRefusals,    \* operations the store refuses or fails
    MaxRevisions    \* times the provider corrects a bar

MarketCacheAssumption ==
    /\ Ranges \subseteq SUBSET Days \ {{}} /\ Contents # {}
    /\ Ttl \in Nat \ {0} /\ MaxTime \in Nat \ {0}

VARIABLES
    clock,
    provider,   \* session -> what the provider has for it
    lastTrue,   \* session -> content -> when the provider had it last
    snapshots,  \* company_snapshots: [range, at, result]
    bars,       \* price_bars: session -> its revisions, [content, fetched]
    syncs,      \* data_sync_jobs: [range, at, complete]
    reads,      \* call -> where it is
    overtaken,  \* sessions whose bars a call stored after those of a later call
    trouble     \* refusals and corrections so far

vars == <<clock, provider, lastTrue, snapshots, bars, syncs, reads, overtaken, trouble>>

Init ==
    /\ clock = 1
    /\ provider \in [Days -> {CHOOSE c \in Contents : TRUE}]
    /\ lastTrue = [d \in Days |-> [c \in Contents |-> IF c = provider[d] THEN 1 ELSE 0]]
    /\ snapshots = {} /\ syncs = {}
    /\ bars = [d \in Days |-> <<>>]
    /\ reads = [r \in Reads |-> [pc |-> "idle"]]
    /\ overtaken = {}
    /\ trouble = [refusals |-> 0, revisions |-> 0]

\* Time passes, and the provider has what it has.
Tick ==
    /\ clock < MaxTime
    /\ clock' = clock + 1
    /\ lastTrue' = [d \in Days |-> [lastTrue[d] EXCEPT ![provider[d]] = clock + 1]]
    /\ UNCHANGED <<provider, snapshots, bars, syncs, reads, overtaken, trouble>>

\* The provider corrects a bar (a split, a late trade, the day's last minutes).
Revise(d) ==
    /\ trouble.revisions < MaxRevisions
    /\ trouble' = [trouble EXCEPT !.revisions = @ + 1]
    /\ \E c \in Contents \ {provider[d]} :
         /\ provider' = [provider EXCEPT ![d] = c]
         /\ lastTrue' = [lastTrue EXCEPT ![d][c] = clock]
    /\ UNCHANGED <<clock, snapshots, bars, syncs, reads, overtaken>>

-----------------------------------------------------------------------------
\* Reading from the store.

Refuses == trouble.refusals < MaxRefusals /\ trouble' = [trouble EXCEPT !.refusals = @ + 1]

Served(r, source, result, evidence) ==
    reads' = [reads EXCEPT ![r] = [pc |-> "done", range |-> reads[r].range, now |-> reads[r].now,
                                   source |-> source, result |-> result, evidence |-> evidence]]
Goto(r, pc) == reads' = [reads EXCEPT ![r].pc = pc]

Begin(r, range) ==
    /\ reads[r].pc = "idle"
    /\ reads' = [reads EXCEPT ![r] = [pc |-> "snapshot", range |-> range, now |-> clock]]
    /\ UNCHANGED <<clock, provider, lastTrue, snapshots, bars, syncs, overtaken, trouble>>

\* The latest response to the same request that has not expired.
FindSnapshot(r) ==
    /\ reads[r].pc = "snapshot"
    /\ LET valid == {s \in snapshots : s.range = reads[r].range /\ s.at + Ttl > reads[r].now}
       IN  \/ /\ valid # {}
              /\ \E s \in valid :
                   /\ \A other \in valid : other.at <= s.at
                   /\ Served(r, "snapshot", s.result, {s})
              /\ UNCHANGED trouble
           \/ valid = {} /\ Goto(r, "bars") /\ UNCHANGED trouble
           \/ Refuses /\ Goto(r, "bars")
    /\ UNCHANGED <<clock, provider, lastTrue, snapshots, bars, syncs, overtaken>>

LatestBar(d) == bars[d][Len(bars[d])]

\* Mutant of Confirmed: any synchronisation of the range will do.
ConfirmedOnce(range, now) == \E s \in syncs : s.complete /\ range \subseteq s.range

\* A complete synchronisation of the whole range, young enough.
Confirmed(range, now) == \E s \in syncs : s.complete /\ range \subseteq s.range /\ s.at + Ttl > now

\* _read_prices: the latest revision of every session, each of them young or all confirmed.
ReadBars(r) ==
    /\ reads[r].pc = "bars"
    /\ LET range == reads[r].range
           now == reads[r].now
           usable == /\ \A d \in range : bars[d] # <<>>
                     /\ (\A d \in range : LatestBar(d).fetched + Ttl >= now) \/ Confirmed(range, now)
       IN  \/ /\ usable
              /\ Served(r, "bars", [d \in range |-> LatestBar(d).content],
                        {[day |-> d, revision |-> Len(bars[d])] : d \in range})
              /\ UNCHANGED trouble
           \/ ~usable /\ Goto(r, "ask") /\ UNCHANGED trouble
           \/ Refuses /\ Goto(r, "ask")
    /\ UNCHANGED <<clock, provider, lastTrue, snapshots, bars, syncs, overtaken>>

-----------------------------------------------------------------------------
\* The provider, and the save of its response.

\* All it has for the range, all but one session, or nothing, which is not stored.
Ask(r) ==
    /\ reads[r].pc = "ask"
    /\ \/ \E missing \in {{}} \cup {{d} : d \in reads[r].range} :
            /\ missing # reads[r].range
            /\ reads' = [reads EXCEPT ![r] = [pc |-> "save", range |-> @.range, now |-> @.now,
                           result |-> [d \in @.range \ missing |-> provider[d]]]]
       \/ Served(r, "nothing", <<>>, {})
    /\ UNCHANGED <<clock, provider, lastTrue, snapshots, bars, syncs, overtaken, trouble>>

\* A bar is stored when it differs from the latest revision.
NewRevision(d, content) == bars[d] = <<>> \/ LatestBar(d).content # content

Saved(r) == [range |-> reads[r].range, at |-> reads[r].now, result |-> reads[r].result]

SaveBars(r, days) ==
    bars' = [d \in Days |->
               IF d \in days /\ NewRevision(d, reads[r].result[d])
               THEN Append(bars[d], [content |-> reads[r].result[d], fetched |-> reads[r].now])
               ELSE bars[d]]

\* The response has every session of the range.
Complete(r) == DOMAIN reads[r].result = reads[r].range

Synced(r) == [range |-> reads[r].range, at |-> reads[r].now, complete |-> Complete(r)]

\* Sessions of which a later call has stored its response already.
LaterStored(r) == {d \in DOMAIN reads[r].result : \E s \in snapshots : d \in DOMAIN s.result /\ s.at > reads[r].now}

\* save(): snapshot, bars, synchronisation, in this order; the reference to the snapshot
\* is evidence if all of it succeeds.
Save(r) ==
    /\ reads[r].pc = "save"
    /\ snapshots' = snapshots \cup {Saved(r)}
    /\ SaveBars(r, DOMAIN reads[r].result)
    /\ syncs' = syncs \cup {Synced(r)}
    /\ overtaken' = overtaken \cup LaterStored(r)
    /\ Served(r, "provider", reads[r].result, {Saved(r)})
    /\ UNCHANGED <<clock, provider, lastTrue, trouble>>

\* The save is refused, or fails after some of it; the caller gets its result.
SaveFails(r) ==
    /\ reads[r].pc = "save"
    /\ Refuses
    /\ \/ UNCHANGED <<snapshots, bars, syncs, overtaken>>
       \/ \E days \in SUBSET DOMAIN reads[r].result :
            /\ snapshots' = snapshots \cup {Saved(r)}
            /\ SaveBars(r, days)
            /\ overtaken' = overtaken \cup LaterStored(r)
            /\ UNCHANGED syncs
    /\ Served(r, "provider", reads[r].result, {})
    /\ UNCHANGED <<clock, provider, lastTrue>>

Next ==
    \/ Tick
    \/ \E d \in Days : Revise(d)
    \/ \E r \in Reads, range \in Ranges : Begin(r, range)
    \/ \E r \in Reads : FindSnapshot(r) \/ ReadBars(r) \/ Ask(r) \/ Save(r) \/ SaveFails(r)

Spec == Init /\ [][Next]_vars

-----------------------------------------------------------------------------
Done == {r \in Reads : reads[r].pc = "done"}

\* Revisions of a bar are changes: no two in a row are alike, and a read served from the
\* stored bars has every session it asked for.
TypeOK ==
    /\ \A d \in Days : \A i \in 1..(Len(bars[d]) - 1) : bars[d][i].content # bars[d][i + 1].content
    /\ \A r \in Done : DOMAIN reads[r].result \subseteq reads[r].range
    /\ \A r \in Done : reads[r].source = "bars" => DOMAIN reads[r].result = reads[r].range

\* The evidence of a read names stored documents with the content that was served, also
\* when the store failed half-way.
EvidenceIsStored ==
    \A r \in Done : \A e \in reads[r].evidence :
        IF reads[r].source = "bars"
        THEN e.revision <= Len(bars[e.day]) /\ bars[e.day][e.revision].content = reads[r].result[e.day]
        ELSE e \in snapshots /\ e.result = reads[r].result

Fresh(r, d) == lastTrue[d][reads[r].result[d]] + Ttl >= reads[r].now

\* A served bar is what the provider had at most Ttl before the read began, unless a read
\* stored its response after a later read had stored one.
StaleOnlyIfOvertaken == \A r \in Done : \A d \in DOMAIN reads[r].result : Fresh(r, d) \/ d \in overtaken

=============================================================================
