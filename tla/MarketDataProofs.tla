-------------------------- MODULE MarketDataProofs --------------------------
\* The three ways to market data.  The stored bars are whole, with evidence that is stored, and
\* stale only where a slow call overtook; the live quotes are the user's own; what all clients are
\* granted stays under the bucket and its refill: for any threads, days, lists, capacities, rates,
\* delays and clocks of any length.
EXTENDS MCMarketData, SumFacts, SequenceTheorems

\* A sequence and one element more.
LEMMA Appended ==
  ASSUME NEW S, NEW s \in Seq(S), NEW e \in S
  PROVE  /\ Append(s, e) \in Seq(S) /\ Len(Append(s, e)) = Len(s) + 1 /\ Len(s) \in Nat
         /\ DOMAIN s = 1..Len(s) /\ DOMAIN Append(s, e) = 1..(Len(s) + 1)
         /\ \A i \in DOMAIN s : Append(s, e)[i] = s[i]
         /\ Append(s, e)[Len(s) + 1] = e
OBVIOUS

-----------------------------------------------------------------------------
\* The stored daily bars (MarketCache).

Revision == [content : Contents, fetched : Nat]

BarTypes ==
    /\ marketClock \in Nat
    /\ provider \in [Days -> Contents]
    /\ lastTrue \in [Days -> [Contents -> Nat]]
    /\ bars \in [Days -> Seq(Revision)]

\* What the provider has now it had last now.
TruthInv == \A d \in Days : lastTrue[d][provider[d]] = marketClock /\ \A c \in Contents : lastTrue[d][c] <= marketClock

\* What is stored as of a time the provider had at that time or later.
StoredInv ==
    /\ \A s \in snapshots :
         /\ s.at \in Nat /\ s.range \in Ranges /\ DOMAIN s.result \subseteq s.range
         /\ \A d \in DOMAIN s.result : s.result[d] \in Contents /\ lastTrue[d][s.result[d]] >= s.at
    /\ \A d \in Days : \A i \in DOMAIN bars[d] : lastTrue[d][bars[d][i].content] >= bars[d][i].fetched
    /\ \A d \in Days : \A i, j \in DOMAIN bars[d] : j = i + 1 => bars[d][i].content # bars[d][j].content

\* A synchronisation says so of the latest bars, until a slower call stores an older response.
SyncedInv ==
    \A s \in syncs : s.complete =>
        /\ s.at \in Nat
        /\ \A d \in Days \cap s.range :
             /\ bars[d] # <<>>
             /\ lastTrue[d][Market!LatestBar(d).content] >= s.at \/ d \in overtaken
             /\ \E z \in snapshots : z.at = s.at /\ d \in DOMAIN z.result

\* Where a call q is, before a store of these snapshots and bars: what it has is what the provider had then.
ReadOf(q, time, truth, shots, rows, late) ==
    /\ q.pc = "idle" \/ q.pc = "snapshot" \/ q.pc = "bars" \/ q.pc = "ask" \/ q.pc = "save" \/ q.pc = "done"
    /\ q.pc # "idle" => q.range \in Ranges /\ q.now \in Nat /\ q.now <= time
    /\ q.pc = "snapshot" \/ q.pc = "bars" \/ q.pc = "ask" => q = [pc |-> q.pc, range |-> q.range, now |-> q.now]
    /\ q.pc = "save" \/ q.pc = "done" =>
         DOMAIN q.result \subseteq q.range /\ \A d \in DOMAIN q.result : q.result[d] \in Contents
    /\ q.pc = "save" => \A d \in DOMAIN q.result : truth[d][q.result[d]] >= q.now
    /\ q.pc = "done" => \A d \in DOMAIN q.result : truth[d][q.result[d]] + BarTtl >= q.now \/ d \in late
    /\ q.pc = "done" /\ q.source = "bars" =>
         /\ DOMAIN q.result = q.range
         /\ \A e \in q.evidence : /\ e.day \in Days /\ e.revision \in DOMAIN rows[e.day]
                                  /\ rows[e.day][e.revision].content = q.result[e.day]
    /\ q.pc = "done" /\ q.source # "bars" => \A e \in q.evidence : e \in shots /\ e.result = q.result

ReadsInv ==
    /\ reads = [r \in Requests |-> reads[r]]
    /\ \A r \in Requests : ReadOf(reads[r], marketClock, lastTrue, snapshots, bars, overtaken)

\* The clock, the documents and what is known of the provider only grow.
StoreGrows ==
    /\ marketClock' \in Nat /\ marketClock <= marketClock'
    /\ \A d \in Days : \A c \in Contents : lastTrue'[d][c] \in Nat /\ lastTrue[d][c] <= lastTrue'[d][c]
    /\ snapshots \subseteq snapshots' /\ overtaken \subseteq overtaken'
    /\ \A d \in Days : \A i \in DOMAIN bars[d] : i \in DOMAIN bars'[d] /\ bars'[d][i] = bars[d][i]

BarInv == BarTypes /\ TruthInv /\ StoredInv /\ SyncedInv /\ ReadsInv

LEMMA MarketConstants ==
  /\ BarTtl \in Nat \ {0} /\ Contents # {}
  /\ \A range \in Ranges : range \subseteq Days
BY MarketDataAssumption DEF Market!MarketCacheAssumption

LEMMA TruthIsNat ==
  ASSUME BarTypes, NEW d \in Days, NEW c \in Contents
  PROVE  lastTrue[d][c] \in Nat
BY DEF BarTypes

LEMMA ElementOf ==
  ASSUME NEW S, NEW s \in Seq(S), NEW i \in DOMAIN s
  PROVE  s[i] \in S
OBVIOUS

LEMMA RevisionFields ==
  ASSUME BarTypes, NEW d \in Days, NEW i \in DOMAIN bars[d]
  PROVE  /\ bars[d] \in Seq(Revision) /\ bars[d][i] \in Revision
         /\ bars[d][i].content \in Contents /\ bars[d][i].fetched \in Nat
<1>1. bars[d] \in Seq(Revision)
  BY DEF BarTypes
<1>2. bars[d][i] \in Revision
  BY <1>1, ElementOf
<1> QED
  BY <1>1, <1>2 DEF Revision

LEMMA LatestFields ==
  ASSUME BarTypes, NEW d \in Days, bars[d] # <<>>
  PROVE  /\ Len(bars[d]) \in DOMAIN bars[d] /\ Market!LatestBar(d) \in Revision
         /\ Market!LatestBar(d).content \in Contents /\ Market!LatestBar(d).fetched \in Nat
<1>1. Len(bars[d]) \in DOMAIN bars[d]
  BY DEF BarTypes
<1> QED
  BY <1>1, RevisionFields DEF Market!LatestBar

\* A call that does not move stays where it is, whatever is stored meanwhile.
LEMMA ReadStays ==
  ASSUME BarTypes, StoreGrows, NEW q, ReadOf(q, marketClock, lastTrue, snapshots, bars, overtaken)
  PROVE  ReadOf(q, marketClock', lastTrue', snapshots', bars', overtaken')
<1>1. q.pc # "idle" => q.range \in Ranges /\ q.range \subseteq Days /\ q.now \in Nat /\ q.now <= marketClock'
  BY MarketConstants DEF ReadOf, BarTypes, StoreGrows
<1>2. ASSUME q.pc = "save" \/ q.pc = "done", NEW d \in DOMAIN q.result
      PROVE  /\ q.now \in Nat
             /\ lastTrue[d][q.result[d]] \in Nat /\ lastTrue'[d][q.result[d]] \in Nat
             /\ lastTrue[d][q.result[d]] <= lastTrue'[d][q.result[d]]
  <2>1. d \in Days /\ q.result[d] \in Contents /\ q.now \in Nat
    BY <1>1, <1>2 DEF ReadOf
  <2> QED
    BY <2>1, TruthIsNat DEF StoreGrows
<1>3. q.pc = "save" => \A d \in DOMAIN q.result : lastTrue'[d][q.result[d]] >= q.now
  <2>1. ASSUME q.pc = "save", NEW d \in DOMAIN q.result
        PROVE  lastTrue'[d][q.result[d]] >= q.now
    <3>1. lastTrue[d][q.result[d]] >= q.now
      BY <2>1 DEF ReadOf
    <3> QED
      BY <1>2, <2>1, <3>1
  <2> QED
    BY <2>1
<1>4. q.pc = "done" => \A d \in DOMAIN q.result : lastTrue'[d][q.result[d]] + BarTtl >= q.now \/ d \in overtaken'
  <2>1. ASSUME q.pc = "done", NEW d \in DOMAIN q.result
        PROVE  lastTrue'[d][q.result[d]] + BarTtl >= q.now \/ d \in overtaken'
    <3>1. lastTrue[d][q.result[d]] + BarTtl >= q.now \/ d \in overtaken
      BY <2>1 DEF ReadOf
    <3>2. d \in overtaken => d \in overtaken'
      BY DEF StoreGrows
    <3> QED
      BY <1>2, <2>1, <3>1, <3>2, MarketConstants
  <2> QED
    BY <2>1
<1>5. q.pc = "done" /\ q.source = "bars" =>
        \A e \in q.evidence : /\ e.day \in Days /\ e.revision \in DOMAIN bars'[e.day]
                               /\ bars'[e.day][e.revision].content = q.result[e.day]
  BY DEF ReadOf, StoreGrows
<1>6. q.pc = "done" /\ q.source # "bars" => \A e \in q.evidence : e \in snapshots' /\ e.result = q.result
  BY DEF ReadOf, StoreGrows
<1> QED
  BY <1>1, <1>3, <1>4, <1>5, <1>6 DEF ReadOf

\* A call r goes to q.
LEMMA ReadMoves ==
  ASSUME BarTypes, ReadsInv, StoreGrows, NEW r \in Requests, NEW q, reads' = [reads EXCEPT ![r] = q],
         ReadOf(q, marketClock', lastTrue', snapshots', bars', overtaken')
  PROVE  ReadsInv'
<1>1. \A x \in Requests : reads'[x] = IF x = r THEN q ELSE reads[x]
  BY DEF ReadsInv
<1>2. reads' = [x \in Requests |-> reads'[x]]
  BY DEF ReadsInv
<1>3. ASSUME NEW x \in Requests
      PROVE  ReadOf(reads'[x], marketClock', lastTrue', snapshots', bars', overtaken')
  <2>1. CASE x = r
    BY <1>1, <2>1
  <2>2. CASE x # r
    <3>1. ReadOf(reads[x], marketClock, lastTrue, snapshots, bars, overtaken) /\ reads'[x] = reads[x]
      BY <1>1, <2>2 DEF ReadsInv
    <3> QED
      BY <3>1, ReadStays
  <2> QED
    BY <2>1, <2>2
<1> QED
  BY <1>2, <1>3 DEF ReadsInv

LEMMA AllReadsStay ==
  ASSUME BarTypes, ReadsInv, StoreGrows, reads' = reads
  PROVE  ReadsInv'
<1>1. ASSUME NEW x \in Requests
      PROVE  ReadOf(reads[x], marketClock', lastTrue', snapshots', bars', overtaken')
  BY ReadStays DEF ReadsInv
<1> QED
  BY <1>1 DEF ReadsInv

\* Nothing is stored and no time passes.
LEMMA StoreStays ==
  ASSUME BarInv, UNCHANGED <<marketClock, provider, lastTrue, snapshots, bars, syncs, overtaken>>
  PROVE  BarTypes' /\ TruthInv' /\ StoredInv' /\ SyncedInv' /\ StoreGrows
<1>1. BarTypes' /\ TruthInv' /\ StoredInv'
  BY DEF BarInv, BarTypes, TruthInv, StoredInv
<1>2. SyncedInv'
  BY DEF BarInv, SyncedInv, Market!LatestBar
<1>3. StoreGrows
  BY TruthIsNat DEF BarInv, BarTypes, StoreGrows
<1> QED
  BY <1>1, <1>2, <1>3

LEMMA BarsStart ==
  ASSUME Market!Init
  PROVE  BarInv
<1>1. /\ marketClock = 1 /\ snapshots = {} /\ syncs = {} /\ overtaken = {}
      /\ provider \in [Days -> {CHOOSE c \in Contents : TRUE}]
      /\ lastTrue = [d \in Days |-> [c \in Contents |-> IF c = provider[d] THEN 1 ELSE 0]]
      /\ bars = [d \in Days |-> <<>>] /\ reads = [r \in Requests |-> [pc |-> "idle"]]
  BY DEF Market!Init
<1>2. (CHOOSE c \in Contents : TRUE) \in Contents
  BY MarketConstants
<1>3. provider \in [Days -> Contents]
  BY <1>1, <1>2
<1>4. <<>> \in Seq(Revision) /\ DOMAIN <<>> = {}
  OBVIOUS
<1>5. bars \in [Days -> Seq(Revision)]
  BY <1>1, <1>4
<1>6. lastTrue \in [Days -> [Contents -> Nat]]
  BY <1>1
<1>7. BarTypes /\ TruthInv
  BY <1>1, <1>3, <1>5, <1>6 DEF BarTypes, TruthInv
<1>8. StoredInv /\ SyncedInv
  BY <1>1, <1>4 DEF StoredInv, SyncedInv
<1>9. ReadsInv
  BY <1>1 DEF ReadsInv, ReadOf
<1> QED
  BY <1>7, <1>8, <1>9 DEF BarInv

\* More is known of the provider; the documents stay.
LEMMA TruthGrows ==
  ASSUME BarTypes, StoreGrows, StoredInv, SyncedInv, UNCHANGED <<snapshots, bars, syncs, overtaken>>
  PROVE  StoredInv' /\ SyncedInv'
<1>1. ASSUME NEW d \in Days, NEW c \in Contents, NEW n \in Nat, lastTrue[d][c] >= n
      PROVE  lastTrue'[d][c] >= n
  BY <1>1, TruthIsNat DEF StoreGrows
<1>2. ASSUME NEW d \in Days, NEW i \in DOMAIN bars[d]
      PROVE  bars[d][i].content \in Contents /\ bars[d][i].fetched \in Nat
  BY RevisionFields
<1>3. ASSUME NEW s \in snapshots, NEW d \in DOMAIN s.result
      PROVE  s.result[d] \in Contents /\ lastTrue'[d][s.result[d]] >= s.at
  <2>1. s.result[d] \in Contents /\ lastTrue[d][s.result[d]] >= s.at /\ s.at \in Nat /\ d \in Days
    BY MarketConstants DEF StoredInv
  <2> QED
    BY <1>1, <2>1
<1>4. ASSUME NEW d \in Days, NEW i \in DOMAIN bars[d]
      PROVE  lastTrue'[d][bars[d][i].content] >= bars[d][i].fetched
  BY <1>1, <1>2 DEF StoredInv
<1>5. StoredInv'
  BY <1>3, <1>4 DEF StoredInv
<1>6. ASSUME NEW s \in syncs, s.complete, NEW d \in Days \cap s.range
      PROVE  lastTrue'[d][Market!LatestBar(d).content] >= s.at \/ d \in overtaken
  <2>1. bars[d] # <<>> /\ s.at \in Nat /\ (lastTrue[d][Market!LatestBar(d).content] >= s.at \/ d \in overtaken)
    BY <1>6 DEF SyncedInv
  <2>2. Market!LatestBar(d).content \in Contents
    BY <2>1, LatestFields
  <2> QED
    BY <1>1, <2>1, <2>2
<1>7. SyncedInv'
  BY <1>6 DEF SyncedInv, Market!LatestBar
<1> QED
  BY <1>5, <1>7

LEMMA BarTickKeeps ==
  ASSUME BarInv, Market!Tick
  PROVE  BarInv'
<1>1. /\ BarTypes /\ TruthInv /\ StoredInv /\ SyncedInv /\ ReadsInv /\ marketClock' = marketClock + 1
      /\ lastTrue' = [d \in Days |-> [lastTrue[d] EXCEPT ![provider[d]] = marketClock + 1]]
      /\ UNCHANGED <<provider, snapshots, bars, syncs, reads, overtaken>>
  BY DEF BarInv, Market!Tick
<1>2. marketClock \in Nat /\ marketClock' \in Nat /\ marketClock <= marketClock'
  BY <1>1 DEF BarTypes
<1>3. ASSUME NEW d \in Days
      PROVE  /\ provider[d] \in Contents /\ lastTrue'[d] \in [Contents -> Nat]
             /\ lastTrue'[d][provider[d]] = marketClock'
             /\ \A c \in Contents : c # provider[d] => lastTrue'[d][c] = lastTrue[d][c]
  <2>1. provider[d] \in Contents /\ lastTrue[d] \in [Contents -> Nat] /\ marketClock + 1 \in Nat
    BY <1>1, <1>2 DEF BarTypes
  <2>2. lastTrue'[d] = [lastTrue[d] EXCEPT ![provider[d]] = marketClock + 1]
    BY <1>1
  <2> QED
    BY <1>1, <2>1, <2>2
<1>4. ASSUME NEW d \in Days, NEW c \in Contents
      PROVE  /\ lastTrue[d][c] \in Nat /\ lastTrue'[d][c] \in Nat
             /\ lastTrue[d][c] <= lastTrue'[d][c] /\ lastTrue'[d][c] <= marketClock'
  <2>1. lastTrue[d][c] \in Nat /\ lastTrue[d][c] <= marketClock
    BY <1>1, TruthIsNat DEF TruthInv
  <2>2. lastTrue'[d][c] = marketClock' \/ lastTrue'[d][c] = lastTrue[d][c]
    BY <1>3
  <2> QED
    BY <1>1, <1>2, <2>1, <2>2
<1>5. lastTrue' = [d \in Days |-> lastTrue'[d]]
  BY <1>1
<1>6. BarTypes'
  <2>1. lastTrue' \in [Days -> [Contents -> Nat]]
    BY <1>3, <1>5
  <2> QED
    BY <1>1, <1>2, <2>1 DEF BarTypes
<1>7. TruthInv'
  BY <1>1, <1>3, <1>4 DEF TruthInv
<1>8. StoreGrows
  BY <1>1, <1>2, <1>4 DEF StoreGrows
<1>9. StoredInv' /\ SyncedInv' /\ ReadsInv'
  BY <1>1, <1>8, TruthGrows, AllReadsStay
<1> QED
  BY <1>6, <1>7, <1>9 DEF BarInv

LEMMA ReviseKeeps ==
  ASSUME BarInv, NEW d \in Days, Market!Revise(d)
  PROVE  BarInv'
<1>1. PICK c \in Contents :
        /\ provider' = [provider EXCEPT ![d] = c] /\ lastTrue' = [lastTrue EXCEPT ![d][c] = marketClock]
  BY DEF Market!Revise
<1>2. /\ BarTypes /\ TruthInv /\ StoredInv /\ SyncedInv /\ ReadsInv
      /\ UNCHANGED <<marketClock, snapshots, bars, syncs, reads, overtaken>>
  BY DEF BarInv, Market!Revise
<1>3. provider' \in [Days -> Contents] /\ lastTrue' \in [Days -> [Contents -> Nat]] /\ marketClock \in Nat
  BY <1>1, <1>2 DEF BarTypes
<1>4. ASSUME NEW e \in Days, NEW x \in Contents
      PROVE  /\ lastTrue[e][x] \in Nat /\ lastTrue'[e][x] \in Nat
             /\ lastTrue'[e][x] = IF e = d /\ x = c THEN marketClock ELSE lastTrue[e][x]
             /\ lastTrue[e][x] <= lastTrue'[e][x] /\ lastTrue'[e][x] <= marketClock
  <2>1. lastTrue[e][x] \in Nat /\ lastTrue[e][x] <= marketClock
    BY <1>2, TruthIsNat DEF TruthInv
  <2>2. lastTrue'[e][x] = IF e = d /\ x = c THEN marketClock ELSE lastTrue[e][x]
    BY <1>1, <1>2 DEF BarTypes
  <2> QED
    BY <1>3, <2>1, <2>2
<1>5. BarTypes'
  BY <1>2, <1>3 DEF BarTypes
<1>6. TruthInv'
  <2>1. ASSUME NEW e \in Days
        PROVE  lastTrue'[e][provider'[e]] = marketClock
    <3>1. CASE e = d
      <4>1. provider'[e] = c
        BY <1>1, <1>2, <3>1 DEF BarTypes
      <4> QED
        BY <1>4, <3>1, <4>1
    <3>2. CASE e # d
      <4>1. provider'[e] = provider[e] /\ provider[e] \in Contents
        BY <1>1, <1>2, <3>2 DEF BarTypes
      <4> QED
        BY <1>2, <1>4, <3>2, <4>1 DEF TruthInv
    <3> QED
      BY <3>1, <3>2
  <2> QED
    BY <1>2, <1>4, <2>1 DEF TruthInv
<1>7. StoreGrows
  BY <1>2, <1>3, <1>4 DEF StoreGrows
<1>8. StoredInv' /\ SyncedInv' /\ ReadsInv'
  BY <1>2, <1>7, TruthGrows, AllReadsStay
<1> QED
  BY <1>5, <1>6, <1>8 DEF BarInv

\* Facts about a call that has begun.
LEMMA CallFields ==
  ASSUME BarInv, NEW r \in Requests, reads[r].pc # "idle"
  PROVE  /\ reads[r].range \in Ranges /\ reads[r].range \subseteq Days
         /\ reads[r].now \in Nat /\ reads[r].now <= marketClock /\ marketClock \in Nat
         /\ ReadOf(reads[r], marketClock, lastTrue, snapshots, bars, overtaken)
         /\ reads = [x \in Requests |-> reads[x]]
BY MarketConstants DEF BarInv, BarTypes, ReadsInv, ReadOf

\* A call ends, with something stored or not.
LEMMA ServedKeeps ==
  ASSUME BarInv, NEW r \in Requests, reads[r].pc # "idle", BarTypes', TruthInv', StoredInv', SyncedInv', StoreGrows,
         NEW source, NEW result, NEW evidence, Market!Served(r, source, result, evidence),
         DOMAIN result \subseteq reads[r].range, \A d \in DOMAIN result : result[d] \in Contents,
         \A d \in DOMAIN result : lastTrue'[d][result[d]] + BarTtl >= reads[r].now \/ d \in overtaken',
         source = "bars" =>
           /\ DOMAIN result = reads[r].range
           /\ \A e \in evidence : /\ e.day \in Days /\ e.revision \in DOMAIN bars'[e.day]
                                  /\ bars'[e.day][e.revision].content = result[e.day],
         source # "bars" => \A e \in evidence : e \in snapshots' /\ e.result = result
  PROVE  BarInv'
<1> DEFINE q == [pc |-> "done", range |-> reads[r].range, now |-> reads[r].now,
                 source |-> source, result |-> result, evidence |-> evidence]
<1>1. reads' = [reads EXCEPT ![r] = q]
  BY DEF Market!Served
<1>2. /\ q.pc = "done" /\ q.range = reads[r].range /\ q.now = reads[r].now
      /\ q.source = source /\ q.result = result /\ q.evidence = evidence
  OBVIOUS
<1> HIDE DEF q
<1>3. q.range \in Ranges /\ q.now \in Nat /\ q.now <= marketClock'
  BY <1>2, CallFields DEF StoreGrows
<1>4. ReadOf(q, marketClock', lastTrue', snapshots', bars', overtaken')
  BY <1>2, <1>3 DEF ReadOf
<1>5. ReadsInv'
  BY <1>1, <1>4, ReadMoves DEF BarInv
<1> QED
  BY <1>5 DEF BarInv

\* A call goes on without an answer from the store.
LEMMA GotoKeeps ==
  ASSUME BarInv, NEW r \in Requests, reads[r].pc = "snapshot" \/ reads[r].pc = "bars",
         NEW pc \in {"bars", "ask"}, Market!Goto(r, pc),
         UNCHANGED <<marketClock, provider, lastTrue, snapshots, bars, syncs, overtaken>>
  PROVE  BarInv'
<1> DEFINE q == [pc |-> pc, range |-> reads[r].range, now |-> reads[r].now]
<1>1. /\ reads[r] = [pc |-> reads[r].pc, range |-> reads[r].range, now |-> reads[r].now]
      /\ reads[r].range \in Ranges /\ reads[r].now \in Nat /\ reads[r].now <= marketClock
  BY CallFields DEF ReadOf
<1>2. [reads[r] EXCEPT !.pc = pc] = q
  BY <1>1
<1>3. reads' = [reads EXCEPT ![r] = q]
  BY <1>2 DEF Market!Goto
<1>4. q.pc = pc /\ q.range = reads[r].range /\ q.now = reads[r].now /\ q = [pc |-> q.pc, range |-> q.range, now |-> q.now]
  OBVIOUS
<1> HIDE DEF q
<1>5. ReadOf(q, marketClock', lastTrue', snapshots', bars', overtaken')
  BY <1>1, <1>4 DEF ReadOf
<1>6. BarTypes' /\ TruthInv' /\ StoredInv' /\ SyncedInv' /\ StoreGrows
  BY StoreStays
<1> QED
  BY <1>3, <1>5, <1>6, ReadMoves DEF BarInv

LEMMA BeginReadKeeps ==
  ASSUME BarInv, NEW r \in Requests, NEW range \in Ranges, Market!Begin(r, range)
  PROVE  BarInv'
<1> DEFINE q == [pc |-> "snapshot", range |-> range, now |-> marketClock]
<1>1. reads' = [reads EXCEPT ![r] = q] /\ UNCHANGED <<marketClock, provider, lastTrue, snapshots, bars, syncs, overtaken>>
  BY DEF Market!Begin
<1>2. marketClock \in Nat
  BY DEF BarInv, BarTypes
<1>3. q.pc = "snapshot" /\ q.range = range /\ q.now = marketClock /\ q = [pc |-> q.pc, range |-> q.range, now |-> q.now]
  OBVIOUS
<1> HIDE DEF q
<1>4. ReadOf(q, marketClock', lastTrue', snapshots', bars', overtaken')
  BY <1>1, <1>2, <1>3 DEF ReadOf
<1>5. BarTypes' /\ TruthInv' /\ StoredInv' /\ SyncedInv' /\ StoreGrows
  BY <1>1, StoreStays
<1> QED
  BY <1>1, <1>4, <1>5, ReadMoves DEF BarInv

LEMMA FindSnapshotKeeps ==
  ASSUME BarInv, NEW r \in Requests, Market!FindSnapshot(r)
  PROVE  BarInv'
<1>1. reads[r].pc = "snapshot" /\ UNCHANGED <<marketClock, provider, lastTrue, snapshots, bars, syncs, overtaken>>
  BY DEF Market!FindSnapshot
<1>2. CASE Market!Goto(r, "bars")
  BY <1>1, <1>2, GotoKeeps
<1>3. ASSUME NEW s \in snapshots, s.range = reads[r].range, s.at + BarTtl > reads[r].now,
             Market!Served(r, "snapshot", s.result, {s})
      PROVE  BarInv'
  <2>1. /\ DOMAIN s.result \subseteq reads[r].range /\ s.at \in Nat
        /\ \A d \in DOMAIN s.result : s.result[d] \in Contents /\ lastTrue[d][s.result[d]] >= s.at
    BY <1>3 DEF BarInv, StoredInv
  <2>2. reads[r].now \in Nat /\ reads[r].range \subseteq Days
    BY <1>1, CallFields
  <2>3. ASSUME NEW d \in DOMAIN s.result
        PROVE  lastTrue'[d][s.result[d]] + BarTtl >= reads[r].now
    <3>1. lastTrue[d][s.result[d]] \in Nat
      BY <2>1, <2>2, TruthIsNat DEF BarInv
    <3> QED
      BY <1>1, <1>3, <2>1, <2>2, <3>1, MarketConstants
  <2>4. \A e \in {s} : e \in snapshots' /\ e.result = s.result
    BY <1>1
  <2>5. BarTypes' /\ TruthInv' /\ StoredInv' /\ SyncedInv' /\ StoreGrows
    BY <1>1, StoreStays
  <2> QED
    BY <1>1, <1>3, <2>1, <2>3, <2>4, <2>5, ServedKeeps
<1> QED
  BY <1>2, <1>3 DEF Market!FindSnapshot

LEMMA ReadBarsKeeps ==
  ASSUME BarInv, NEW r \in Requests, Market!ReadBars(r)
  PROVE  BarInv'
<1> DEFINE range == reads[r].range
           now == reads[r].now
           usable == /\ \A d \in range : bars[d] # <<>>
                     /\ (\A d \in range : Market!LatestBar(d).fetched + BarTtl >= now) \/ Market!Confirmed(range, now)
           result == [d \in range |-> Market!LatestBar(d).content]
           evidence == {[day |-> d, revision |-> Len(bars[d])] : d \in range}
<1>1. reads[r].pc = "bars" /\ UNCHANGED <<marketClock, provider, lastTrue, snapshots, bars, syncs, overtaken>>
  BY DEF Market!ReadBars
<1>2. CASE Market!Goto(r, "ask")
  BY <1>1, <1>2, GotoKeeps
<1>3. ASSUME usable, Market!Served(r, "bars", result, evidence)
      PROVE  BarInv'
  <2>1. BarTypes /\ range \subseteq Days /\ now \in Nat
    BY <1>1, CallFields DEF BarInv
  <2>2. ASSUME NEW d \in range
        PROVE  /\ d \in Days /\ Len(bars[d]) \in DOMAIN bars[d] /\ Market!LatestBar(d).content \in Contents
               /\ Market!LatestBar(d).fetched \in Nat /\ lastTrue[d][Market!LatestBar(d).content] \in Nat
               /\ lastTrue[d][Market!LatestBar(d).content] >= Market!LatestBar(d).fetched
    <3>1. d \in Days /\ Len(bars[d]) \in DOMAIN bars[d] /\ Market!LatestBar(d).content \in Contents /\ Market!LatestBar(d).fetched \in Nat
      BY <1>3, <2>1, <2>2, LatestFields
    <3>2. lastTrue[d][Market!LatestBar(d).content] \in Nat
      BY <2>1, <3>1, TruthIsNat
    <3>3. lastTrue[d][Market!LatestBar(d).content] >= Market!LatestBar(d).fetched
      BY <3>1 DEF BarInv, StoredInv, Market!LatestBar
    <3> QED
      BY <3>1, <3>2, <3>3
  <2>3. ASSUME NEW d \in range
        PROVE  lastTrue[d][Market!LatestBar(d).content] + BarTtl >= now \/ d \in overtaken
    <3>1. CASE \A e \in range : Market!LatestBar(e).fetched + BarTtl >= now
      <4>1. Market!LatestBar(d).fetched + BarTtl >= now
        BY <3>1
      <4> QED
        BY <2>1, <2>2, <4>1, MarketConstants
    <3>2. CASE Market!Confirmed(range, now)
      <4>1. PICK s \in syncs : s.complete /\ range \subseteq s.range /\ s.at + BarTtl > now
        BY <3>2 DEF Market!Confirmed
      <4>2. s.at \in Nat /\ (lastTrue[d][Market!LatestBar(d).content] >= s.at \/ d \in overtaken)
        BY <2>1, <4>1 DEF BarInv, SyncedInv
      <4> QED
        BY <2>1, <2>2, <4>1, <4>2, MarketConstants
    <3> QED
      BY <1>3, <3>1, <3>2
  <2>4. DOMAIN result = range /\ \A d \in range : result[d] = Market!LatestBar(d).content
    OBVIOUS
  <2>5. ASSUME NEW e \in evidence
        PROVE  /\ e.day \in Days /\ e.revision \in DOMAIN bars[e.day]
               /\ bars[e.day][e.revision].content = result[e.day]
    <3>1. PICK d \in range : e = [day |-> d, revision |-> Len(bars[d])]
      OBVIOUS
    <3>2. e.day = d /\ e.revision = Len(bars[d])
      BY <3>1
    <3> QED
      BY <2>2, <2>4, <3>2 DEF Market!LatestBar
  <2>6. BarTypes' /\ TruthInv' /\ StoredInv' /\ SyncedInv' /\ StoreGrows
    BY <1>1, StoreStays
  <2>7. DOMAIN result \subseteq range /\ (\A d \in DOMAIN result : result[d] \in Contents)
        /\ \A d \in DOMAIN result : lastTrue'[d][result[d]] + BarTtl >= now \/ d \in overtaken'
    BY <1>1, <2>2, <2>3, <2>4
  <2>8. \A e \in evidence : /\ e.day \in Days /\ e.revision \in DOMAIN bars'[e.day]
                             /\ bars'[e.day][e.revision].content = result[e.day]
    BY <1>1, <2>5
  <2> HIDE DEF result, evidence
  <2> QED
    BY <1>1, <1>3, <2>4, <2>6, <2>7, <2>8, ServedKeeps
<1> QED
  BY <1>2, <1>3 DEF Market!ReadBars

LEMMA AskKeeps ==
  ASSUME BarInv, NEW r \in Requests, Market!Ask(r)
  PROVE  BarInv'
<1>1. reads[r].pc = "ask" /\ UNCHANGED <<marketClock, provider, lastTrue, snapshots, bars, syncs, overtaken>>
  BY DEF Market!Ask
<1>2. /\ reads[r].range \in Ranges /\ reads[r].range \subseteq Days
      /\ reads[r].now \in Nat /\ reads[r].now <= marketClock /\ marketClock \in Nat
  BY <1>1, CallFields
<1>3. BarTypes' /\ TruthInv' /\ StoredInv' /\ SyncedInv' /\ StoreGrows
  BY <1>1, StoreStays
<1>4. CASE Market!Served(r, "nothing", <<>>, {})
  <2>1. DOMAIN <<>> = {}
    OBVIOUS
  <2> QED
    BY <1>1, <1>3, <1>4, <2>1, ServedKeeps
<1>5. ASSUME NEW missing,
             reads' = [reads EXCEPT ![r] = [pc |-> "save", range |-> @.range, now |-> @.now,
                         result |-> [d \in @.range \ missing |-> provider[d]]]]
      PROVE  BarInv'
  <2> DEFINE result == [d \in reads[r].range \ missing |-> provider[d]]
             q == [pc |-> "save", range |-> reads[r].range, now |-> reads[r].now, result |-> result]
  <2>1. reads' = [reads EXCEPT ![r] = q]
    BY <1>5
  <2>2. q.pc = "save" /\ q.range = reads[r].range /\ q.now = reads[r].now /\ q.result = result
    OBVIOUS
  <2>3. DOMAIN result \subseteq reads[r].range /\ \A d \in DOMAIN result : result[d] = provider[d]
    OBVIOUS
  <2> HIDE DEF result, q
  <2>4. ASSUME NEW d \in DOMAIN result
        PROVE  result[d] \in Contents /\ lastTrue[d][result[d]] >= reads[r].now
    <3>1. d \in Days /\ result[d] = provider[d]
      BY <1>2, <2>3
    <3>2. provider[d] \in Contents /\ lastTrue[d][provider[d]] = marketClock
      BY <3>1 DEF BarInv, BarTypes, TruthInv
    <3> QED
      BY <1>2, <3>1, <3>2
  <2>5. ReadOf(q, marketClock', lastTrue', snapshots', bars', overtaken')
    BY <1>1, <1>2, <2>2, <2>3, <2>4 DEF ReadOf
  <2> QED
    BY <1>3, <2>1, <2>5, ReadMoves DEF BarInv
<1> QED
  BY <1>4, <1>5 DEF Market!Ask

\* What is stored of a response, with all of its bars or some.
LEMMA ResponseStored ==
  ASSUME BarInv, NEW r \in Requests, reads[r].pc = "save", NEW days \in SUBSET DOMAIN reads[r].result,
         snapshots' = snapshots \cup {Market!Saved(r)}, Market!SaveBars(r, days), overtaken' = overtaken \cup Market!LaterStored(r),
         UNCHANGED <<marketClock, provider, lastTrue>>,
         syncs' = syncs \/ (days = DOMAIN reads[r].result /\ syncs' = syncs \cup {Market!Synced(r)})
  PROVE  BarTypes' /\ TruthInv' /\ StoredInv' /\ SyncedInv' /\ StoreGrows
<1> DEFINE result == reads[r].result
           now == reads[r].now
           entry(d) == [content |-> result[d], fetched |-> now]
           fresh(d) == d \in days /\ Market!NewRevision(d, result[d])
<1>1. /\ BarTypes /\ TruthInv /\ StoredInv /\ SyncedInv
      /\ reads[r].range \in Ranges /\ reads[r].range \subseteq Days /\ now \in Nat /\ now <= marketClock
      /\ DOMAIN result \subseteq reads[r].range
      /\ \A d \in DOMAIN result : result[d] \in Contents /\ lastTrue[d][result[d]] >= now
  BY CallFields DEF BarInv, ReadOf
<1>2. Market!Saved(r).range = reads[r].range /\ Market!Saved(r).at = now /\ Market!Saved(r).result = result
  BY DEF Market!Saved
<1>3. \A d \in Days : bars'[d] = IF fresh(d) THEN Append(bars[d], entry(d)) ELSE bars[d]
  BY DEF Market!SaveBars
<1>4. \A d \in days : d \in DOMAIN result /\ d \in Days /\ result[d] \in Contents
  BY <1>1
<1>5. bars' = [d \in Days |-> bars'[d]]
  BY DEF Market!SaveBars
<1> HIDE DEF result, now
<1>6. ASSUME NEW d \in Days, fresh(d)
      PROVE  /\ bars'[d] \in Seq(Revision) /\ Len(bars[d]) \in Nat /\ Len(bars'[d]) = Len(bars[d]) + 1
             /\ DOMAIN bars[d] = 1..Len(bars[d]) /\ DOMAIN bars'[d] = 1..(Len(bars[d]) + 1)
             /\ \A i \in DOMAIN bars[d] : bars'[d][i] = bars[d][i]
             /\ bars'[d][Len(bars[d]) + 1] = entry(d)
             /\ entry(d).content = result[d] /\ entry(d).fetched = now
  <2>1. bars[d] \in Seq(Revision) /\ entry(d) \in Revision
    BY <1>1, <1>4, <1>6 DEF BarTypes, Revision
  <2>2. bars'[d] = Append(bars[d], entry(d))
    BY <1>3, <1>6
  <2>3. entry(d).content = result[d] /\ entry(d).fetched = now
    OBVIOUS
  <2> HIDE DEF entry
  <2> QED
    BY <2>1, <2>2, <2>3, Appended
<1>7. ASSUME NEW d \in Days, ~fresh(d)
      PROVE  bars'[d] = bars[d]
  BY <1>3, <1>7
<1> HIDE DEF entry
<1>8. ASSUME NEW d \in Days
      PROVE  /\ bars'[d] \in Seq(Revision)
             /\ \A i \in DOMAIN bars[d] : i \in DOMAIN bars'[d] /\ bars'[d][i] = bars[d][i]
  <2>1. CASE fresh(d)
    <3> HIDE DEF fresh
    <3>1. \A i \in 1..Len(bars[d]) : i \in 1..(Len(bars[d]) + 1)
      BY <1>6, <2>1
    <3> QED
      BY <1>6, <2>1, <3>1
  <2>2. CASE ~fresh(d)
    BY <1>1, <1>7, <2>2 DEF BarTypes
  <2> QED
    BY <2>1, <2>2
<1>9. BarTypes' /\ TruthInv'
  <2>1. bars' \in [Days -> Seq(Revision)]
    BY <1>5, <1>8
  <2> QED
    BY <1>1, <2>1 DEF BarTypes, TruthInv
<1>10. StoreGrows
  <2>1. marketClock \in Nat /\ marketClock <= marketClock'
    BY <1>1 DEF BarTypes
  <2>2. \A d \in Days : \A c \in Contents : lastTrue'[d][c] \in Nat /\ lastTrue[d][c] <= lastTrue'[d][c]
    BY <1>1, TruthIsNat
  <2> QED
    BY <1>8, <2>1, <2>2 DEF StoreGrows
<1>11. ASSUME NEW d \in Days, NEW i \in DOMAIN bars'[d]
       PROVE  lastTrue[d][bars'[d][i].content] >= bars'[d][i].fetched
  <2>1. CASE i \in DOMAIN bars[d]
    BY <1>1, <1>8, <2>1 DEF StoredInv
  <2>2. CASE i \notin DOMAIN bars[d]
    <3>1. fresh(d)
      BY <1>7, <2>2
    <3>2. d \in DOMAIN result
      BY <1>4, <3>1
    <3> HIDE DEF fresh
    <3>3. i = Len(bars[d]) + 1
      BY <1>6, <2>2, <3>1
    <3>4. bars'[d][i].content = result[d] /\ bars'[d][i].fetched = now
      BY <1>6, <3>1, <3>3
    <3> QED
      BY <1>1, <3>2, <3>4
  <2> QED
    BY <2>1, <2>2
<1>12. ASSUME NEW d \in Days, NEW i \in DOMAIN bars'[d], NEW j \in DOMAIN bars'[d], j = i + 1
       PROVE  bars'[d][i].content # bars'[d][j].content
  <2>1. CASE fresh(d)
    <3>1. Market!NewRevision(d, result[d])
      BY <2>1
    <3> HIDE DEF fresh
    <3>2. i \in DOMAIN bars[d] /\ bars'[d][i] = bars[d][i]
      BY <1>6, <1>12, <2>1
    <3>3. CASE j \in DOMAIN bars[d]
      BY <1>1, <1>8, <1>12, <3>2, <3>3 DEF StoredInv
    <3>4. CASE j \notin DOMAIN bars[d]
      <4>1. j = Len(bars[d]) + 1
        BY <1>6, <2>1, <3>4
      <4>2. i = Len(bars[d])
        BY <1>6, <1>12, <2>1, <3>2, <4>1
      <4>3. bars[d] # <<>> /\ bars'[d][j].content = result[d]
        BY <1>6, <2>1, <3>2, <4>1
      <4>4. bars[d][i].content # result[d]
        BY <3>1, <4>2, <4>3 DEF Market!NewRevision, Market!LatestBar
      <4> QED
        BY <3>2, <4>3, <4>4
    <3> QED
      BY <3>3, <3>4
  <2>2. CASE ~fresh(d)
    BY <1>1, <1>7, <1>12, <2>2 DEF StoredInv
  <2> QED
    BY <2>1, <2>2
<1>13. StoredInv'
  <2>1. ASSUME NEW s \in snapshots'
        PROVE  /\ s.at \in Nat /\ s.range \in Ranges /\ DOMAIN s.result \subseteq s.range
               /\ \A d \in DOMAIN s.result : s.result[d] \in Contents /\ lastTrue[d][s.result[d]] >= s.at
    <3>1. CASE s \in snapshots
      BY <1>1, <3>1 DEF StoredInv
    <3>2. CASE s = Market!Saved(r)
      BY <1>1, <1>2, <3>2
    <3> QED
      BY <3>1, <3>2
  <2> QED
    BY <1>11, <1>12, <2>1 DEF StoredInv
<1>14. ASSUME NEW d \in days
       PROVE  bars'[d] # <<>> /\ bars'[d][Len(bars'[d])].content = result[d]
  <2>1. d \in Days
    BY <1>4
  <2>2. CASE fresh(d)
    <3> HIDE DEF fresh
    <3>1. Len(bars'[d]) = Len(bars[d]) + 1 /\ Len(bars[d]) + 1 # 0 /\ bars'[d][Len(bars[d]) + 1].content = result[d]
      BY <1>6, <2>1, <2>2
    <3> QED
      BY <3>1
  <2>3. CASE ~fresh(d)
    <3>1. bars'[d] = bars[d] /\ ~Market!NewRevision(d, result[d])
      BY <1>7, <2>1, <2>3
    <3> QED
      BY <3>1 DEF Market!NewRevision, Market!LatestBar
  <2> QED
    BY <2>2, <2>3
<1>15. ASSUME NEW d \in Days, d \notin days
       PROVE  bars'[d] = bars[d]
  BY <1>7, <1>15
<1> HIDE DEF fresh
<1>16. ASSUME NEW s \in syncs', s.complete, NEW d \in Days \cap s.range
       PROVE  /\ s.at \in Nat /\ bars'[d] # <<>>
              /\ lastTrue[d][bars'[d][Len(bars'[d])].content] >= s.at \/ d \in overtaken'
              /\ \E z \in snapshots' : z.at = s.at /\ d \in DOMAIN z.result
  <2>1. CASE s \in syncs
    <3>1. /\ s.at \in Nat /\ bars[d] # <<>> /\ (lastTrue[d][Market!LatestBar(d).content] >= s.at \/ d \in overtaken)
          /\ \E z \in snapshots : z.at = s.at /\ d \in DOMAIN z.result
      BY <1>1, <1>16, <2>1 DEF SyncedInv
    <3>2. CASE d \notin days
      BY <1>15, <3>1, <3>2 DEF Market!LatestBar
    <3>3. CASE d \in days
      <4>1. d \in DOMAIN result /\ lastTrue[d][result[d]] >= now /\ lastTrue[d][result[d]] \in Nat
        BY <1>1, <1>4, <3>3, TruthIsNat
      <4>2. CASE s.at > now
        <5>1. d \in Market!LaterStored(r)
          BY <3>1, <4>1, <4>2 DEF Market!LaterStored, result, now
        <5> QED
          BY <1>14, <3>1, <3>3, <5>1
      <4>3. CASE ~(s.at > now)
        <5>1. lastTrue[d][result[d]] >= s.at
          BY <1>1, <3>1, <4>1, <4>3
        <5> QED
          BY <1>14, <3>1, <3>3, <5>1
      <4> QED
        BY <4>2, <4>3
    <3> QED
      BY <3>2, <3>3
  <2>2. CASE s \notin syncs
    <3>1. s = Market!Synced(r) /\ days = DOMAIN result
      BY <2>2 DEF result
    <3>2. s.at = now /\ s.range = reads[r].range /\ DOMAIN result = reads[r].range
      BY <1>16, <3>1 DEF Market!Synced, Market!Complete, result, now
    <3>3. d \in days /\ d \in DOMAIN result
      BY <1>16, <3>1, <3>2
    <3>4. Market!Saved(r) \in snapshots' /\ Market!Saved(r).at = s.at /\ d \in DOMAIN Market!Saved(r).result
      BY <1>2, <3>2, <3>3
    <3> QED
      BY <1>1, <1>14, <3>2, <3>3, <3>4
  <2> QED
    BY <2>1, <2>2
<1>17. ASSUME NEW s \in syncs', s.complete
       PROVE  s.at \in Nat
  BY <1>1, <1>17 DEF SyncedInv, Market!Synced, now
<1>18. SyncedInv'
  BY <1>16, <1>17 DEF SyncedInv, Market!LatestBar
<1> QED
  BY <1>9, <1>10, <1>13, <1>18

\* The caller gets what the provider had, whatever became of its save.
LEMMA ResponseServed ==
  ASSUME BarInv, NEW r \in Requests, reads[r].pc = "save", NEW evidence, Market!Served(r, "provider", reads[r].result, evidence),
         evidence = {} \/ (evidence = {Market!Saved(r)} /\ Market!Saved(r) \in snapshots'),
         UNCHANGED lastTrue, BarTypes', TruthInv', StoredInv', SyncedInv', StoreGrows
  PROVE  BarInv'
<1> DEFINE result == reads[r].result
           now == reads[r].now
<1>1. /\ BarTypes /\ now \in Nat /\ reads[r].range \subseteq Days
      /\ DOMAIN result \subseteq reads[r].range
      /\ \A d \in DOMAIN result : result[d] \in Contents /\ lastTrue[d][result[d]] >= now
  BY CallFields DEF BarInv, ReadOf
<1>2. Market!Saved(r).result = result
  BY DEF Market!Saved
<1> HIDE DEF result, now
<1>3. ASSUME NEW d \in DOMAIN result
      PROVE  lastTrue'[d][result[d]] + BarTtl >= now
  <2>1. lastTrue[d][result[d]] \in Nat /\ lastTrue[d][result[d]] >= now
    BY <1>1, TruthIsNat
  <2> QED
    BY <1>1, <2>1, MarketConstants
<1>4. \A e \in evidence : e \in snapshots' /\ e.result = result
  BY <1>2
<1> QED
  BY <1>1, <1>3, <1>4, ServedKeeps DEF result, now

LEMMA SaveKeeps ==
  ASSUME BarInv, NEW r \in Requests, Market!Save(r) \/ Market!SaveFails(r)
  PROVE  BarInv'
<1>1. reads[r].pc = "save" /\ UNCHANGED <<marketClock, provider, lastTrue>>
  BY DEF Market!Save, Market!SaveFails
<1>2. CASE Market!Save(r)
  <2>1. BarTypes' /\ TruthInv' /\ StoredInv' /\ SyncedInv' /\ StoreGrows
    <3>1. /\ snapshots' = snapshots \cup {Market!Saved(r)} /\ Market!SaveBars(r, DOMAIN reads[r].result)
          /\ overtaken' = overtaken \cup Market!LaterStored(r) /\ syncs' = syncs \cup {Market!Synced(r)}
      BY <1>2 DEF Market!Save
    <3> QED
      BY <1>1, <3>1, ResponseStored
  <2>2. Market!Served(r, "provider", reads[r].result, {Market!Saved(r)}) /\ Market!Saved(r) \in snapshots'
    BY <1>2 DEF Market!Save
  <2> QED
    BY <1>1, <2>1, <2>2, ResponseServed
<1>3. CASE Market!SaveFails(r)
  <2>1. BarTypes' /\ TruthInv' /\ StoredInv' /\ SyncedInv' /\ StoreGrows
    <3>1. CASE UNCHANGED <<snapshots, bars, syncs, overtaken>>
      BY <1>1, <3>1, StoreStays
    <3>2. ASSUME NEW days \in SUBSET DOMAIN reads[r].result, snapshots' = snapshots \cup {Market!Saved(r)},
                 Market!SaveBars(r, days), overtaken' = overtaken \cup Market!LaterStored(r), UNCHANGED syncs
          PROVE  BarTypes' /\ TruthInv' /\ StoredInv' /\ SyncedInv' /\ StoreGrows
      BY <1>1, <3>2, ResponseStored
    <3> QED
      BY <1>3, <3>1, <3>2 DEF Market!SaveFails
  <2>2. Market!Served(r, "provider", reads[r].result, {})
    BY <1>3 DEF Market!SaveFails
  <2> QED
    BY <1>1, <2>1, <2>2, ResponseServed
<1> QED
  BY <1>2, <1>3

LEMMA BarsKeep == BarInv /\ [Market!Next]_(Market!vars) => BarInv'
<1> SUFFICES ASSUME BarInv, [Market!Next]_(Market!vars) PROVE BarInv'
  OBVIOUS
<1>1. CASE Market!Tick
  BY <1>1, BarTickKeeps
<1>2. CASE \E d \in Days : Market!Revise(d)
  BY <1>2, ReviseKeeps
<1>3. CASE \E r \in Requests, range \in Ranges : Market!Begin(r, range)
  BY <1>3, BeginReadKeeps
<1>4. CASE \E r \in Requests : Market!FindSnapshot(r) \/ Market!ReadBars(r) \/ Market!Ask(r) \/ Market!Save(r) \/ Market!SaveFails(r)
  BY <1>4, FindSnapshotKeeps, ReadBarsKeeps, AskKeeps, SaveKeeps
<1>5. CASE UNCHANGED Market!vars
  <2>1. UNCHANGED <<marketClock, provider, lastTrue, snapshots, bars, syncs, overtaken, reads>>
    BY <1>5 DEF Market!vars
  <2>2. BarTypes' /\ TruthInv' /\ StoredInv' /\ SyncedInv' /\ StoreGrows
    BY <2>1, StoreStays
  <2> QED
    BY <2>1, <2>2, AllReadsStay DEF BarInv
<1> QED
  BY <1>1, <1>2, <1>3, <1>4, <1>5 DEF Market!Next

\* What the run checks of the bars.
LEMMA BarsSay ==
  ASSUME BarInv
  PROVE  Market!TypeOK /\ Market!EvidenceIsStored /\ Market!StaleOnlyIfOvertaken
<1>1. \A r \in Market!Done : reads[r].pc = "done" /\ ReadOf(reads[r], marketClock, lastTrue, snapshots, bars, overtaken)
  BY DEF BarInv, ReadsInv, Market!Done
<1>2. Market!TypeOK
  <2>1. ASSUME NEW d \in Days, NEW i \in 1..(Len(bars[d]) - 1)
        PROVE  bars[d][i].content # bars[d][i + 1].content
    <3>1. bars[d] \in Seq(Revision)
      BY DEF BarInv, BarTypes
    <3>2. i \in DOMAIN bars[d] /\ i + 1 \in DOMAIN bars[d]
      BY <3>1
    <3> QED
      BY <3>2 DEF BarInv, StoredInv
  <2> QED
    BY <1>1, <2>1 DEF Market!TypeOK, ReadOf
<1>3. Market!EvidenceIsStored
  <2>1. ASSUME NEW r \in Market!Done, NEW e \in reads[r].evidence, reads[r].source = "bars"
        PROVE  e.revision <= Len(bars[e.day]) /\ bars[e.day][e.revision].content = reads[r].result[e.day]
    <3>1. /\ e.day \in Days /\ e.revision \in DOMAIN bars[e.day]
          /\ bars[e.day][e.revision].content = reads[r].result[e.day]
      BY <1>1, <2>1 DEF ReadOf
    <3>2. bars[e.day] \in Seq(Revision)
      BY <3>1 DEF BarInv, BarTypes
    <3> QED
      BY <3>1, <3>2
  <2>2. \A r \in Market!Done : reads[r].source # "bars" =>
          \A e \in reads[r].evidence : e \in snapshots /\ e.result = reads[r].result
    BY <1>1 DEF ReadOf
  <2> QED
    BY <2>1, <2>2 DEF Market!EvidenceIsStored
<1>4. Market!StaleOnlyIfOvertaken
  BY <1>1 DEF Market!StaleOnlyIfOvertaken, Market!Fresh, ReadOf
<1> QED
  BY <1>2, <1>3, <1>4

-----------------------------------------------------------------------------
\* The live quotes (QuoteCache).

Entry == [key : Users \X Tickers, expires : Nat, row : Quotes!Row]

QuoteTypes ==
    /\ quoteClock \in 1..QuoteTime
    /\ cache \in Seq(Entry)
    /\ seen \in [Requests -> [Tickers -> 0..QuoteTime]]
    /\ \A c \in Requests : \A t \in Tickers : seen[c][t] <= quoteClock

\* No key twice, and what expires first is first.
Orderly(s) == \A i, j \in DOMAIN s : i < j => s[i].key # s[j].key /\ s[i].expires <= s[j].expires

CacheInv ==
    /\ Len(cache) <= Entries
    /\ Orderly(cache)
    /\ \A i \in DOMAIN cache :
         /\ cache[i].key = Quotes!CacheKey(cache[i].row.user, cache[i].row.ticker)
         /\ cache[i].expires <= quoteClock + QuoteTtl
         /\ cache[i].row.at <= quoteClock

\* Where a call q is; an answer has the user's own rows in the places of their tickers.
CallOf(q) ==
    /\ q.state = "idle" \/ q.state = "open" \/ q.state = "done"
    /\ q.state # "idle" => q.user \in Users /\ q.tickers \in Lists
    /\ q.state = "done" =>
         /\ q.answer \in Seq(Quotes!Row) /\ Len(q.answer) = Len(q.tickers)
         /\ \A i \in DOMAIN q.tickers :
              /\ q.answer[i].ticker = q.tickers[i] /\ q.answer[i].user = q.user
              /\ \A j \in DOMAIN q.tickers : q.tickers[i] = q.tickers[j] => q.answer[i] = q.answer[j]

CallsInv ==
    /\ asked = [c \in Requests |-> asked[c]]
    /\ \A c \in Requests : CallOf(asked[c])

\* Where the fetch f of a ticker t of a call q is, whose user had got a row of this age: a row in
\* hand is the user's own, and older than that only after a race.
FetchOf(f, q, t, age, time, late) ==
    /\ f.pc = "none" \/ f.pc = "queued" \/ f.pc = "look" \/ f.pc = "ask" \/ f.pc = "store" \/ f.pc = "done"
    /\ f.pc # "none" => q.state = "open"
    /\ f.pc = "store" \/ f.pc = "done" =>
         f.row \in Quotes!Row /\ f.row.user = q.user /\ f.row.ticker = t /\ f.row.at <= time
    /\ f.pc = "store" => f.row.at >= age
    /\ f.pc = "done" => f.row.at = Quotes!NoPrice \/ f.row.at >= age \/ Quotes!CacheKey(q.user, t) \in late

FetchesInv ==
    /\ fetches = [c \in Requests |-> [t \in Tickers |-> fetches[c][t]]]
    /\ \A c \in Requests : \A t \in Tickers : FetchOf(fetches[c][t], asked[c], t, seen[c][t], quoteClock, raced)

AnswersInv ==
    \A c \in Requests : asked[c].state = "done" => \A i \in DOMAIN asked[c].tickers :
        LET row == asked[c].answer[i]
        IN  /\ row.at <= quoteClock
            /\ row.at = Quotes!NoPrice \/ row.at >= seen[c][asked[c].tickers[i]] \/ Quotes!KeyOf(c, asked[c].tickers[i]) \in raced

\* A call of the user; one that holds a row which is not in the cache yet; the ages a call has
\* of the rows of a ticker.
IsOf(c, u) == asked[c].state # "idle" /\ asked[c].user = u
Pending(c, u, t) == IsOf(c, u) /\ fetches[c][t].pc = "store"
Knows(c, t, n) ==
    \/ n = seen[c][t]
    \/ fetches[c][t].pc = "done" /\ n = fetches[c][t].row.at
    \/ asked[c].state = "done" /\ \E i \in DOMAIN asked[c].tickers : asked[c].tickers[i] = t /\ n = asked[c].answer[i].at

\* A key that was never asked for twice at once: no row in hand but one, which is as new as the
\* one in the cache, and each of them as new as all that calls have got.
RaceFree(u, t) ==
    /\ \A c, d \in Requests : Pending(c, u, t) /\ Pending(d, u, t) => c = d
    /\ \A i \in DOMAIN cache : \A d \in Requests :
         cache[i].key = Quotes!CacheKey(u, t) /\ Pending(d, u, t) => cache[i].row.at <= fetches[d][t].row.at
    /\ \A c \in Requests : \A n \in 0..QuoteTime : IsOf(c, u) /\ Knows(c, t, n) =>
         /\ \A i \in DOMAIN cache : cache[i].key = Quotes!CacheKey(u, t) => n <= cache[i].row.at
         /\ \A d \in Requests : Pending(d, u, t) => n <= fetches[d][t].row.at

AgeInv == \A u \in Users : \A t \in Tickers : Quotes!CacheKey(u, t) \notin raced => RaceFree(u, t)

QuoteInv == QuoteTypes /\ CacheInv /\ CallsInv /\ FetchesInv /\ AnswersInv /\ AgeInv

LEMMA QuoteConstants ==
  /\ QuoteTtl \in Nat \ {0} /\ Entries \in Nat \ {0} /\ QuoteTime \in Nat \ {0}
  /\ \A tickers \in Lists : tickers \in Seq(Tickers) /\ tickers # <<>>
BY MarketDataAssumption DEF Quotes!QuoteAssumption

LEMMA KeysAreOwn ==
  ASSUME NEW u, NEW t, NEW v, NEW w
  PROVE  Quotes!CacheKey(u, t) = Quotes!CacheKey(v, w) <=> u = v /\ t = w
BY DEF Quotes!CacheKey

LEMMA EntryFields ==
  ASSUME NEW s \in Seq(Entry), NEW i \in DOMAIN s
  PROVE  /\ s[i] \in Entry /\ s[i].row \in Quotes!Row /\ s[i].expires \in Nat /\ s[i].row.at \in 0..QuoteTime
         /\ s[i].row.user \in Users /\ s[i].row.ticker \in Tickers
<1>1. s[i] \in Entry
  BY ElementOf
<1>2. s[i].row \in Quotes!Row /\ s[i].expires \in Nat
  BY <1>1 DEF Entry
<1> QED
  BY <1>1, <1>2 DEF Quotes!Row

\* What is left of a sequence without one place, or of its end, is in the same order.
LEMMA OneRemoved ==
  ASSUME NEW S, NEW s \in Seq(S), NEW p \in DOMAIN s
  PROVE  /\ Quotes!RemoveAt(s, p) \in Seq(S) /\ Len(Quotes!RemoveAt(s, p)) = Len(s) - 1
         /\ \A j \in 1..(Len(s) - 1) : Quotes!RemoveAt(s, p)[j] = IF j < p THEN s[j] ELSE s[j + 1]
<1> DEFINE head == SubSeq(s, 1, p - 1)
           tail == SubSeq(s, p + 1, Len(s))
<1>1. Len(s) \in Nat /\ p \in 1..Len(s) /\ p - 1 \in Int /\ p + 1 \in Int /\ Len(s) \in Int /\ 1 \in Int
  OBVIOUS
<1>2. \A i \in 1..Len(s) : s[i] \in S
  OBVIOUS
<1>3. /\ head \in Seq(S) /\ Len(head) = p - 1 /\ \A i \in 1..(p - 1) : head[i] = s[i]
  <2>1. \A i \in 1..(p - 1) : s[i] \in S
    BY <1>1, <1>2
  <2>2. /\ head \in Seq(S)
        /\ Len(head) = IF 1 <= p - 1 THEN (p - 1) - 1 + 1 ELSE 0
        /\ \A i \in 1..((p - 1) - 1 + 1) : head[i] = s[1 + i - 1]
    BY <1>1, <2>1, SubSeqProperties
  <2> HIDE DEF head
  <2> QED
    BY <1>1, <2>2
<1>4. /\ tail \in Seq(S) /\ Len(tail) = Len(s) - p /\ \A i \in 1..(Len(s) - p) : tail[i] = s[p + i]
  <2>1. \A i \in (p + 1)..Len(s) : s[i] \in S
    BY <1>1, <1>2
  <2>2. /\ tail \in Seq(S)
        /\ Len(tail) = IF p + 1 <= Len(s) THEN Len(s) - (p + 1) + 1 ELSE 0
        /\ \A i \in 1..(Len(s) - (p + 1) + 1) : tail[i] = s[p + 1 + i - 1]
    BY <1>1, <2>1, SubSeqProperties
  <2> HIDE DEF tail
  <2>3. \A i \in 1..(Len(s) - p) : i \in 1..(Len(s) - (p + 1) + 1) /\ p + 1 + i - 1 = p + i
    BY <1>1
  <2>4. Len(tail) = Len(s) - p
    BY <1>1, <2>2
  <2> QED
    BY <2>2, <2>3, <2>4
<1>5. Quotes!RemoveAt(s, p) = head \o tail
  BY DEF Quotes!RemoveAt
<1> HIDE DEF head, tail
<1>6. /\ head \o tail \in Seq(S) /\ Len(head \o tail) = Len(head) + Len(tail)
      /\ \A i \in 1..(Len(head) + Len(tail)) : (head \o tail)[i] = IF i <= Len(head) THEN head[i] ELSE tail[i - Len(head)]
  BY <1>3, <1>4, ConcatProperties
<1> DEFINE whole == head \o tail
<1>7. /\ whole \in Seq(S) /\ Len(whole) = Len(s) - 1
      /\ \A i \in 1..(Len(s) - 1) : whole[i] = IF i <= p - 1 THEN head[i] ELSE tail[i - (p - 1)]
  <2>1. Len(head) + Len(tail) = Len(s) - 1
    BY <1>1, <1>3, <1>4
  <2> QED
    BY <1>3, <1>6, <2>1
<1> HIDE DEF whole
<1>8. ASSUME NEW j \in 1..(Len(s) - 1)
      PROVE  whole[j] = IF j < p THEN s[j] ELSE s[j + 1]
  <2>1. CASE j < p
    <3>1. j <= p - 1 /\ j \in 1..(p - 1)
      BY <1>1, <2>1
    <3> QED
      BY <1>3, <1>7, <2>1, <3>1
  <2>2. CASE ~(j < p)
    <3>1. ~(j <= p - 1) /\ j - (p - 1) \in 1..(Len(s) - p) /\ p + (j - (p - 1)) = j + 1
      BY <1>1, <2>2
    <3>2. tail[j - (p - 1)] = s[j + 1]
      BY <1>4, <3>1
    <3> QED
      BY <1>7, <2>2, <3>1, <3>2
  <2> QED
    BY <2>1, <2>2
<1> QED
  BY <1>5, <1>7, <1>8 DEF whole

LEMMA EndOf ==
  ASSUME NEW S, NEW s \in Seq(S), NEW m \in Nat, m <= Len(s)
  PROVE  /\ SubSeq(s, m + 1, Len(s)) \in Seq(S) /\ Len(SubSeq(s, m + 1, Len(s))) = Len(s) - m
         /\ \A j \in 1..(Len(s) - m) : j + m \in 1..Len(s) /\ SubSeq(s, m + 1, Len(s))[j] = s[j + m]
<1> DEFINE end == SubSeq(s, m + 1, Len(s))
<1>1. Len(s) \in Nat /\ m + 1 \in Int
  OBVIOUS
<1>2. \A i \in (m + 1)..Len(s) : s[i] \in S
  OBVIOUS
<1>3. /\ end \in Seq(S)
      /\ Len(end) = IF m + 1 <= Len(s) THEN Len(s) - (m + 1) + 1 ELSE 0
      /\ \A i \in 1..(Len(s) - (m + 1) + 1) : end[i] = s[m + 1 + i - 1]
  BY <1>1, <1>2, SubSeqProperties
<1> HIDE DEF end
<1>4. Len(end) = Len(s) - m
  BY <1>1, <1>3
<1>5. \A j \in 1..(Len(s) - m) : j \in 1..(Len(s) - (m + 1) + 1) /\ j + m \in 1..Len(s) /\ m + 1 + j - 1 = j + m
  BY <1>1
<1>6. \A j \in 1..(Len(s) - m) : end[j] = s[j + m]
  BY <1>3, <1>5
<1> QED
  BY <1>3, <1>4, <1>5, <1>6 DEF end

\* A finite set of numbers has a last.
LEMMA NatsHaveLast ==
  ASSUME NEW S \in SUBSET Nat, IsFiniteSet(S), S # {}
  PROVE  \E m \in S : \A w \in S : w <= m
<1> DEFINE F == {T \in SUBSET S : T # {} => \E m \in T : \A w \in T : w <= m}
<1>1. ASSUME NEW T \in SUBSET S, \A U \in SUBSET T : U # T => U \in F
      PROVE  T \in F
  <2>1. SUFFICES ASSUME NEW x \in T
                 PROVE  \E m \in T : \A w \in T : w <= m
    OBVIOUS
  <2>2. T \ {x} \in F
    BY <1>1, <2>1
  <2>3. CASE T \ {x} = {}
    BY <2>1, <2>3
  <2>4. CASE T \ {x} # {}
    <3>1. PICK m \in T \ {x} : \A w \in T \ {x} : w <= m
      BY <2>2, <2>4
    <3>2. CASE m <= x
      BY <2>1, <3>1, <3>2
    <3>3. CASE ~(m <= x)
      BY <2>1, <3>1, <3>3
    <3> QED
      BY <3>2, <3>3
  <2> QED
    BY <2>3, <2>4
<1>2. S \in F
  <2> HIDE DEF F
  <2> QED
    BY <1>1, SetInduction
<1> QED
  BY <1>2

\* The cache without the entry of a key.
LEMMA OthersStay ==
  ASSUME QuoteTypes, CacheInv, NEW key
  PROVE  /\ Quotes!Others(key) \in Seq(Entry) /\ Orderly(Quotes!Others(key))
         /\ \A j \in DOMAIN Quotes!Others(key) :
              Quotes!Others(key)[j].key # key /\ \E i \in DOMAIN cache : Quotes!Others(key)[j] = cache[i]
<1> DEFINE others == Quotes!Others(key)
<1>1. cache \in Seq(Entry) /\ Orderly(cache) /\ DOMAIN cache = 1..Len(cache) /\ Len(cache) \in Nat
  BY DEF QuoteTypes, CacheInv
<1>2. CASE Quotes!Cached(key) = {}
  <2>1. others = cache
    BY <1>2 DEF Quotes!Others
  <2>2. \A j \in DOMAIN cache : cache[j].key # key
    BY <1>1, <1>2 DEF Quotes!Cached
  <2> QED
    BY <1>1, <2>1, <2>2
<1>3. CASE Quotes!Cached(key) # {}
  <2> DEFINE p == CHOOSE i \in Quotes!Cached(key) : TRUE
             at(j) == IF j < p THEN j ELSE j + 1
  <2>1. p \in 1..Len(cache) /\ cache[p].key = key
    BY <1>3 DEF Quotes!Cached
  <2>2. others = Quotes!RemoveAt(cache, p)
    BY <1>3 DEF Quotes!Others
  <2> HIDE DEF p, others
  <2>3. /\ others \in Seq(Entry) /\ Len(others) = Len(cache) - 1
        /\ \A j \in 1..(Len(cache) - 1) : others[j] = IF j < p THEN cache[j] ELSE cache[j + 1]
    <3>1. p \in DOMAIN cache
      BY <1>1, <2>1
    <3>2. /\ Quotes!RemoveAt(cache, p) \in Seq(Entry) /\ Len(Quotes!RemoveAt(cache, p)) = Len(cache) - 1
          /\ \A j \in 1..(Len(cache) - 1) : Quotes!RemoveAt(cache, p)[j] = IF j < p THEN cache[j] ELSE cache[j + 1]
      BY <1>1, <3>1, OneRemoved
    <3> QED
      BY <2>2, <3>2
  <2>4. DOMAIN others = 1..(Len(cache) - 1)
    BY <2>3
  <2>5. ASSUME NEW j \in DOMAIN others
        PROVE  at(j) \in DOMAIN cache /\ at(j) # p /\ others[j] = cache[at(j)]
    <3>1. j \in 1..(Len(cache) - 1)
      BY <2>4
    <3>2. at(j) \in 1..Len(cache) /\ at(j) # p
      BY <1>1, <2>1, <3>1
    <3>3. others[j] = cache[at(j)]
      BY <2>3, <3>1
    <3> QED
      BY <1>1, <3>2, <3>3
  <2>6. \A i, j \in DOMAIN others : i < j => at(i) < at(j)
    BY <1>1, <2>1, <2>4
  <2> HIDE DEF at
  <2>7. Orderly(others)
    BY <1>1, <2>5, <2>6 DEF Orderly
  <2>8. ASSUME NEW j \in DOMAIN others
        PROVE  others[j].key # key
    <3>1. at(j) \in 1..Len(cache) /\ at(j) # p
      BY <1>1, <2>5
    <3>2. at(j) < p \/ p < at(j)
      BY <1>1, <2>1, <3>1
    <3> QED
      BY <1>1, <2>1, <2>5, <3>1, <3>2 DEF Orderly
  <2> QED
    BY <2>3, <2>5, <2>7, <2>8 DEF others
<1> QED
  BY <1>2, <1>3

\* The cache after a row is stored: its entry, and the entries of other keys that there is room for.
LEMMA EntriesStored ==
  ASSUME QuoteTypes, CacheInv, NEW e \in Entry, e.expires = quoteClock + QuoteTtl,
         NEW surplus, surplus = IF Len(Quotes!Kept(e)) > Entries THEN Len(Quotes!Kept(e)) - Entries ELSE 0,
         cache' = SubSeq(Quotes!Kept(e), surplus + 1, Len(Quotes!Kept(e)))
  PROVE  /\ cache' \in Seq(Entry) /\ Len(cache') <= Entries /\ Orderly(cache')
         /\ \A j \in DOMAIN cache' : \/ cache'[j] = e
                                     \/ cache'[j].key # e.key /\ \E i \in DOMAIN cache : cache'[j] = cache[i]
<1> DEFINE others == Quotes!Others(e.key)
           n == Len(others)
           s == Quotes!Kept(e)
<1>1. /\ others \in Seq(Entry) /\ Orderly(others)
      /\ \A j \in DOMAIN others : others[j].key # e.key /\ \E i \in DOMAIN cache : others[j] = cache[i]
  BY OthersStay
<1>2. s = Append(others, e)
  BY DEF Quotes!Kept
<1> HIDE DEF others, s
<1>3. /\ s \in Seq(Entry) /\ Len(s) = n + 1 /\ n \in Nat /\ DOMAIN s = 1..(n + 1) /\ DOMAIN others = 1..n
      /\ \A i \in 1..n : s[i] = others[i]
      /\ s[n + 1] = e
  BY <1>1, <1>2, Appended
<1> HIDE DEF n
<1>4. \A j \in 1..(n + 1) : s[j] = e \/ (s[j].key # e.key /\ \E i \in DOMAIN cache : s[j] = cache[i])
  <2>1. \A j \in 1..(n + 1) : j \in 1..n \/ j = n + 1
    BY <1>3
  <2> QED
    BY <1>1, <1>3, <2>1
<1>5. Orderly(s)
  <2>1. ASSUME NEW i \in 1..(n + 1), NEW j \in 1..(n + 1), i < j
        PROVE  s[i].key # s[j].key /\ s[i].expires <= s[j].expires
    <3>1. i \in 1..n /\ (j \in 1..n \/ j = n + 1)
      BY <1>3, <2>1
    <3>2. CASE j \in 1..n
      <4>1. i \in DOMAIN others /\ j \in DOMAIN others /\ s[i] = others[i] /\ s[j] = others[j]
        BY <1>3, <3>1, <3>2
      <4>2. others[i].key # others[j].key /\ others[i].expires <= others[j].expires
        BY <1>1, <2>1, <4>1 DEF Orderly
      <4> QED
        BY <4>1, <4>2
    <3>3. CASE j = n + 1
      <4>1. s[i] = others[i] /\ s[j] = e
        BY <1>3, <3>1, <3>3
      <4>2. s[i].key # e.key
        BY <1>1, <1>3, <3>1, <4>1
      <4>3. PICK k \in DOMAIN cache : s[i] = cache[k]
        BY <1>1, <1>3, <3>1, <4>1
      <4>4. cache[k].expires <= quoteClock + QuoteTtl
        BY <4>3 DEF CacheInv
      <4> QED
        BY <4>1, <4>2, <4>3, <4>4
    <3> QED
      BY <3>1, <3>2, <3>3
  <2> QED
    BY <1>3, <2>1 DEF Orderly
<1>6. surplus \in Nat /\ surplus <= Len(s) /\ Len(s) - surplus <= Entries
  BY <1>3, QuoteConstants DEF s
<1>7. /\ cache' \in Seq(Entry) /\ Len(cache') = Len(s) - surplus
      /\ \A j \in 1..(Len(s) - surplus) : j + surplus \in 1..Len(s) /\ cache'[j] = s[j + surplus]
  BY <1>3, <1>6, EndOf DEF s
<1>8. DOMAIN cache' = 1..(Len(s) - surplus)
  BY <1>7
<1>9. Orderly(cache')
  <2>1. ASSUME NEW i \in DOMAIN cache', NEW j \in DOMAIN cache', i < j
        PROVE  cache'[i].key # cache'[j].key /\ cache'[i].expires <= cache'[j].expires
    <3>1. i + surplus < j + surplus
      BY <1>3, <1>6, <1>8, <2>1
    <3>2. i + surplus \in DOMAIN s /\ j + surplus \in DOMAIN s /\ cache'[i] = s[i + surplus] /\ cache'[j] = s[j + surplus]
      BY <1>3, <1>7, <1>8
    <3> QED
      BY <1>5, <3>1, <3>2 DEF Orderly
  <2> QED
    BY <2>1 DEF Orderly
<1>10. ASSUME NEW j \in DOMAIN cache'
       PROVE  cache'[j] = e \/ (cache'[j].key # e.key /\ \E i \in DOMAIN cache : cache'[j] = cache[i])
  <2>1. j + surplus \in 1..(n + 1) /\ cache'[j] = s[j + surplus]
    BY <1>3, <1>7, <1>8
  <2> QED
    BY <1>4, <2>1
<1>11. Len(cache') <= Entries
  BY <1>6, <1>7
<1> QED
  BY <1>7, <1>9, <1>10, <1>11

\* The ages of answers have a newest.
LEMMA NewestIsOne ==
  ASSUME NEW user, NEW ticker,
         \A c \in Requests : asked[c].state = "done" => \A row \in Quotes!ToSet(asked[c].answer) : row.at \in Nat /\ row.at <= quoteClock,
         quoteClock \in Nat
  PROVE  \/ Quotes!Newest(user, ticker) = Quotes!NoPrice
         \/ \E c \in Requests : /\ asked[c].state = "done" /\ asked[c].user = user
                             /\ \E row \in Quotes!ToSet(asked[c].answer) : row.ticker = ticker /\ row.at = Quotes!Newest(user, ticker)
<1> DEFINE rows == UNION {Quotes!ToSet(asked[c].answer) : c \in {d \in Requests : asked[d].state = "done" /\ asked[d].user = user}}
           times == {row.at : row \in {r \in rows : r.ticker = ticker}} \cup {Quotes!NoPrice}
<1>1. times \subseteq 0..quoteClock /\ times # {}
  BY DEF Quotes!NoPrice
<1>2. Quotes!Newest(user, ticker) = CHOOSE m \in times : \A n \in times : n <= m
  BY DEF Quotes!Newest
<1>3. Quotes!Newest(user, ticker) \in times
  <2> HIDE DEF times
  <2>1. IsFiniteSet(0..quoteClock)
    <3>1. 0 \in Int /\ quoteClock \in Int
      OBVIOUS
    <3> QED
      BY <3>1, FS_Interval
  <2>2. IsFiniteSet(times)
    BY <1>1, <2>1, FS_Subset
  <2>3. \E m \in times : \A n \in times : n <= m
    <3>1. times \in SUBSET Nat
      BY <1>1
    <3> QED
      BY <1>1, <2>2, <3>1, NatsHaveLast
  <2> QED
    BY <1>2, <2>3
<1> QED
  BY <1>3

LEMMA QuotesStart == Quotes!Init => QuoteInv
<1> SUFFICES ASSUME Quotes!Init PROVE QuoteInv
  OBVIOUS
<1>1. /\ quoteClock = 1 /\ cache = <<>> /\ raced = {}
      /\ asked = [c \in Requests |-> [state |-> "idle"]]
      /\ fetches = [c \in Requests |-> [t \in Tickers |-> Quotes!Idle]]
      /\ seen = [c \in Requests |-> [t \in Tickers |-> Quotes!NoPrice]]
  BY DEF Quotes!Init
<1>2. \A c \in Requests : asked[c].state = "idle" /\ \A t \in Tickers : fetches[c][t].pc = "none" /\ seen[c][t] = Quotes!NoPrice
  BY <1>1 DEF Quotes!Idle
<1>3. DOMAIN cache = {} /\ Len(cache) = 0
  BY <1>1
<1>4. QuoteTypes
  BY <1>1, <1>2, QuoteConstants DEF QuoteTypes, Quotes!NoPrice
<1>5. CacheInv
  BY <1>3, QuoteConstants DEF CacheInv, Orderly
<1>6. CallsInv /\ FetchesInv /\ AnswersInv
  BY <1>1, <1>2 DEF CallsInv, CallOf, FetchesInv, FetchOf, AnswersInv
<1>7. AgeInv
  BY <1>2 DEF AgeInv, RaceFree, IsOf, Pending
<1> QED
  BY <1>4, <1>5, <1>6, <1>7 DEF QuoteInv

\* The tickers of a call and the rows of its answer.
LEMMA ListFields ==
  ASSUME CallsInv, NEW c \in Requests, asked[c].state # "idle"
  PROVE  /\ asked[c].user \in Users /\ asked[c].tickers \in Seq(Tickers)
         /\ \A i \in DOMAIN asked[c].tickers : asked[c].tickers[i] \in Tickers
         /\ asked[c].state = "done" =>
              /\ DOMAIN asked[c].answer = DOMAIN asked[c].tickers
              /\ \A i \in DOMAIN asked[c].tickers : asked[c].answer[i] \in Quotes!Row /\ asked[c].answer[i].at \in 0..QuoteTime
<1>1. CallOf(asked[c]) /\ asked[c].tickers \in Seq(Tickers)
  BY QuoteConstants DEF CallsInv, CallOf
<1>2. \A i \in DOMAIN asked[c].tickers : asked[c].tickers[i] \in Tickers
  BY <1>1, ElementOf
<1>3. ASSUME asked[c].state = "done"
      PROVE  /\ DOMAIN asked[c].answer = DOMAIN asked[c].tickers
             /\ \A i \in DOMAIN asked[c].tickers : asked[c].answer[i] \in Quotes!Row /\ asked[c].answer[i].at \in 0..QuoteTime
  <2>1. asked[c].answer \in Seq(Quotes!Row) /\ Len(asked[c].answer) = Len(asked[c].tickers)
    BY <1>1, <1>3 DEF CallOf
  <2>2. DOMAIN asked[c].answer = DOMAIN asked[c].tickers
    BY <1>1, <2>1
  <2>3. \A i \in DOMAIN asked[c].answer : asked[c].answer[i] \in Quotes!Row
    BY <2>1, ElementOf
  <2> QED
    BY <2>2, <2>3 DEF Quotes!Row
<1> QED
  BY <1>1, <1>2, <1>3 DEF CallOf

\* The ages stay in order while no row comes in hand and calls learn no more than the cache has.
LEMMA AgesStay ==
  ASSUME QuoteInv, cache' = cache, raced \subseteq raced',
         \A u \in Users : \A t \in Tickers : \A c \in Requests :
           Pending(c, u, t)' => Pending(c, u, t) /\ fetches'[c][t] = fetches[c][t],
         \A u \in Users : \A t \in Tickers : \A c \in Requests : \A n \in 0..QuoteTime :
           IsOf(c, u)' /\ Knows(c, t, n)' =>
             \/ n = Quotes!NoPrice
             \/ \E d \in Requests : IsOf(d, u) /\ Knows(d, t, n)
             \/ \E i \in DOMAIN cache : cache[i].key = Quotes!CacheKey(u, t) /\ n = cache[i].row.at
  PROVE  AgeInv'
<1> SUFFICES ASSUME NEW u \in Users, NEW t \in Tickers, Quotes!CacheKey(u, t) \notin raced
             PROVE  RaceFree(u, t)'
  BY DEF AgeInv, Quotes!CacheKey
<1> DEFINE key == Quotes!CacheKey(u, t)
<1>1. RaceFree(u, t)
  BY DEF QuoteInv, AgeInv
<1>2. cache \in Seq(Entry) /\ DOMAIN cache = 1..Len(cache) /\ \A i \in DOMAIN cache : cache[i].row.at \in Nat
  BY EntryFields DEF QuoteInv, QuoteTypes
<1>3. \A i, j \in DOMAIN cache : cache[i].key = cache[j].key => i = j
  <2>1. \A i, j \in DOMAIN cache : i = j \/ i < j \/ j < i
    BY <1>2
  <2> QED
    BY <2>1 DEF QuoteInv, CacheInv, Orderly
<1>4. \A d \in Requests : Pending(d, u, t) => fetches[d][t].row.at \in Nat
  BY DEF QuoteInv, FetchesInv, FetchOf, Pending, Quotes!Row
<1>5. ASSUME NEW c \in Requests, NEW n \in 0..QuoteTime, IsOf(c, u)', Knows(c, t, n)'
      PROVE  /\ \A i \in DOMAIN cache : cache[i].key = key => n <= cache[i].row.at
             /\ \A d \in Requests : Pending(d, u, t) => n <= fetches[d][t].row.at
  <2>1. CASE n = Quotes!NoPrice
    BY <1>2, <1>4, <2>1 DEF Quotes!NoPrice
  <2>2. CASE \E d \in Requests : IsOf(d, u) /\ Knows(d, t, n)
    BY <1>1, <2>2 DEF RaceFree
  <2>3. CASE \E i \in DOMAIN cache : cache[i].key = key /\ n = cache[i].row.at
    <3>1. PICK i \in DOMAIN cache : cache[i].key = key /\ n = cache[i].row.at
      BY <2>3
    <3>2. \A j \in DOMAIN cache : cache[j].key = key => n <= cache[j].row.at
      <4>1. \A j \in DOMAIN cache : cache[j].key = key => j = i
        BY <1>3, <3>1
      <4> QED
        BY <3>1, <4>1
    <3> QED
      BY <1>1, <3>1, <3>2 DEF RaceFree
  <2> QED
    BY <1>5, <2>1, <2>2, <2>3
<1>6. \A c \in Requests : Pending(c, u, t)' => Pending(c, u, t) /\ fetches'[c][t].row = fetches[c][t].row
  OBVIOUS
<1>7. \A c, d \in Requests : Pending(c, u, t)' /\ Pending(d, u, t)' => c = d
  BY <1>1, <1>6 DEF RaceFree
<1>8. \A i \in DOMAIN cache' : \A d \in Requests :
        cache'[i].key = key /\ Pending(d, u, t)' => cache'[i].row.at <= fetches'[d][t].row.at
  BY <1>1, <1>6 DEF RaceFree
<1>9. \A c \in Requests : \A n \in 0..QuoteTime : IsOf(c, u)' /\ Knows(c, t, n)' =>
        /\ \A i \in DOMAIN cache' : cache'[i].key = key => n <= cache'[i].row.at
        /\ \A d \in Requests : Pending(d, u, t)' => n <= fetches'[d][t].row.at
  BY <1>5, <1>6
<1> QED
  BY <1>7, <1>8, <1>9 DEF RaceFree, Quotes!CacheKey

\* A fetch that does not move stays where it is while time passes and keys race.
LEMMA FetchStays ==
  ASSUME NEW f, NEW q, NEW t, NEW age, NEW time \in Nat, NEW later \in Nat, time <= later,
         NEW late, NEW latest, late \subseteq latest, FetchOf(f, q, t, age, time, late)
  PROVE  FetchOf(f, q, t, age, later, latest)
BY DEF FetchOf, Quotes!Row

\* One call's fetch of one ticker moves, and nothing else but what has raced.
LEMMA CallsStay ==
  ASSUME QuoteInv, UNCHANGED <<quoteClock, asked, seen>>, raced \subseteq raced',
         NEW c \in Requests, NEW t \in Tickers, NEW f, fetches' = [fetches EXCEPT ![c][t] = f],
         FetchOf(f, asked[c], t, seen[c][t], quoteClock, raced')
  PROVE  CallsInv' /\ FetchesInv' /\ AnswersInv'
<1>1. /\ fetches' = [d \in Requests |-> [u \in Tickers |-> fetches'[d][u]]]
      /\ fetches'[c][t] = f
      /\ \A d \in Requests : \A u \in Tickers : d # c \/ u # t => fetches'[d][u] = fetches[d][u]
  BY DEF QuoteInv, FetchesInv
<1>2. ASSUME NEW d \in Requests, NEW u \in Tickers
      PROVE  FetchOf(fetches'[d][u], asked[d], u, seen[d][u], quoteClock, raced')
  <2>1. CASE d = c /\ u = t
    BY <1>1, <2>1
  <2>2. CASE d # c \/ u # t
    <3>1. FetchOf(fetches[d][u], asked[d], u, seen[d][u], quoteClock, raced) /\ quoteClock \in Nat /\ quoteClock <= quoteClock
      BY DEF QuoteInv, QuoteTypes, FetchesInv
    <3> QED
      BY <1>1, <2>2, <3>1, FetchStays
  <2> QED
    BY <2>1, <2>2
<1>3. FetchesInv'
  BY <1>1, <1>2 DEF FetchesInv
<1>4. CallsInv' /\ AnswersInv'
  BY DEF QuoteInv, CallsInv, AnswersInv, Quotes!KeyOf
<1> QED
  BY <1>3, <1>4

LEMMA QuoteTickKeeps ==
  ASSUME QuoteInv, Quotes!Tick
  PROVE  QuoteInv'
<1>1. /\ quoteClock \in Nat /\ quoteClock' \in Nat /\ quoteClock <= quoteClock' /\ quoteClock' \in 1..QuoteTime
      /\ UNCHANGED <<cache, asked, fetches, seen, raced>>
  BY QuoteConstants DEF Quotes!Tick, QuoteInv, QuoteTypes
<1>2. QuoteTypes'
  BY <1>1 DEF QuoteInv, QuoteTypes
<1>3. CacheInv'
  <2>1. ASSUME NEW i \in DOMAIN cache
        PROVE  cache[i].expires <= quoteClock' + QuoteTtl /\ cache[i].row.at <= quoteClock'
    <3>1. cache[i].expires \in Nat /\ cache[i].row.at \in Nat
      BY EntryFields DEF QuoteInv, QuoteTypes
    <3>2. cache[i].expires <= quoteClock + QuoteTtl /\ cache[i].row.at <= quoteClock
      BY DEF QuoteInv, CacheInv
    <3> QED
      BY <1>1, <3>1, <3>2, QuoteConstants
  <2> QED
    BY <1>1, <2>1 DEF QuoteInv, CacheInv
<1>4. CallsInv'
  BY <1>1 DEF QuoteInv, CallsInv
<1>5. FetchesInv'
  <2>1. ASSUME NEW d \in Requests, NEW u \in Tickers
        PROVE  FetchOf(fetches[d][u], asked[d], u, seen[d][u], quoteClock', raced)
    <3>1. FetchOf(fetches[d][u], asked[d], u, seen[d][u], quoteClock, raced)
      BY DEF QuoteInv, FetchesInv
    <3> QED
      BY <1>1, <3>1, FetchStays
  <2> QED
    BY <1>1, <2>1 DEF QuoteInv, FetchesInv
<1>6. AnswersInv'
  <2>1. ASSUME NEW c \in Requests, asked[c].state = "done", NEW i \in DOMAIN asked[c].tickers
        PROVE  asked[c].answer[i].at <= quoteClock'
    <3>1. asked[c].answer[i].at \in Nat /\ asked[c].answer[i].at <= quoteClock
      BY <2>1, ListFields DEF QuoteInv, AnswersInv
    <3> QED
      BY <1>1, <3>1
  <2> QED
    BY <1>1, <2>1 DEF QuoteInv, AnswersInv, Quotes!KeyOf
<1>7. AgeInv'
  BY <1>1 DEF QuoteInv, AgeInv, RaceFree, IsOf, Pending, Knows
<1> QED
  BY <1>2, <1>3, <1>4, <1>5, <1>6, <1>7 DEF QuoteInv

\* A step of one fetch that leaves the cache and brings no row in hand but one from the cache or
\* without a price.
LEMMA QuietStepKeeps ==
  ASSUME QuoteInv, UNCHANGED <<quoteClock, cache, asked, seen>>, raced \subseteq raced',
         NEW c \in Requests, NEW t \in Tickers, NEW f, fetches' = [fetches EXCEPT ![c][t] = f],
         FetchOf(f, asked[c], t, seen[c][t], quoteClock, raced'), f.pc # "store",
         f.pc = "done" => \/ f.row.at = Quotes!NoPrice
                          \/ \E i \in DOMAIN cache : cache[i].key = Quotes!KeyOf(c, t) /\ f.row.at = cache[i].row.at
  PROVE  QuoteInv'
<1>1. /\ fetches'[c][t] = f
      /\ \A d \in Requests : \A u \in Tickers : d # c \/ u # t => fetches'[d][u] = fetches[d][u]
  BY DEF QuoteInv, FetchesInv
<1>2. CallsInv' /\ FetchesInv' /\ AnswersInv'
  BY CallsStay
<1>3. QuoteTypes' /\ CacheInv'
  BY DEF QuoteInv, QuoteTypes, CacheInv
<1>4. ASSUME NEW u \in Users, NEW v \in Tickers, NEW d \in Requests, Pending(d, u, v)'
      PROVE  Pending(d, u, v) /\ fetches'[d][v] = fetches[d][v]
  <2>1. d # c \/ v # t
    BY <1>1, <1>4 DEF Pending
  <2> QED
    BY <1>1, <1>4, <2>1 DEF Pending, IsOf
<1>5. ASSUME NEW u \in Users, NEW v \in Tickers, NEW d \in Requests, NEW n \in 0..QuoteTime, IsOf(d, u)', Knows(d, v, n)'
      PROVE  \/ n = Quotes!NoPrice
             \/ \E e \in Requests : IsOf(e, u) /\ Knows(e, v, n)
             \/ \E i \in DOMAIN cache : cache[i].key = Quotes!CacheKey(u, v) /\ n = cache[i].row.at
  <2>1. IsOf(d, u)
    BY <1>5 DEF IsOf
  <2>2. CASE Knows(d, v, n)
    BY <2>1, <2>2
  <2>3. CASE ~Knows(d, v, n)
    <3>1. d = c /\ v = t /\ f.pc = "done" /\ n = f.row.at
      BY <1>1, <1>5, <2>3 DEF Knows
    <3>2. Quotes!KeyOf(c, t) = Quotes!CacheKey(u, v)
      BY <2>1, <3>1 DEF Quotes!KeyOf, IsOf
    <3> QED
      BY <3>1, <3>2
  <2> QED
    BY <2>2, <2>3
<1>6. AgeInv'
  BY <1>4, <1>5, AgesStay
<1> QED
  BY <1>2, <1>3, <1>6 DEF QuoteInv

LEMMA TakeKeeps ==
  ASSUME QuoteInv, NEW c \in Requests, NEW t \in Tickers, Quotes!Take(c, t)
  PROVE  QuoteInv'
<1> DEFINE f == [pc |-> "look", now |-> quoteClock]
<1>1. /\ fetches[c][t].pc = "queued" /\ fetches' = [fetches EXCEPT ![c][t] = f]
      /\ UNCHANGED <<quoteClock, cache, asked, seen, raced>>
  BY DEF Quotes!Take
<1>2. FetchOf(fetches[c][t], asked[c], t, seen[c][t], quoteClock, raced)
  BY DEF QuoteInv, FetchesInv
<1>3. f.pc = "look"
  OBVIOUS
<1> HIDE DEF f
<1>4. FetchOf(f, asked[c], t, seen[c][t], quoteClock, raced')
  BY <1>1, <1>2, <1>3 DEF FetchOf
<1> QED
  BY <1>1, <1>3, <1>4, QuietStepKeeps

LEMMA LookKeeps ==
  ASSUME QuoteInv, NEW c \in Requests, NEW t \in Tickers, Quotes!Look(c, t)
  PROVE  QuoteInv'
<1>1. fetches[c][t].pc = "look" /\ UNCHANGED <<quoteClock, cache, asked, seen, raced>>
  BY DEF Quotes!Look
<1>2. FetchOf(fetches[c][t], asked[c], t, seen[c][t], quoteClock, raced) /\ asked[c].state = "open" /\ asked[c].user \in Users
  BY <1>1, ListFields DEF QuoteInv, FetchesInv, FetchOf
<1>3. CASE fetches' = [fetches EXCEPT ![c][t] = [pc |-> "ask"]]
  <2> DEFINE f == [pc |-> "ask"]
  <2>1. f.pc = "ask" /\ fetches' = [fetches EXCEPT ![c][t] = f]
    BY <1>3
  <2> HIDE DEF f
  <2>2. FetchOf(f, asked[c], t, seen[c][t], quoteClock, raced')
    BY <1>1, <1>2, <2>1 DEF FetchOf
  <2> QED
    BY <1>1, <2>1, <2>2, QuietStepKeeps
<1>4. ASSUME NEW i \in Quotes!Cached(Quotes!KeyOf(c, t)), fetches' = Quotes!Fetched(c, t, cache[i].row)
      PROVE  QuoteInv'
  <2> DEFINE row == cache[i].row
             f == [pc |-> "done", row |-> row]
  <2>1. f.pc = "done" /\ f.row = row /\ fetches' = [fetches EXCEPT ![c][t] = f]
    BY <1>4 DEF Quotes!Fetched
  <2>2. i \in DOMAIN cache /\ cache[i].key = Quotes!KeyOf(c, t)
    BY DEF Quotes!Cached, QuoteInv, QuoteTypes
  <2>3. row \in Quotes!Row /\ row.at <= quoteClock /\ Quotes!CacheKey(row.user, row.ticker) = Quotes!KeyOf(c, t)
    BY <2>2, EntryFields DEF QuoteInv, QuoteTypes, CacheInv
  <2>4. row.user = asked[c].user /\ row.ticker = t
    BY <2>3, KeysAreOwn DEF Quotes!KeyOf
  <2>5. row.at >= seen[c][t] \/ Quotes!KeyOf(c, t) \in raced
    <3>1. CASE Quotes!KeyOf(c, t) \notin raced
      <4>1. RaceFree(asked[c].user, t)
        BY <1>2, <3>1 DEF QuoteInv, AgeInv, Quotes!KeyOf
      <4>2. IsOf(c, asked[c].user) /\ Knows(c, t, seen[c][t]) /\ seen[c][t] \in 0..QuoteTime
        BY <1>2 DEF IsOf, Knows, QuoteInv, QuoteTypes
      <4>3. seen[c][t] <= row.at
        BY <2>2, <4>1, <4>2 DEF RaceFree, Quotes!KeyOf
      <4> QED
        BY <2>3, <4>2, <4>3 DEF Quotes!Row
    <3> QED
      BY <3>1
  <2> HIDE DEF f
  <2>6. FetchOf(f, asked[c], t, seen[c][t], quoteClock, raced')
    BY <1>1, <1>2, <2>1, <2>3, <2>4, <2>5 DEF FetchOf, Quotes!KeyOf
  <2> QED
    BY <1>1, <2>1, <2>2, <2>6, QuietStepKeeps
<1> QED
  BY <1>3, <1>4 DEF Quotes!Look

LEMMA AskQuoteKeeps ==
  ASSUME QuoteInv, NEW c \in Requests, NEW t \in Tickers, Quotes!Ask(c, t)
  PROVE  QuoteInv'
<1> DEFINE row == [user |-> asked[c].user, ticker |-> t, at |-> quoteClock]
           none == [row EXCEPT !.at = Quotes!NoPrice]
<1>1. /\ fetches[c][t].pc = "ask" /\ UNCHANGED <<quoteClock, cache, asked, seen>>
      /\ raced' = IF Quotes!InFlight(c, t) THEN raced \cup {Quotes!KeyOf(c, t)} ELSE raced
      /\ \/ fetches' = [fetches EXCEPT ![c][t] = [pc |-> "store", row |-> row]]
         \/ fetches' = Quotes!Fetched(c, t, none)
  BY DEF Quotes!Ask
<1>2. FetchOf(fetches[c][t], asked[c], t, seen[c][t], quoteClock, raced) /\ asked[c].state = "open" /\ asked[c].user \in Users
  BY <1>1, ListFields DEF QuoteInv, FetchesInv, FetchOf
<1>3. raced \subseteq raced'
  BY <1>1
<1>4. quoteClock \in Nat /\ quoteClock \in 0..QuoteTime /\ seen[c][t] <= quoteClock
  BY DEF QuoteInv, QuoteTypes
<1>5. /\ row \in Quotes!Row /\ row.user = asked[c].user /\ row.ticker = t /\ row.at = quoteClock
      /\ none \in Quotes!Row /\ none.user = asked[c].user /\ none.ticker = t /\ none.at = Quotes!NoPrice
  BY <1>2, <1>4, QuoteConstants DEF Quotes!Row, Quotes!NoPrice
<1> HIDE DEF row, none
<1>6. CASE fetches' = Quotes!Fetched(c, t, none)
  <2> DEFINE f == [pc |-> "done", row |-> none]
  <2>1. f.pc = "done" /\ f.row = none /\ fetches' = [fetches EXCEPT ![c][t] = f]
    BY <1>6 DEF Quotes!Fetched
  <2> HIDE DEF f
  <2>2. Quotes!NoPrice <= quoteClock
    BY <1>4 DEF Quotes!NoPrice
  <2>3. FetchOf(f, asked[c], t, seen[c][t], quoteClock, raced')
    BY <1>2, <1>5, <2>1, <2>2 DEF FetchOf
  <2> QED
    BY <1>1, <1>3, <1>5, <2>1, <2>3, QuietStepKeeps
<1>7. CASE fetches' = [fetches EXCEPT ![c][t] = [pc |-> "store", row |-> row]]
  <2> DEFINE f == [pc |-> "store", row |-> row]
  <2>1. f.pc = "store" /\ f.row = row /\ fetches' = [fetches EXCEPT ![c][t] = f]
    BY <1>7
  <2> HIDE DEF f
  <2>2. FetchOf(f, asked[c], t, seen[c][t], quoteClock, raced')
    BY <1>2, <1>4, <1>5, <2>1 DEF FetchOf
  <2>3. CallsInv' /\ FetchesInv' /\ AnswersInv'
    BY <1>1, <1>3, <2>1, <2>2, CallsStay
  <2>4. QuoteTypes' /\ CacheInv'
    BY <1>1 DEF QuoteInv, QuoteTypes, CacheInv
  <2>5. /\ fetches'[c][t] = f
        /\ \A d \in Requests : \A u \in Tickers : d # c \/ u # t => fetches'[d][u] = fetches[d][u]
    BY <2>1 DEF QuoteInv, FetchesInv
  <2>6. ASSUME NEW u \in Users, NEW v \in Tickers, Quotes!CacheKey(u, v) \notin raced'
        PROVE  RaceFree(u, v)'
    <3>1. RaceFree(u, v)
      BY <1>3, <2>6 DEF QuoteInv, AgeInv
    <3>2. ASSUME NEW d \in Requests, NEW n \in 0..QuoteTime, IsOf(d, u)', Knows(d, v, n)'
          PROVE  IsOf(d, u) /\ Knows(d, v, n) /\ n <= quoteClock
      <4>1. IsOf(d, u)
        BY <1>1, <3>2 DEF IsOf
      <4>2. Knows(d, v, n)
        <5>1. fetches'[d][v].pc = "done" => fetches'[d][v] = fetches[d][v]
          BY <2>1, <2>5
        <5> QED
          BY <1>1, <3>2, <5>1 DEF Knows
      <4>3. n <= quoteClock
        <5>1. seen[d][v] <= quoteClock
          BY DEF QuoteInv, QuoteTypes
        <5>2. fetches[d][v].pc = "done" => fetches[d][v].row.at <= quoteClock
          BY DEF QuoteInv, FetchesInv, FetchOf
        <5>3. asked[d].state = "done" => \A i \in DOMAIN asked[d].tickers : asked[d].answer[i].at <= quoteClock
          BY DEF QuoteInv, AnswersInv
        <5> QED
          BY <4>2, <5>1, <5>2, <5>3 DEF Knows
      <4> QED
        BY <4>1, <4>2, <4>3
    <3>3. ASSUME NEW d \in Requests, Pending(d, u, v)'
          PROVE  \/ Pending(d, u, v) /\ fetches'[d][v] = fetches[d][v] /\ (d # c \/ v # t)
                 \/ d = c /\ v = t /\ fetches'[d][v].row.at = quoteClock /\ Quotes!KeyOf(c, t) = Quotes!CacheKey(u, v)
      <4>1. IsOf(d, u)
        BY <1>1, <3>3 DEF IsOf, Pending
      <4>2. CASE d = c /\ v = t
        BY <1>5, <2>1, <2>5, <4>1, <4>2 DEF Quotes!KeyOf, IsOf
      <4>3. CASE d # c \/ v # t
        BY <2>5, <3>3, <4>1, <4>3 DEF Pending
      <4> QED
        BY <4>2, <4>3
    <3>4. \A d, e \in Requests : Pending(d, u, v)' /\ Pending(e, u, v)' => d = e
      <4>1. ASSUME v = t, Quotes!KeyOf(c, t) = Quotes!CacheKey(u, v), NEW d \in Requests, d # c, Pending(d, u, v)
            PROVE  FALSE
        <5>1. Quotes!KeyOf(d, t) = Quotes!CacheKey(u, v)
          BY <4>1 DEF Quotes!KeyOf, Pending, IsOf
        <5>2. Quotes!InFlight(c, t)
          BY <4>1, <5>1 DEF Quotes!InFlight, Pending
        <5> QED
          BY <1>1, <2>6, <4>1, <5>2
      <4> QED
        BY <3>1, <3>3, <4>1 DEF RaceFree
    <3>5. \A i \in DOMAIN cache : cache[i].row.at <= quoteClock
      BY DEF QuoteInv, CacheInv
    <3>6. \A i \in DOMAIN cache' : \A d \in Requests :
            cache'[i].key = Quotes!CacheKey(u, v) /\ Pending(d, u, v)' => cache'[i].row.at <= fetches'[d][v].row.at
      BY <1>1, <3>1, <3>3, <3>5 DEF RaceFree
    <3>7. \A d \in Requests : \A n \in 0..QuoteTime : IsOf(d, u)' /\ Knows(d, v, n)' =>
            /\ \A i \in DOMAIN cache' : cache'[i].key = Quotes!CacheKey(u, v) => n <= cache'[i].row.at
            /\ \A e \in Requests : Pending(e, u, v)' => n <= fetches'[e][v].row.at
      BY <1>1, <3>1, <3>2, <3>3 DEF RaceFree
    <3> QED
      BY <3>4, <3>6, <3>7 DEF RaceFree, Quotes!CacheKey
  <2>7. AgeInv'
    BY <2>6 DEF AgeInv, Quotes!CacheKey
  <2> QED
    BY <2>3, <2>4, <2>7 DEF QuoteInv
<1> QED
  BY <1>1, <1>6, <1>7

LEMMA StoreQuoteKeeps ==
  ASSUME QuoteInv, NEW c \in Requests, NEW t \in Tickers, Quotes!Store(c, t)
  PROVE  QuoteInv'
<1> DEFINE row == fetches[c][t].row
           e == [key |-> Quotes!KeyOf(c, t), expires |-> quoteClock + QuoteTtl, row |-> row]
           surplus == IF Len(Quotes!Kept(e)) > Entries THEN Len(Quotes!Kept(e)) - Entries ELSE 0
           f == [pc |-> "done", row |-> row]
<1>1. /\ fetches[c][t].pc = "store" /\ UNCHANGED <<quoteClock, asked, seen, raced>>
      /\ cache' = SubSeq(Quotes!Kept(e), surplus + 1, Len(Quotes!Kept(e)))
      /\ fetches' = [fetches EXCEPT ![c][t] = f]
  BY DEF Quotes!Store, Quotes!Fetched
<1>2. FetchOf(fetches[c][t], asked[c], t, seen[c][t], quoteClock, raced)
  BY DEF QuoteInv, FetchesInv
<1>3. /\ asked[c].state = "open" /\ asked[c].user \in Users
      /\ row \in Quotes!Row /\ row.user = asked[c].user /\ row.ticker = t /\ row.at <= quoteClock /\ row.at \in 0..QuoteTime
      /\ row.at >= seen[c][t]
  BY <1>1, <1>2, ListFields DEF QuoteInv, FetchOf, Quotes!Row
<1>4. quoteClock \in Nat /\ quoteClock + QuoteTtl \in Nat
  BY QuoteConstants DEF QuoteInv, QuoteTypes
<1>5. e \in Entry /\ e.key = Quotes!KeyOf(c, t) /\ e.expires = quoteClock + QuoteTtl /\ e.row = row
  BY <1>3, <1>4 DEF Entry, Quotes!KeyOf, Quotes!CacheKey
<1>6. f.pc = "done" /\ f.row = row
  OBVIOUS
<1>7. /\ cache' \in Seq(Entry) /\ Len(cache') <= Entries /\ Orderly(cache')
      /\ \A j \in DOMAIN cache' : \/ cache'[j] = e
                                  \/ cache'[j].key # e.key /\ \E i \in DOMAIN cache : cache'[j] = cache[i]
  <2>1. surplus = IF Len(Quotes!Kept(e)) > Entries THEN Len(Quotes!Kept(e)) - Entries ELSE 0
    OBVIOUS
  <2> HIDE DEF e, surplus
  <2> QED
    BY <1>1, <1>5, <2>1, EntriesStored DEF QuoteInv
<1> HIDE DEF e, surplus, f, row
<1>8. CallsInv' /\ FetchesInv' /\ AnswersInv'
  <2>1. FetchOf(f, asked[c], t, seen[c][t], quoteClock, raced')
    BY <1>1, <1>2, <1>3, <1>6 DEF FetchOf, row
  <2> QED
    BY <1>1, <2>1, CallsStay
<1>9. QuoteTypes'
  BY <1>1, <1>7 DEF QuoteInv, QuoteTypes
<1>10. CacheInv'
  <2>1. ASSUME NEW j \in DOMAIN cache'
        PROVE  /\ cache'[j].key = Quotes!CacheKey(cache'[j].row.user, cache'[j].row.ticker)
               /\ cache'[j].expires <= quoteClock + QuoteTtl /\ cache'[j].row.at <= quoteClock
    <3>1. CASE cache'[j] = e
      BY <1>3, <1>4, <1>5, <3>1 DEF Quotes!KeyOf
    <3>2. CASE \E i \in DOMAIN cache : cache'[j] = cache[i]
      BY <3>2 DEF QuoteInv, CacheInv
    <3> QED
      BY <1>7, <3>1, <3>2
  <2> QED
    BY <1>1, <1>7, <2>1 DEF CacheInv
<1>11. /\ fetches'[c][t] = f
       /\ \A d \in Requests : \A u \in Tickers : d # c \/ u # t => fetches'[d][u] = fetches[d][u]
  BY <1>1 DEF QuoteInv, FetchesInv
<1>12. ASSUME NEW u \in Users, NEW v \in Tickers, Quotes!CacheKey(u, v) \notin raced
       PROVE  RaceFree(u, v)'
  <2>1. RaceFree(u, v)
    BY <1>12 DEF QuoteInv, AgeInv
  <2>2. ASSUME NEW d \in Requests, Pending(d, u, v)'
        PROVE  Pending(d, u, v) /\ fetches'[d][v] = fetches[d][v] /\ (d # c \/ v # t)
    <3>1. d # c \/ v # t
      BY <1>6, <1>11, <2>2 DEF Pending
    <3> QED
      BY <1>1, <1>11, <2>2, <3>1 DEF Pending, IsOf
  <2>3. ASSUME NEW d \in Requests, NEW n \in 0..QuoteTime, IsOf(d, u)', Knows(d, v, n)'
        PROVE  IsOf(d, u) /\ (Knows(d, v, n) \/ (d = c /\ v = t /\ n = row.at))
    <3>1. IsOf(d, u)
      BY <1>1, <2>3 DEF IsOf
    <3>2. CASE d = c /\ v = t
      BY <1>1, <1>6, <1>11, <2>3, <3>1, <3>2 DEF Knows
    <3>3. CASE d # c \/ v # t
      BY <1>1, <1>11, <2>3, <3>1, <3>3 DEF Knows
    <3> QED
      BY <3>2, <3>3
  <2>4. CASE v = t /\ asked[c].user = u
    <3>1. Pending(c, u, v) /\ e.key = Quotes!CacheKey(u, v)
      BY <1>1, <1>3, <1>5, <2>4 DEF Pending, IsOf, Quotes!KeyOf
    <3>2. \A d \in Requests : ~Pending(d, u, v)'
      BY <2>1, <2>2, <2>4, <3>1 DEF RaceFree
    <3>3. ASSUME NEW d \in Requests, NEW n \in 0..QuoteTime, IsOf(d, u)', Knows(d, v, n)'
          PROVE  n <= row.at
      <4>1. CASE Knows(d, v, n)
        BY <2>1, <2>3, <2>4, <3>1, <3>3, <4>1 DEF RaceFree, row
      <4>2. CASE n = row.at
        BY <1>3, <4>2
      <4> QED
        BY <2>3, <3>3, <4>1, <4>2
    <3>4. \A j \in DOMAIN cache' : cache'[j].key = Quotes!CacheKey(u, v) => cache'[j].row.at = row.at
      BY <1>5, <1>7, <3>1
    <3>5. \A d \in Requests : \A n \in 0..QuoteTime : IsOf(d, u)' /\ Knows(d, v, n)' =>
            /\ \A i \in DOMAIN cache' : cache'[i].key = Quotes!CacheKey(u, v) => n <= cache'[i].row.at
            /\ \A d2 \in Requests : Pending(d2, u, v)' => n <= fetches'[d2][v].row.at
      BY <3>2, <3>3, <3>4
    <3> QED
      BY <3>2, <3>5 DEF RaceFree, Quotes!CacheKey
  <2>5. CASE ~(v = t /\ asked[c].user = u)
    <3>1. e.key # Quotes!CacheKey(u, v)
      BY <1>5, <2>5, KeysAreOwn DEF Quotes!KeyOf
    <3>2. \A j \in DOMAIN cache' : cache'[j].key = Quotes!CacheKey(u, v) =>
            \E i \in DOMAIN cache : cache'[j] = cache[i]
      BY <1>7, <3>1
    <3>3. ASSUME NEW d \in Requests, NEW n \in 0..QuoteTime, IsOf(d, u)', Knows(d, v, n)'
          PROVE  IsOf(d, u) /\ Knows(d, v, n)
      BY <2>3, <2>5, <3>3 DEF IsOf
    <3>4. \A d, d2 \in Requests : Pending(d, u, v)' /\ Pending(d2, u, v)' => d = d2
      BY <2>1, <2>2 DEF RaceFree
    <3>5. \A j \in DOMAIN cache' : \A d \in Requests :
            cache'[j].key = Quotes!CacheKey(u, v) /\ Pending(d, u, v)' => cache'[j].row.at <= fetches'[d][v].row.at
      <4>1. ASSUME NEW j \in DOMAIN cache', NEW d \in Requests, cache'[j].key = Quotes!CacheKey(u, v), Pending(d, u, v)'
            PROVE  cache'[j].row.at <= fetches'[d][v].row.at
        <5>1. PICK i \in DOMAIN cache : cache'[j] = cache[i]
          BY <3>2, <4>1
        <5> QED
          BY <2>1, <2>2, <4>1, <5>1 DEF RaceFree
      <4> QED
        BY <4>1
    <3>6. ASSUME NEW d \in Requests, NEW n \in 0..QuoteTime, IsOf(d, u)', Knows(d, v, n)'
          PROVE  /\ \A j \in DOMAIN cache' : cache'[j].key = Quotes!CacheKey(u, v) => n <= cache'[j].row.at
                 /\ \A d2 \in Requests : Pending(d2, u, v)' => n <= fetches'[d2][v].row.at
      <4>1. /\ \A i \in DOMAIN cache : cache[i].key = Quotes!CacheKey(u, v) => n <= cache[i].row.at
            /\ \A d2 \in Requests : Pending(d2, u, v) => n <= fetches[d2][v].row.at
        BY <2>1, <3>3, <3>6 DEF RaceFree
      <4>2. ASSUME NEW j \in DOMAIN cache', cache'[j].key = Quotes!CacheKey(u, v)
            PROVE  n <= cache'[j].row.at
        <5>1. PICK i \in DOMAIN cache : cache'[j] = cache[i]
          BY <3>2, <4>2
        <5> QED
          BY <4>1, <4>2, <5>1
      <4> QED
        BY <2>2, <4>1, <4>2
    <3> QED
      BY <3>4, <3>5, <3>6 DEF RaceFree, Quotes!CacheKey
  <2> QED
    BY <2>4, <2>5
<1>13. AgeInv'
  BY <1>1, <1>12 DEF AgeInv, Quotes!CacheKey
<1> QED
  BY <1>8, <1>9, <1>10, <1>13 DEF QuoteInv

LEMMA BeginQuoteKeeps ==
  ASSUME QuoteInv, NEW c \in Requests, NEW user \in Users, NEW tickers \in Lists, Quotes!Begin(c, user, tickers)
  PROVE  QuoteInv'
<1> DEFINE q == [state |-> "open", user |-> user, tickers |-> tickers]
           queue == [t \in Tickers |-> IF t \in Quotes!ToSet(tickers) THEN [pc |-> "queued"] ELSE Quotes!Idle]
           ages == [t \in Tickers |-> IF t \in Quotes!ToSet(tickers) THEN Quotes!Newest(user, t) ELSE Quotes!NoPrice]
<1>1. /\ asked[c].state = "idle" /\ UNCHANGED <<quoteClock, cache, raced>>
      /\ asked' = [asked EXCEPT ![c] = q]
      /\ fetches' = [fetches EXCEPT ![c] = queue]
      /\ seen' = [seen EXCEPT ![c] = ages]
  BY DEF Quotes!Begin
<1>2. q.state = "open" /\ q.user = user /\ q.tickers = tickers
  OBVIOUS
<1>3. \A t \in Tickers : queue[t].pc = "queued" \/ queue[t].pc = "none"
  BY DEF Quotes!Idle
<1>4. quoteClock \in Nat /\ quoteClock \in 1..QuoteTime /\ QuoteTime \in Nat
  BY QuoteConstants DEF QuoteInv, QuoteTypes
<1>5. ASSUME NEW t \in Tickers
      PROVE  /\ ages[t] \in 0..QuoteTime /\ ages[t] <= quoteClock
             /\ \/ ages[t] = Quotes!NoPrice
                \/ \E d \in Requests : IsOf(d, user) /\ Knows(d, t, ages[t])
  <2>1. \A d \in Requests : asked[d].state = "done" =>
          \A row \in Quotes!ToSet(asked[d].answer) : row.at \in Nat /\ row.at <= quoteClock
    <3>1. ASSUME NEW d \in Requests, asked[d].state = "done", NEW i \in DOMAIN asked[d].tickers
          PROVE  asked[d].answer[i].at \in Nat /\ asked[d].answer[i].at <= quoteClock
      BY <3>1, ListFields DEF QuoteInv, AnswersInv
    <3>2. ASSUME NEW d \in Requests, asked[d].state = "done"
          PROVE  DOMAIN asked[d].answer = DOMAIN asked[d].tickers
      BY <3>2, ListFields DEF QuoteInv
    <3> QED
      BY <3>1, <3>2 DEF Quotes!ToSet
  <2>2. \/ Quotes!Newest(user, t) = Quotes!NoPrice
        \/ \E d \in Requests : /\ asked[d].state = "done" /\ asked[d].user = user
                            /\ \E row \in Quotes!ToSet(asked[d].answer) : row.ticker = t /\ row.at = Quotes!Newest(user, t)
    BY <1>4, <2>1, NewestIsOne
  <2>3. CASE ages[t] = Quotes!NoPrice
    <3> HIDE DEF ages
    <3> QED
      BY <1>4, <2>3 DEF Quotes!NoPrice
  <2>4. CASE ages[t] # Quotes!NoPrice
    <3>1. ages[t] = Quotes!Newest(user, t)
      BY <2>4
    <3> HIDE DEF ages
    <3>2. PICK d \in Requests : /\ asked[d].state = "done" /\ asked[d].user = user
                             /\ \E row \in Quotes!ToSet(asked[d].answer) : row.ticker = t /\ row.at = Quotes!Newest(user, t)
      BY <2>2, <2>4, <3>1
    <3>3. PICK row \in Quotes!ToSet(asked[d].answer) : row.ticker = t /\ row.at = Quotes!Newest(user, t)
      BY <3>2
    <3>4. DOMAIN asked[d].answer = DOMAIN asked[d].tickers
      BY <3>2, ListFields DEF QuoteInv
    <3>5. PICK i \in DOMAIN asked[d].tickers : asked[d].answer[i] = row
      BY <3>3, <3>4 DEF Quotes!ToSet
    <3>6. asked[d].tickers[i] = t
      BY <3>2, <3>3, <3>5 DEF QuoteInv, CallsInv, CallOf
    <3>7. Knows(d, t, ages[t]) /\ IsOf(d, user)
      BY <3>1, <3>2, <3>3, <3>5, <3>6 DEF Knows, IsOf
    <3>8. row.at \in Nat /\ row.at <= quoteClock
      BY <2>1, <3>2, <3>3
    <3> QED
      BY <1>4, <3>1, <3>3, <3>7, <3>8
  <2> QED
    BY <2>3, <2>4
<1> HIDE DEF q, queue, ages
<1>6. /\ asked' = [d \in Requests |-> asked'[d]] /\ asked'[c] = q
      /\ \A d \in Requests : d # c => asked'[d] = asked[d]
  BY <1>1 DEF QuoteInv, CallsInv
<1>7. /\ fetches' = [d \in Requests |-> [t \in Tickers |-> fetches'[d][t]]]
      /\ \A t \in Tickers : fetches'[c][t] = queue[t]
      /\ \A d \in Requests : d # c => \A t \in Tickers : fetches'[d][t] = fetches[d][t]
  <2>1. queue = [t \in Tickers |-> queue[t]]
    BY DEF queue
  <2> QED
    BY <1>1, <2>1 DEF QuoteInv, FetchesInv
<1>8. /\ seen' \in [Requests -> [Tickers -> 0..QuoteTime]]
      /\ \A t \in Tickers : seen'[c][t] = ages[t]
      /\ \A d \in Requests : d # c => seen'[d] = seen[d]
  <2>1. ages \in [Tickers -> 0..QuoteTime]
    BY <1>5 DEF ages
  <2> QED
    BY <1>1, <2>1 DEF QuoteInv, QuoteTypes
<1>9. QuoteTypes'
  BY <1>1, <1>5, <1>8 DEF QuoteInv, QuoteTypes
<1>10. CacheInv'
  BY <1>1 DEF QuoteInv, CacheInv
<1>11. CallsInv'
  <2>1. CallOf(q)
    BY <1>2 DEF CallOf
  <2> QED
    BY <1>6, <2>1 DEF QuoteInv, CallsInv
<1>12. FetchesInv'
  <2>1. ASSUME NEW d \in Requests, NEW t \in Tickers
        PROVE  FetchOf(fetches'[d][t], asked'[d], t, seen'[d][t], quoteClock, raced)
    <3>1. CASE d = c
      BY <1>2, <1>3, <1>6, <1>7, <3>1 DEF FetchOf
    <3>2. CASE d # c
      BY <1>6, <1>7, <1>8, <3>2 DEF QuoteInv, FetchesInv
    <3> QED
      BY <3>1, <3>2
  <2> QED
    BY <1>1, <1>7, <2>1 DEF FetchesInv
<1>13. AnswersInv'
  <2>1. ASSUME NEW d \in Requests, asked'[d].state = "done", NEW i \in DOMAIN asked'[d].tickers
        PROVE  /\ asked'[d].answer[i].at <= quoteClock
               /\ \/ asked'[d].answer[i].at = Quotes!NoPrice
                  \/ asked'[d].answer[i].at >= seen'[d][asked'[d].tickers[i]]
                  \/ Quotes!CacheKey(asked'[d].user, asked'[d].tickers[i]) \in raced
    <3>1. asked'[d] = asked[d] /\ seen'[d] = seen[d]
      BY <1>2, <1>6, <1>8, <2>1
    <3> QED
      BY <2>1, <3>1 DEF QuoteInv, AnswersInv, Quotes!KeyOf
  <2> QED
    BY <1>1, <2>1 DEF AnswersInv, Quotes!KeyOf, Quotes!CacheKey
<1>14. AgeInv'
  <2>1. ASSUME NEW u \in Users, NEW t \in Tickers, NEW d \in Requests, Pending(d, u, t)'
        PROVE  Pending(d, u, t) /\ fetches'[d][t] = fetches[d][t]
    <3>1. d # c
      BY <1>3, <1>7, <2>1 DEF Pending
    <3> QED
      BY <1>6, <1>7, <2>1, <3>1 DEF Pending, IsOf
  <2>2. ASSUME NEW u \in Users, NEW t \in Tickers, NEW d \in Requests, NEW n \in 0..QuoteTime, IsOf(d, u)', Knows(d, t, n)'
        PROVE  n = Quotes!NoPrice \/ \E e \in Requests : IsOf(e, u) /\ Knows(e, t, n)
    <3>1. CASE d = c
      <4>1. u = user /\ n = ages[t]
        BY <1>2, <1>3, <1>6, <1>7, <1>8, <2>2, <3>1 DEF Knows, IsOf
      <4> QED
        BY <1>5, <4>1
    <3>2. CASE d # c
      <4>1. asked'[d] = asked[d] /\ seen'[d] = seen[d] /\ fetches'[d][t] = fetches[d][t]
        BY <1>6, <1>7, <1>8, <3>2
      <4>2. IsOf(d, u)
        BY <2>2, <4>1 DEF IsOf
      <4>3. Knows(d, t, n)
        BY <2>2, <4>1 DEF Knows
      <4> QED
        BY <4>2, <4>3
    <3> QED
      BY <3>1, <3>2
  <2>3. cache' = cache /\ raced \subseteq raced'
    BY <1>1
  <2> QED
    BY <2>1, <2>2, <2>3, AgesStay
<1> QED
  BY <1>9, <1>10, <1>11, <1>12, <1>13, <1>14 DEF QuoteInv

LEMMA AnswerQuoteKeeps ==
  ASSUME QuoteInv, NEW c \in Requests, Quotes!Answer(c)
  PROVE  QuoteInv'
<1> DEFINE tickers == asked[c].tickers
           rows == [i \in DOMAIN tickers |-> fetches[c][tickers[i]].row]
           q == [state |-> "done", user |-> asked[c].user, tickers |-> tickers, answer |-> rows]
           none == [t \in Tickers |-> Quotes!Idle]
<1>1. /\ asked[c].state = "open" /\ UNCHANGED <<quoteClock, cache, seen, raced>>
      /\ \A t \in Quotes!ToSet(tickers) : fetches[c][t].pc = "done"
      /\ asked' = [asked EXCEPT ![c] = q]
      /\ fetches' = [fetches EXCEPT ![c] = none]
  BY DEF Quotes!Answer
<1>2. /\ CallOf(asked[c]) /\ asked[c].user \in Users /\ tickers \in Lists /\ tickers \in Seq(Tickers)
      /\ \A i \in DOMAIN tickers : tickers[i] \in Tickers
  BY <1>1, ListFields DEF QuoteInv, CallsInv, CallOf
<1>3. ASSUME NEW i \in DOMAIN tickers
      PROVE  /\ fetches[c][tickers[i]].pc = "done" /\ rows[i] = fetches[c][tickers[i]].row
             /\ rows[i] \in Quotes!Row /\ rows[i].user = asked[c].user /\ rows[i].ticker = tickers[i] /\ rows[i].at <= quoteClock
             /\ rows[i].at = Quotes!NoPrice \/ rows[i].at >= seen[c][tickers[i]] \/ Quotes!KeyOf(c, tickers[i]) \in raced
  <2>1. fetches[c][tickers[i]].pc = "done"
    BY <1>1 DEF Quotes!ToSet
  <2>2. tickers[i] \in Tickers
    BY <1>2
  <2>3. FetchOf(fetches[c][tickers[i]], asked[c], tickers[i], seen[c][tickers[i]], quoteClock, raced)
    BY <2>2 DEF QuoteInv, FetchesInv
  <2> QED
    BY <2>1, <2>3 DEF FetchOf, Quotes!KeyOf
<1>4. rows \in Seq(Quotes!Row) /\ Len(rows) = Len(tickers) /\ \A i, j \in DOMAIN tickers : tickers[i] = tickers[j] => rows[i] = rows[j]
  <2>1. DOMAIN tickers = 1..Len(tickers) /\ Len(tickers) \in Nat
    BY <1>2
  <2>2. rows \in [1..Len(tickers) -> Quotes!Row]
    BY <1>3, <2>1
  <2>3. \A i, j \in DOMAIN tickers : tickers[i] = tickers[j] => rows[i] = rows[j]
    OBVIOUS
  <2> HIDE DEF rows
  <2> QED
    BY <2>1, <2>2, <2>3
<1>5. q.state = "done" /\ q.user = asked[c].user /\ q.tickers = tickers /\ q.answer = rows
  OBVIOUS
<1>6. none = [t \in Tickers |-> none[t]] /\ \A t \in Tickers : none[t].pc = "none"
  BY DEF Quotes!Idle
<1> HIDE DEF tickers, rows, q, none
<1>7. /\ asked' = [d \in Requests |-> asked'[d]] /\ asked'[c] = q
      /\ \A d \in Requests : d # c => asked'[d] = asked[d]
  BY <1>1 DEF QuoteInv, CallsInv
<1>8. /\ fetches' = [d \in Requests |-> [t \in Tickers |-> fetches'[d][t]]]
      /\ \A t \in Tickers : fetches'[c][t] = none[t]
      /\ \A d \in Requests : d # c => \A t \in Tickers : fetches'[d][t] = fetches[d][t]
  BY <1>1, <1>6 DEF QuoteInv, FetchesInv
<1>9. QuoteTypes' /\ CacheInv'
  BY <1>1 DEF QuoteInv, QuoteTypes, CacheInv
<1>10. CallsInv'
  <2>1. CallOf(q)
    BY <1>2, <1>3, <1>4, <1>5 DEF CallOf
  <2> QED
    BY <1>7, <2>1 DEF QuoteInv, CallsInv
<1>11. FetchesInv'
  <2>1. ASSUME NEW d \in Requests, NEW t \in Tickers
        PROVE  FetchOf(fetches'[d][t], asked'[d], t, seen[d][t], quoteClock, raced)
    <3>1. CASE d = c
      BY <1>6, <1>8, <3>1 DEF FetchOf
    <3>2. CASE d # c
      BY <1>7, <1>8, <3>2 DEF QuoteInv, FetchesInv
    <3> QED
      BY <3>1, <3>2
  <2> QED
    BY <1>1, <1>8, <2>1 DEF FetchesInv
<1>12. AnswersInv'
  <2>1. ASSUME NEW d \in Requests, asked'[d].state = "done", NEW i \in DOMAIN asked'[d].tickers
        PROVE  /\ asked'[d].answer[i].at <= quoteClock
               /\ \/ asked'[d].answer[i].at = Quotes!NoPrice
                  \/ asked'[d].answer[i].at >= seen[d][asked'[d].tickers[i]]
                  \/ Quotes!CacheKey(asked'[d].user, asked'[d].tickers[i]) \in raced
    <3>1. CASE d = c
      BY <1>3, <1>5, <1>7, <2>1, <3>1 DEF Quotes!KeyOf
    <3>2. CASE d # c
      BY <1>7, <2>1, <3>2 DEF QuoteInv, AnswersInv, Quotes!KeyOf
    <3> QED
      BY <3>1, <3>2
  <2> QED
    BY <1>1, <2>1 DEF AnswersInv, Quotes!KeyOf, Quotes!CacheKey
<1>13. AgeInv'
  <2>1. ASSUME NEW u \in Users, NEW t \in Tickers, NEW d \in Requests, Pending(d, u, t)'
        PROVE  Pending(d, u, t) /\ fetches'[d][t] = fetches[d][t]
    <3>1. d # c
      BY <1>6, <1>8, <2>1 DEF Pending
    <3> QED
      BY <1>7, <1>8, <2>1, <3>1 DEF Pending, IsOf
  <2>2. ASSUME NEW u \in Users, NEW t \in Tickers, NEW d \in Requests, NEW n \in 0..QuoteTime, IsOf(d, u)', Knows(d, t, n)'
        PROVE  IsOf(d, u) /\ Knows(d, t, n)
    <3>1. CASE d = c
      <4>1. IsOf(d, u)
        BY <1>1, <1>5, <1>7, <2>2, <3>1 DEF IsOf
      <4>2. CASE n = seen[c][t]
        BY <3>1, <4>1, <4>2 DEF Knows
      <4>3. CASE n # seen[c][t]
        <5>1. PICK i \in DOMAIN tickers : tickers[i] = t /\ n = rows[i].at
          BY <1>1, <1>5, <1>6, <1>7, <1>8, <2>2, <3>1, <4>3 DEF Knows
        <5> QED
          BY <1>3, <3>1, <4>1, <5>1 DEF Knows
      <4> QED
        BY <3>1, <4>1, <4>2, <4>3
    <3>2. CASE d # c
      BY <1>1, <1>7, <1>8, <2>2, <3>2 DEF Knows, IsOf
    <3> QED
      BY <3>1, <3>2
  <2>3. cache' = cache /\ raced \subseteq raced'
    BY <1>1
  <2> QED
    BY <2>1, <2>2, <2>3, AgesStay
<1> QED
  BY <1>9, <1>10, <1>11, <1>12, <1>13 DEF QuoteInv

LEMMA QuotesKeep == QuoteInv /\ [Quotes!Next]_(Quotes!vars) => QuoteInv'
<1> SUFFICES ASSUME QuoteInv, [Quotes!Next]_(Quotes!vars) PROVE QuoteInv'
  OBVIOUS
<1>1. CASE Quotes!Tick
  BY <1>1, QuoteTickKeeps
<1>2. CASE \E c \in Requests, user \in Users, tickers \in Lists : Quotes!Begin(c, user, tickers)
  BY <1>2, BeginQuoteKeeps
<1>3. CASE \E c \in Requests, t \in Tickers : Quotes!Take(c, t) \/ Quotes!Look(c, t) \/ Quotes!Ask(c, t) \/ Quotes!Store(c, t)
  BY <1>3, TakeKeeps, LookKeeps, AskQuoteKeeps, StoreQuoteKeeps
<1>4. CASE \E c \in Requests : Quotes!Answer(c)
  BY <1>4, AnswerQuoteKeeps
<1>5. CASE UNCHANGED Quotes!vars
  BY <1>5 DEF Quotes!vars, QuoteInv, QuoteTypes, CacheInv, CallsInv, FetchesInv, AnswersInv,
              AgeInv, RaceFree, IsOf, Pending, Knows, Quotes!KeyOf
<1> QED
  BY <1>1, <1>2, <1>3, <1>4, <1>5 DEF Quotes!Next

\* What the run checks of the quotes.
LEMMA QuotesSay ==
  ASSUME QuoteInv
  PROVE  Quotes!TypeOK /\ Quotes!AnswersFit /\ Quotes!OlderOnlyByRace
<1>1. ASSUME NEW c \in Requests, asked[c].state = "done"
      PROVE  /\ DOMAIN asked[c].answer = DOMAIN asked[c].tickers /\ Len(asked[c].answer) = Len(asked[c].tickers)
             /\ \A i \in DOMAIN asked[c].tickers :
                  /\ asked[c].answer[i] \in Quotes!Row
                  /\ asked[c].answer[i].ticker = asked[c].tickers[i] /\ asked[c].answer[i].user = asked[c].user
                  /\ \A j \in DOMAIN asked[c].tickers :
                       asked[c].tickers[i] = asked[c].tickers[j] => asked[c].answer[i] = asked[c].answer[j]
                  /\ \/ asked[c].answer[i].at = Quotes!NoPrice
                     \/ asked[c].answer[i].at >= seen[c][asked[c].tickers[i]]
                     \/ Quotes!CacheKey(asked[c].user, asked[c].tickers[i]) \in raced
  BY <1>1, ListFields DEF QuoteInv, CallsInv, CallOf, AnswersInv, Quotes!KeyOf
<1>2. Quotes!TypeOK
  <2>1. DOMAIN cache = 1..Len(cache)
    BY DEF QuoteInv, QuoteTypes
  <2> QED
    BY <1>1, <2>1 DEF Quotes!TypeOK, QuoteInv, CacheInv, Orderly
<1>3. Quotes!AnswersFit
  BY <1>1 DEF Quotes!AnswersFit
<1>4. Quotes!OlderOnlyByRace
  BY <1>1 DEF Quotes!OlderOnlyByRace
<1> QED
  BY <1>2, <1>3, <1>4

-----------------------------------------------------------------------------
\* The limits on requests (RateLimit).

\* The inductive form: what was granted since a, and what the bucket still holds, are paid
\* for by a full bucket and the refill; nothing has been granted since the last refill.
BucketInv ==
    /\ bucket.last <= clock
    /\ \A a \in Times : a <= bucket.last => since[a] + bucket.tokens <= Capacity + Rate * (bucket.last - a)
    /\ \A a \in Times : a > bucket.last => since[a] = 0

\* A call that has passed the throttle is at some attempt, one that backs off has another left.
AttemptInv ==
    \A t \in Threads :
        /\ calls[t].pc \in {"acquire", "send", "backoff"} => calls[t].attempt \in 1..(Len(RetryDelays) + 1)
        /\ calls[t].pc = "backoff" => calls[t].attempt \in 1..Len(RetryDelays)

IInv == TypeOK /\ BucketInv /\ AttemptInv

USE RateLimitAssumption

\* A refill never takes tokens away, never overfills, and adds no more than its time allows.
LEMMA RefillBounds ==
    ASSUME TypeOK, bucket.last <= clock
    PROVE  /\ Refilled \in 0..Capacity
           /\ Refilled <= bucket.tokens + Rate * (clock - bucket.last)
<1>. DEFINE gained == Rate * (clock - bucket.last)
<1>1. bucket.tokens \in 0..Capacity /\ clock - bucket.last \in Nat
  BY DEF TypeOK, Times
<1>2. gained \in Nat
  BY <1>1
<1>. HIDE DEF gained
<1>3. bucket.tokens + gained \in Nat
  BY <1>1, <1>2
<1>4. Refilled = IF bucket.tokens + gained <= Capacity THEN bucket.tokens + gained ELSE Capacity
  BY DEF Refilled, gained
<1>5. Refilled \in 0..Capacity /\ Refilled <= bucket.tokens + gained
  BY <1>3, <1>4
<1>. QED  BY <1>5 DEF gained

\* The refill of two stretches of time is that of both together.
LEMMA RefillAdds ==
    ASSUME NEW a \in Int, NEW b \in Int, NEW c \in Int
    PROVE  Rate * (b - a) + Rate * (c - b) = Rate * (c - a)
OBVIOUS

\* A stretch of time refills no less than nothing.
LEMMA RefillIsNat ==
    ASSUME NEW a \in Int, NEW b \in Int, a <= b
    PROVE  Rate * (b - a) \in Nat
OBVIOUS

\* A whole refill: from the books at the last one to the books at the present time.
LEMMA BooksRefilled ==
    ASSUME TypeOK, BucketInv
    PROVE  \A a \in Times : a <= clock => since[a] + Refilled <= Capacity + Rate * (clock - a)
<1>. SUFFICES ASSUME NEW a \in Times, a <= clock
              PROVE  since[a] + Refilled <= Capacity + Rate * (clock - a)
  OBVIOUS
<1>0. a \in Int /\ clock \in Int /\ bucket.last \in Int /\ since[a] \in Nat /\ bucket.tokens \in Nat
  BY DEF TypeOK, Times
<1>1. Refilled \in 0..Capacity /\ Refilled <= bucket.tokens + Rate * (clock - bucket.last)
  BY RefillBounds DEF BucketInv
<1>2. CASE a <= bucket.last
  <2>1. since[a] + bucket.tokens <= Capacity + Rate * (bucket.last - a)
    BY <1>2 DEF BucketInv
  <2>2. Rate * (bucket.last - a) + Rate * (clock - bucket.last) = Rate * (clock - a)
    BY <1>0, RefillAdds
  <2>. DEFINE early == Rate * (bucket.last - a)
              late == Rate * (clock - bucket.last)
              whole == Rate * (clock - a)
  <2>3. early \in Int /\ late \in Int /\ whole \in Int
    BY <1>0
  <2>4. /\ Refilled <= bucket.tokens + late /\ since[a] + bucket.tokens <= Capacity + early
        /\ early + late = whole
    BY <1>1, <2>1, <2>2
  <2>. HIDE DEF early, late, whole
  <2>5. since[a] + Refilled <= Capacity + whole
    BY <1>0, <1>1, <2>3, <2>4
  <2>. QED  BY <2>5 DEF whole
<1>3. CASE a > bucket.last
  <2>1. since[a] = 0
    BY <1>3 DEF BucketInv
  <2>2. Rate * (clock - a) \in Nat
    BY <1>0, RefillIsNat
  <2>. QED  BY <1>1, <2>1, <2>2
<1>. QED  BY <1>0, <1>2, <1>3

LEMMA InitIInv == Init => IInv
<1>. SUFFICES ASSUME Init PROVE IInv
  OBVIOUS
<1>1. TypeOK
  BY DEF Init, TypeOK, Idle, Times
<1>2. BucketInv
  BY DEF Init, BucketInv, Times
<1>3. AttemptInv
  BY DEF Init, AttemptInv, Idle
<1>. QED  BY <1>1, <1>2, <1>3 DEF IInv

\* The books after a refill at the present time, with or without a grant.
LEMMA RefillKeepsBooks ==
    ASSUME IInv, NEW spent \in Nat, spent <= Refilled, TypeOK', clock' = clock,
           bucket' = [tokens |-> Refilled - spent, last |-> clock],
           \A a \in Times : since'[a] = IF a <= clock THEN since[a] + spent ELSE since[a]
    PROVE  BucketInv'
<1>0. TypeOK /\ BucketInv
  BY DEF IInv
<1>1. Refilled \in 0..Capacity
  BY <1>0, RefillBounds DEF BucketInv
<1>2. bucket'.tokens = Refilled - spent /\ bucket'.last = clock
  OBVIOUS
<1>3. ASSUME NEW a \in Times, a <= clock
      PROVE  since'[a] + bucket'.tokens <= Capacity + Rate * (bucket'.last - a)
  <2>1. since[a] + Refilled <= Capacity + Rate * (clock - a)
    BY <1>0, <1>3, BooksRefilled
  <2>2. since'[a] + bucket'.tokens = since[a] + Refilled
    BY <1>0, <1>1, <1>2, <1>3 DEF TypeOK
  <2>. QED  BY <1>2, <2>1, <2>2
<1>4. ASSUME NEW a \in Times, a > clock PROVE since'[a] = 0
  <2>1. a > bucket.last
    BY <1>0, <1>4 DEF BucketInv, TypeOK, Times
  <2>2. ~(a <= clock) /\ since[a] = 0
    BY <1>0, <1>4, <2>1 DEF BucketInv, TypeOK, Times
  <2>. QED  BY <2>2
<1>5. clock \in Int
  BY <1>0 DEF TypeOK, Times
<1>. QED  BY <1>2, <1>3, <1>4, <1>5 DEF BucketInv

LEMMA NextIInv == IInv /\ [Next]_vars => IInv'
<1>. SUFFICES ASSUME IInv, [Next]_vars PROVE IInv'
  OBVIOUS
<1>0. TypeOK /\ BucketInv /\ AttemptInv
  BY DEF IInv
<1>1. CASE Tick
  <2>1. TypeOK'
    BY <1>0, <1>1 DEF Tick, TypeOK, Times
  <2>2. BucketInv'
    BY <1>0, <1>1 DEF Tick, BucketInv, TypeOK, Times
  <2>3. AttemptInv'
    BY <1>0, <1>1 DEF Tick, AttemptInv
  <2>. QED  BY <2>1, <2>2, <2>3 DEF IInv
<1>2. ASSUME NEW t \in Threads, Call(t) PROVE IInv'
  <2>. DEFINE rest == lastCall[t] + MinInterval - clock
              w == IF rest > 0 THEN clock + rest ELSE clock
  <2>1. w \in Nat
    BY <1>0 DEF TypeOK, Times
  <2>2. calls' = [calls EXCEPT ![t] = [pc |-> "throttle", wakes |-> w, attempt |-> 0]]
    BY <1>2 DEF Call
  <2>3. /\ clock' = clock /\ bucket' = bucket /\ lastCall' = lastCall /\ since' = since
    BY <1>2 DEF Call
  <2>. HIDE DEF w
  <2>4. 0 \in 0..(Len(RetryDelays) + 1)
    OBVIOUS
  <2>5. [pc |-> "throttle", wakes |-> w, attempt |-> 0] \in
            [pc : {"idle", "throttle", "acquire", "send", "backoff"}, wakes : Nat, attempt : 0..(Len(RetryDelays) + 1)]
    BY <2>1, <2>4
  <2>6. TypeOK'
    BY <1>0, <2>2, <2>3, <2>5 DEF TypeOK
  <2>7. AttemptInv'
    BY <1>0, <2>2 DEF AttemptInv, TypeOK
  <2>. QED  BY <1>0, <2>3, <2>6, <2>7 DEF BucketInv, IInv
<1>3. ASSUME NEW t \in Threads, Throttled(t) PROVE IInv'
  <2>1. 1 \in 0..(Len(RetryDelays) + 1)
    OBVIOUS
  <2>2. /\ calls' \in [Threads -> [pc : {"idle", "throttle", "acquire", "send", "backoff"},
                                   wakes : Nat, attempt : 0..(Len(RetryDelays) + 1)]]
        /\ calls'[t].pc = "acquire" /\ calls'[t].attempt = 1
        /\ \A u \in Threads : u # t => calls'[u] = calls[u]
    <3>1. calls' = [calls EXCEPT ![t].pc = "acquire", ![t].attempt = 1]
      BY <1>3 DEF Throttled
    <3>. QED  BY <1>0, <2>1, <3>1 DEF TypeOK
  <2>3. lastCall' \in [Threads -> Int]
    BY <1>0, <1>3 DEF Throttled, TypeOK, Times
  <2>5. TypeOK'
    BY <1>0, <1>3, <2>2, <2>3 DEF Throttled, TypeOK
  <2>6. AttemptInv'
    BY <1>0, <2>2 DEF AttemptInv
  <2>. QED  BY <1>0, <1>3, <2>5, <2>6 DEF Throttled, BucketInv, IInv
<1>4. ASSUME NEW t \in Threads, Grant(t) PROVE IInv'
  <2>1. Refilled \in 0..Capacity
    BY <1>0, RefillBounds DEF BucketInv
  <2>2. /\ Cost <= Refilled /\ clock' = clock /\ lastCall' = lastCall
        /\ bucket' = [tokens |-> Refilled - Cost, last |-> clock]
        /\ calls' = [calls EXCEPT ![t].pc = "send"]
        /\ since' = [a \in Times |-> IF a <= clock THEN since[a] + Cost ELSE since[a]]
    BY <1>4, <2>1 DEF Grant
  <2>3. Refilled - Cost \in 0..Capacity
    BY <2>1, <2>2
  <2>4. TypeOK'
    <3>1. bucket' \in [tokens : 0..Capacity, last : Times]
      BY <1>0, <2>2, <2>3 DEF TypeOK
    <3>2. since' \in [Times -> Nat]
      BY <1>0, <2>2 DEF TypeOK
    <3>4. calls' \in [Threads -> [pc : {"idle", "throttle", "acquire", "send", "backoff"},
                                  wakes : Nat, attempt : 0..(Len(RetryDelays) + 1)]]
      BY <1>0, <2>2 DEF TypeOK
    <3>. QED  BY <1>0, <2>2, <3>1, <3>2, <3>4 DEF TypeOK
  <2>5. \A a \in Times : since'[a] = IF a <= clock THEN since[a] + Cost ELSE since[a]
    BY <2>2
  <2>6. BucketInv'
    BY <2>2, <2>4, <2>5, RefillKeepsBooks
  <2>7. /\ calls'[t].pc = "send" /\ calls'[t].attempt = calls[t].attempt
        /\ \A u \in Threads : u # t => calls'[u] = calls[u]
    BY <1>0, <2>2 DEF TypeOK
  <2>8. AttemptInv'
    BY <1>0, <1>4, <2>7 DEF Grant, AttemptInv
  <2>. QED  BY <2>4, <2>6, <2>8 DEF IInv
<1>5. ASSUME NEW t \in Threads, Wait(t) PROVE IInv'
  <2>1. Refilled \in 0..Capacity
    BY <1>0, RefillBounds DEF BucketInv
  <2>2. /\ clock' = clock /\ lastCall' = lastCall /\ calls' = calls /\ since' = since
        /\ bucket' = [tokens |-> Refilled, last |-> clock]
    BY <1>5 DEF Wait
  <2>3. TypeOK'
    BY <1>0, <2>1, <2>2 DEF TypeOK
  <2>4. bucket' = [tokens |-> Refilled - 0, last |-> clock]
    BY <2>1, <2>2
  <2>5. \A a \in Times : since'[a] = IF a <= clock THEN since[a] + 0 ELSE since[a]
    BY <1>0, <2>2 DEF TypeOK
  <2>6. BucketInv'
    BY <2>1, <2>2, <2>3, <2>4, <2>5, RefillKeepsBooks
  <2>7. AttemptInv'
    BY <1>0, <2>2 DEF AttemptInv
  <2>. QED  BY <2>3, <2>6, <2>7 DEF IInv
<1>6. ASSUME NEW t \in Threads, Respond(t) PROVE IInv'
  <2>1. TypeOK'
    <3>1. CASE calls' = [calls EXCEPT ![t] = Idle]
      BY <1>0, <1>6, <3>1 DEF Respond, TypeOK, Idle
    <3>2. CASE /\ calls[t].attempt <= Len(RetryDelays)
               /\ calls' = [calls EXCEPT ![t] = [pc |-> "backoff", wakes |-> clock + RetryDelays[calls[t].attempt],
                                                 attempt |-> calls[t].attempt]]
      <4>1. calls[t].attempt \in 1..Len(RetryDelays)
        BY <1>0, <1>6, <3>2 DEF Respond, AttemptInv
      <4>2. clock + RetryDelays[calls[t].attempt] \in Nat
        <5>1. RetryDelays[calls[t].attempt] \in Nat
          BY <4>1
        <5>2. clock \in Nat
          BY <1>0 DEF TypeOK, Times
        <5>. QED  BY <5>1, <5>2
      <4>. QED  BY <1>0, <1>6, <3>2, <4>2 DEF Respond, TypeOK
    <3>. QED  BY <1>6, <3>1, <3>2 DEF Respond
  <2>2. AttemptInv'
    <3>1. CASE calls' = [calls EXCEPT ![t] = Idle]
      BY <1>0, <3>1 DEF AttemptInv, TypeOK, Idle
    <3>2. CASE /\ calls[t].attempt <= Len(RetryDelays)
               /\ calls' = [calls EXCEPT ![t] = [pc |-> "backoff", wakes |-> clock + RetryDelays[calls[t].attempt],
                                                 attempt |-> calls[t].attempt]]
      <4>1. calls[t].attempt \in 1..Len(RetryDelays) /\ calls[t].attempt \in 1..(Len(RetryDelays) + 1)
        BY <1>0, <1>6, <3>2 DEF Respond, AttemptInv
      <4>2. /\ calls'[t].pc = "backoff" /\ calls'[t].attempt = calls[t].attempt
            /\ \A u \in Threads : u # t => calls'[u] = calls[u]
        BY <1>0, <3>2 DEF TypeOK
      <4>. QED  BY <1>0, <4>1, <4>2 DEF AttemptInv
    <3>. QED  BY <1>6, <3>1, <3>2 DEF Respond
  <2>. QED  BY <1>0, <1>6, <2>1, <2>2 DEF Respond, BucketInv, IInv
<1>7. ASSUME NEW t \in Threads, Retry(t) PROVE IInv'
  <2>1. calls[t].pc = "backoff" /\ calls[t].attempt \in 1..Len(RetryDelays)
    BY <1>0, <1>7 DEF Retry, AttemptInv
  <2>. DEFINE n == calls[t].attempt + 1
              Calls == [Threads -> [pc : {"idle", "throttle", "acquire", "send", "backoff"},
                                    wakes : Nat, attempt : 0..(Len(RetryDelays) + 1)]]
  <2>2. n \in 1..(Len(RetryDelays) + 1) /\ n \in 0..(Len(RetryDelays) + 1)
    BY <2>1
  <2>3. calls \in Calls /\ calls' = [calls EXCEPT ![t].pc = "acquire", ![t].attempt = n]
    BY <1>0, <1>7 DEF Retry, TypeOK
  <2>. HIDE DEF n
  <2>4. /\ calls' \in Calls
        /\ calls'[t].pc = "acquire" /\ calls'[t].attempt = n
        /\ \A u \in Threads : u # t => calls'[u] = calls[u]
    BY <2>2, <2>3
  <2>5. TypeOK'
    BY <1>0, <1>7, <2>4 DEF Retry, TypeOK
  <2>6. AttemptInv'
    BY <1>0, <2>2, <2>4 DEF AttemptInv
  <2>. QED  BY <1>0, <1>7, <2>5, <2>6 DEF Retry, BucketInv, IInv
<1>8. CASE UNCHANGED vars
  BY <1>0, <1>8 DEF vars, TypeOK, BucketInv, AttemptInv, IInv
<1>. QED  BY <1>1, <1>2, <1>3, <1>4, <1>5, <1>6, <1>7, <1>8 DEF Next, Step

-----------------------------------------------------------------------------
\* The behaviours of MCMarketData: each is about one way to market data, and what it is not
\* about does not move.

DataInv == IInv /\ (which = "quotes" => QuoteInv) /\ (which = "market" => BarInv)

LEMMA DataStarts == DataInit => DataInv
BY InitIInv, QuotesStart, BarsStart DEF DataInit, DataInv

LEMMA DataKeeps == DataInv /\ [DataNext]_<<which, vars, quoteVars, marketVars>> => DataInv'
<1> SUFFICES ASSUME DataInv, [DataNext]_<<which, vars, quoteVars, marketVars>> PROVE DataInv'
  OBVIOUS
<1>1. which' = which
  BY DEF DataNext
<1>2. IInv'
  <2>1. [Next]_vars
    BY DEF DataNext, vars
  <2> QED
    BY <2>1, NextIInv DEF DataInv
<1>3. which = "market" => BarInv'
  <2>1. [Market!Next]_(Market!vars) \/ which # "market"
    BY DEF DataNext, marketVars, Market!vars
  <2> QED
    BY <2>1, BarsKeep DEF DataInv
<1>4. which = "quotes" => QuoteInv'
  <2>1. [Quotes!Next]_(Quotes!vars) \/ which # "quotes"
    BY DEF DataNext, quoteVars, Quotes!vars
  <2> QED
    BY <2>1, QuotesKeep DEF DataInv
<1> QED
  BY <1>1, <1>2, <1>3, <1>4 DEF DataInv

\* The bucket is never overdrawn and never overfull, and every record keeps its shape.
THEOREM RateTypes == DataSpec => []TypeOK
<1>1. DataInv => TypeOK
  BY DEF DataInv, IInv
<1>. QED  BY DataStarts, DataKeeps, <1>1, PTL DEF DataSpec

\* No stretch of time, however placed, is granted more than a full bucket and its refill
\* (the global ceiling of finnhub_client.py:4-6).
THEOREM CeilingAlwaysHolds == DataSpec => []CeilingHolds
<1>1. DataInv => CeilingHolds
  <2>. SUFFICES ASSUME DataInv, NEW a \in 0..clock
                PROVE  since[a] <= Capacity + Rate * (clock - a)
    BY DEF CeilingHolds
  <2>1. TypeOK /\ BucketInv /\ a \in Times /\ a <= clock
    BY DEF DataInv, IInv, TypeOK, Times
  <2>2. since[a] + Refilled <= Capacity + Rate * (clock - a)
    BY <2>1, BooksRefilled
  <2>3. Refilled \in Nat /\ since[a] \in Nat
    BY <2>1, RefillBounds DEF BucketInv, TypeOK
  <2>4. Rate * (clock - a) \in Int
    BY <2>1 DEF TypeOK, Times
  <2>. QED  BY <2>2, <2>3, <2>4
<1>. QED  BY DataStarts, DataKeeps, <1>1, PTL DEF DataSpec

\* Every place of a list is answered with a row of its ticker that was fetched for the same user,
\* the cache keeps one entry per key within its bound and drops what expires first, and a quote
\* older than one the user has got comes only of a key asked for twice at once
\* (live_quotes.py cache_key, fetch_live_quotes).
THEOREM QuotesAlwaysOwn == DataSpec => []QuotesAreOwn
<1>1. DataInv => QuotesAreOwn
  BY QuotesSay DEF DataInv, QuotesAreOwn
<1>. QED  BY DataStarts, DataKeeps, <1>1, PTL DEF DataSpec

\* Bars are served whole, with evidence that is stored whatever the store refuses, and not
\* older than their time to live but for sessions of which a slow call has stored its response
\* after a later one (cached_client.py get_prices, _read_prices, save).
THEOREM BarsAlwaysStored == DataSpec => []BarsAreStored
<1>1. DataInv => BarsAreStored
  BY BarsSay DEF DataInv, BarsAreStored
<1>. QED  BY DataStarts, DataKeeps, <1>1, PTL DEF DataSpec
=============================================================================
