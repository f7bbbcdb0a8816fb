------------------------- MODULE ScanBroadcasterProofs -------------------------
(***************************************************************************)
(* Theorems about ScanBroadcaster, for any runs, subscribers and number of *)
(* events: nobody misses an event, and the broadcaster implements the      *)
(* stream that EventStream promises.                                       *)
(***************************************************************************)
EXTENDS ScanBroadcaster, SequenceTheorems, TLAPS

Lists == Seq(Subscribers)
Calls == Seq(Subscribers \X Items)

-----------------------------------------------------------------------------
\* Lists of subscribers.

LEMMA ListFacts ==
  ASSUME NEW S, NEW list \in Seq(S)
  PROVE  /\ Len(list) \in Nat
         /\ DOMAIN list = 1..Len(list)
         /\ list # <<>> <=> Len(list) > 0
         /\ \A x : x \in Range(list) <=> \E i \in 1..Len(list) : list[i] = x
<1>1. Len(list) \in Nat /\ DOMAIN list = 1..Len(list)
  BY LenProperties
<1>2. list # <<>> <=> Len(list) > 0
  BY EmptySeq
<1>3. Range(list) = {list[i] : i \in 1..Len(list)}
  BY RangeEquality
<1> QED
  BY <1>1, <1>2, <1>3

\* A list without one of its queues lists the others, each still once.
LEMMA WithoutFacts ==
  ASSUME NEW list \in Lists, IsInjective(list), NEW s \in Subscribers
  PROVE  /\ Without(list, s) \in Lists
         /\ IsInjective(Without(list, s))
         /\ \A q : q \in Range(Without(list, s)) <=> q \in Range(list) /\ q # s
<1>1. CASE s \notin Range(list)
  BY <1>1 DEF Without
<1>2. CASE s \in Range(list)
  <2> DEFINE n == Len(list)
             new == [i \in 1..(n - 1) |->
                        IF \E j \in 1..i : list[j] = s THEN list[i + 1] ELSE list[i]]
  <2>1. /\ n \in Nat /\ DOMAIN list = 1..n
        /\ \A x : x \in Range(list) <=> \E i \in 1..n : list[i] = x
        /\ \A i \in 1..n : list[i] \in Subscribers
    BY ListFacts, ElementOfSeq DEF Lists
  <2>2. PICK k \in 1..n : list[k] = s
    BY <1>2, <2>1
  <2>3. \A j \in 1..n : list[j] = s <=> j = k
    BY <2>1, <2>2 DEF IsInjective
  <2>4. \A i \in 1..(n - 1) : new[i] = IF k <= i THEN list[i + 1] ELSE list[i]
    BY <2>1, <2>3
  <2>5. n - 1 \in Nat /\ \A i \in 1..(n - 1) : new[i] \in Subscribers
    BY <2>1, <2>2, <2>4
  <2>6. new \in Lists /\ Len(new) = n - 1 /\ DOMAIN new = 1..(n - 1)
    BY <2>5 DEF Lists
  <2> HIDE DEF new
  <2>7. IsInjective(new)
    BY <2>1, <2>2, <2>4, <2>6 DEF IsInjective
  <2>8. \A q : q \in Range(new) <=> \E i \in 1..(n - 1) : new[i] = q
    BY <2>6, ListFacts DEF Lists
  <2>9. ASSUME NEW q, q \in Range(new) PROVE q \in Range(list) /\ q # s
    <3>1. PICK i \in 1..(n - 1) : new[i] = q
      BY <2>8, <2>9
    <3> QED
      BY <2>1, <2>2, <2>3, <2>4, <3>1
  <2>10. ASSUME NEW q, q \in Range(list), q # s PROVE q \in Range(new)
    <3>1. PICK j \in 1..n : list[j] = q
      BY <2>1, <2>10
    <3>2. j # k
      BY <2>2, <2>10, <3>1
    <3>3. CASE j < k
      BY <2>1, <2>2, <2>4, <2>8, <3>1, <3>3
    <3>4. CASE j > k
      <4>1. j - 1 \in 1..(n - 1) /\ new[j - 1] = list[j]
        BY <2>1, <2>2, <2>4, <3>1, <3>4
      <4> QED
        BY <2>8, <3>1, <4>1
    <3> QED
      BY <2>1, <2>2, <3>1, <3>2, <3>3, <3>4
  <2>11. Without(list, s) = new
    BY <1>2 DEF Without, new
  <2> QED
    BY <2>6, <2>7, <2>9, <2>10, <2>11
<1> QED
  BY <1>1, <1>2

\* The tail of a list without repetition no longer lists its head.
LEMMA TailFacts ==
  ASSUME NEW list \in Lists, IsInjective(list), list # <<>>
  PROVE  /\ Head(list) \in Subscribers /\ Head(list) \in Range(list)
         /\ Tail(list) \in Lists
         /\ IsInjective(Tail(list))
         /\ \A q : q \in Range(Tail(list)) <=> q \in Range(list) /\ q # Head(list)
<1> DEFINE n == Len(list)
           new == Tail(list)
<1>1. /\ n \in Nat /\ n > 0 /\ DOMAIN list = 1..n
      /\ \A x : x \in Range(list) <=> \E i \in 1..n : list[i] = x
  BY ListFacts DEF Lists
<1>2. /\ new \in Lists /\ Len(new) = n - 1 /\ Head(list) \in Subscribers
      /\ \A i \in 1..(n - 1) : new[i] = list[i + 1]
  BY HeadTailProperties DEF Lists
<1>3. Head(list) = list[1]
  BY <1>1
<1> HIDE DEF new, n
<1>4. DOMAIN new = 1..(n - 1) /\ \A x : x \in Range(new) <=> \E i \in 1..(n - 1) : new[i] = x
  BY <1>2, ListFacts DEF Lists
<1>5. IsInjective(new)
  BY <1>1, <1>2, <1>4 DEF IsInjective
<1>6. \A i \in 1..n : i # 1 => list[i] # list[1]
  BY <1>1 DEF IsInjective
<1>7. ASSUME NEW q, q \in Range(new) PROVE q \in Range(list) /\ q # Head(list)
  <2>1. PICK i \in 1..(n - 1) : new[i] = q
    BY <1>4, <1>7
  <2> QED
    BY <1>1, <1>2, <1>3, <1>6, <2>1
<1>8. ASSUME NEW q, q \in Range(list), q # Head(list) PROVE q \in Range(new)
  <2>1. PICK j \in 1..n : list[j] = q
    BY <1>1, <1>8
  <2>2. j - 1 \in 1..(n - 1) /\ new[j - 1] = q
    BY <1>1, <1>2, <1>3, <1>8, <2>1
  <2> QED
    BY <1>4, <2>2
<1> QED
  BY <1>1, <1>2, <1>3, <1>5, <1>7, <1>8 DEF new

\* A queue that registers is listed after the others.
LEMMA AppendFacts ==
  ASSUME NEW list \in Lists, IsInjective(list), NEW s \in Subscribers, s \notin Range(list)
  PROVE  /\ Append(list, s) \in Lists
         /\ IsInjective(Append(list, s))
         /\ \A q : q \in Range(Append(list, s)) <=> q \in Range(list) \/ q = s
<1> DEFINE n == Len(list)
           new == Append(list, s)
<1>1. /\ n \in Nat /\ DOMAIN list = 1..n
      /\ \A x : x \in Range(list) <=> \E i \in 1..n : list[i] = x
  BY ListFacts DEF Lists
<1>2. /\ new \in Lists /\ Len(new) = n + 1 /\ new[n + 1] = s
      /\ \A i \in 1..n : new[i] = list[i]
  BY AppendProperties DEF Lists
<1> HIDE DEF new, n
<1>3. DOMAIN new = 1..(n + 1) /\ \A x : x \in Range(new) <=> \E i \in 1..(n + 1) : new[i] = x
  BY <1>2, ListFacts DEF Lists
<1>4. \A i \in 1..n : list[i] # s
  BY <1>1
<1>5. IsInjective(new)
  BY <1>1, <1>2, <1>3, <1>4 DEF IsInjective
<1>6. ASSUME NEW q, q \in Range(new) PROVE q \in Range(list) \/ q = s
  BY <1>1, <1>2, <1>3, <1>6
<1>7. ASSUME NEW q, q \in Range(list) \/ q = s PROVE q \in Range(new)
  <2>1. n + 1 \in 1..(n + 1) /\ 1..n \subseteq 1..(n + 1)
    BY <1>1
  <2> QED
    BY <1>1, <1>2, <1>3, <1>7, <2>1
<1> QED
  BY <1>2, <1>5, <1>6, <1>7 DEF new
-----------------------------------------------------------------------------
\* What each action does to the records of its run or its subscriber.

LEMMA PublishFields ==
  ASSUME TypeOK, NEW r \in Runs, Publish(r)
  PROVE  /\ feed' \in [Runs -> Feed]
         /\ feed'[r].n = feed[r].n + 1
         /\ feed'[r].closed = feed[r].closed
         /\ feed'[r].todo = subs[r]
         /\ \A q \in Runs : q # r => feed'[q] = feed[q]
<1> DEFINE f1 == [feed[r] EXCEPT !.n = feed[r].n + 1]
           f2 == [f1 EXCEPT !.todo = subs[r]]
<1>1. feed \in [Runs -> Feed] /\ feed[r] \in Feed /\ subs[r] \in Seq(Subscribers)
  BY DEF TypeOK
<1>2. feed[r].n + 1 \in 0..MaxEvents
  BY <1>1, ScanBroadcasterAssumption DEF Publish, Feed
<1>3. f1 \in Feed /\ f1.n = feed[r].n + 1 /\ f1.closed = feed[r].closed
  BY <1>1, <1>2 DEF Feed
<1>4. f2 \in Feed /\ f2.n = feed[r].n + 1 /\ f2.closed = feed[r].closed /\ f2.todo = subs[r]
  BY <1>1, <1>3 DEF Feed
<1>5. feed' = [feed EXCEPT ![r] = f2]
  BY <1>1 DEF Publish
<1> HIDE DEF f2
<1> QED
  BY <1>1, <1>4, <1>5

LEMMA CloseFields ==
  ASSUME TypeOK, NEW r \in Runs, Close(r)
  PROVE  /\ feed' \in [Runs -> Feed]
         /\ feed'[r].n = feed[r].n
         /\ feed'[r].closed = TRUE
         /\ feed'[r].todo = subs[r]
         /\ \A q \in Runs : q # r => feed'[q] = feed[q]
<1> DEFINE f1 == [feed[r] EXCEPT !.closed = TRUE]
           f2 == [f1 EXCEPT !.todo = subs[r]]
<1>1. feed \in [Runs -> Feed] /\ feed[r] \in Feed /\ subs[r] \in Seq(Subscribers)
  BY DEF TypeOK
<1>2. f1 \in Feed /\ f1.n = feed[r].n /\ f1.closed = TRUE
  BY <1>1 DEF Feed
<1>3. f2 \in Feed /\ f2.n = feed[r].n /\ f2.closed = TRUE /\ f2.todo = subs[r]
  BY <1>1, <1>2 DEF Feed
<1>4. feed' = [feed EXCEPT ![r] = f2]
  BY <1>1 DEF Close
<1> HIDE DEF f2
<1> QED
  BY <1>1, <1>3, <1>4

LEMMA ScheduleFields ==
  ASSUME TypeOK, NEW r \in Runs, Schedule(r), IsInjective(feed[r].todo)
  PROVE  /\ feed' \in [Runs -> Feed]
         /\ feed'[r].n = feed[r].n
         /\ feed'[r].closed = feed[r].closed
         /\ feed'[r].todo = Tail(feed[r].todo)
         /\ \A q \in Runs : q # r => feed'[q] = feed[q]
         /\ loop' \in [open : BOOLEAN, ready : Calls]
         /\ loop'.open = loop.open
         /\ loop.open => loop'.ready = Append(loop.ready, <<Head(feed[r].todo), Item(r)>>)
         /\ <<Head(feed[r].todo), Item(r)>> \in Subscribers \X Items
<1> DEFINE f1 == [feed[r] EXCEPT !.todo = Tail(feed[r].todo)]
           call == <<Head(feed[r].todo), Item(r)>>
           l1 == [loop EXCEPT !.ready = Append(loop.ready, call)]
<1>1. feed \in [Runs -> Feed] /\ feed[r] \in Feed /\ loop \in [open : BOOLEAN, ready : Calls]
  BY DEF TypeOK, Calls
<1>2. Tail(feed[r].todo) \in Lists /\ Head(feed[r].todo) \in Subscribers
  BY <1>1, TailFacts DEF Schedule, Feed, Lists
<1>3. f1 \in Feed /\ f1.n = feed[r].n /\ f1.closed = feed[r].closed
      /\ f1.todo = Tail(feed[r].todo)
  BY <1>1, <1>2 DEF Feed, Lists
<1>4. feed' = [feed EXCEPT ![r] = f1]
  BY <1>1 DEF Schedule
<1>5. Item(r) \in Items
  BY <1>1, ScanBroadcasterAssumption DEF Item, Items, Feed, None
<1>6. call \in Subscribers \X Items
  BY <1>2, <1>5
<1>7. Append(loop.ready, call) \in Calls
  BY <1>1, <1>6, AppendProperties DEF Calls
<1> HIDE DEF call
<1>8. /\ l1 \in [open : BOOLEAN, ready : Calls] /\ l1.open = loop.open
      /\ l1.ready = Append(loop.ready, call)
  BY <1>1, <1>7
<1>9. loop' = IF loop.open THEN l1 ELSE loop
  BY DEF Schedule, call
<1> HIDE DEF f1, l1
<1>10. /\ feed' \in [Runs -> Feed] /\ feed'[r] = f1
       /\ \A q \in Runs : q # r => feed'[q] = feed[q]
  BY <1>1, <1>3, <1>4
<1>11. /\ loop' \in [open : BOOLEAN, ready : Calls] /\ loop'.open = loop.open
       /\ loop.open => loop'.ready = Append(loop.ready, call)
  BY <1>1, <1>8, <1>9
<1> QED
  BY <1>3, <1>6, <1>10, <1>11 DEF call

\* A subscriber whose record is replaced leaves the others alone.
LEMMA StreamFields ==
  ASSUME TypeOK, NEW s \in Subscribers, NEW new \in Stream,
         stream' = [stream EXCEPT ![s] = new]
  PROVE  /\ stream' \in [Subscribers -> Stream]
         /\ stream'[s] = new
         /\ \A q \in Subscribers : q # s => stream'[q] = stream[q]
  BY DEF TypeOK

LEMMA CallbackFields ==
  ASSUME TypeOK, RunCallback
  PROVE  LET call == Head(loop.ready) IN
         /\ call \in Subscribers \X Items
         /\ call = loop.ready[1] /\ Len(loop.ready) > 0
         /\ stream' \in [Subscribers -> Stream]
         /\ stream'[call[1]].pc = stream[call[1]].pc
         /\ stream'[call[1]].run = stream[call[1]].run
         /\ stream'[call[1]].queue = Append(stream[call[1]].queue, call[2])
         /\ stream'[call[1]].got = stream[call[1]].got
         /\ stream'[call[1]].from = stream[call[1]].from
         /\ stream'[call[1]].late = stream[call[1]].late
         /\ \A q \in Subscribers : q # call[1] => stream'[q] = stream[q]
         /\ loop' \in [open : BOOLEAN, ready : Calls]
         /\ loop'.open = loop.open
         /\ Len(loop'.ready) = Len(loop.ready) - 1
         /\ \A i \in 1..(Len(loop.ready) - 1) : loop'.ready[i] = loop.ready[i + 1]
<1> DEFINE call == Head(loop.ready)
           s == call[1]
           longer == Append(stream[s].queue, call[2])
           new == [stream[s] EXCEPT !.queue = longer]
           l1 == [loop EXCEPT !.ready = Tail(loop.ready)]
<1>1. loop \in [open : BOOLEAN, ready : Calls] /\ loop.ready # <<>> /\ loop.ready \in Calls
  BY DEF TypeOK, Calls, RunCallback
<1>2. /\ call \in Subscribers \X Items
      /\ Tail(loop.ready) \in Calls /\ Len(Tail(loop.ready)) = Len(loop.ready) - 1
      /\ \A i \in 1..(Len(loop.ready) - 1) : Tail(loop.ready)[i] = loop.ready[i + 1]
  BY <1>1, HeadTailProperties DEF Calls
<1>3. Len(loop.ready) > 0 /\ call = loop.ready[1]
  BY <1>1, ListFacts DEF Calls
<1>4. s \in Subscribers /\ call[2] \in Items
  BY <1>2
<1> HIDE DEF call
<1>5. stream[s] \in Stream
  BY <1>4 DEF TypeOK
<1>6. longer \in Seq(Items)
  BY <1>4, <1>5, AppendProperties DEF Stream
<1>7. stream' = [stream EXCEPT ![s] = new]
  BY <1>4 DEF RunCallback, TypeOK, call
<1> HIDE DEF s, longer
<1>8. /\ new \in Stream /\ new.pc = stream[s].pc /\ new.run = stream[s].run
      /\ new.queue = longer /\ new.got = stream[s].got /\ new.from = stream[s].from
      /\ new.late = stream[s].late
  BY <1>5, <1>6 DEF Stream
<1> HIDE DEF new
<1>9. /\ stream' \in [Subscribers -> Stream] /\ stream'[s] = new
      /\ \A q \in Subscribers : q # s => stream'[q] = stream[q]
  BY <1>4, <1>7, <1>8, StreamFields
<1>10. /\ l1 \in [open : BOOLEAN, ready : Calls] /\ l1.open = loop.open
       /\ l1.ready = Tail(loop.ready)
  BY <1>1, <1>2
<1>11. loop' = l1
  BY DEF RunCallback
<1> HIDE DEF l1
<1> QED
  BY <1>2, <1>3, <1>8, <1>9, <1>10, <1>11 DEF call, s, longer
\* The generator or its route moves on, and nothing else of the subscriber changes.
Moved(s, pc) ==
    /\ stream'[s].pc = pc
    /\ stream'[s].run = stream[s].run /\ stream'[s].queue = stream[s].queue
    /\ stream'[s].got = stream[s].got /\ stream'[s].from = stream[s].from
    /\ stream'[s].late = stream[s].late
    /\ \A q \in Subscribers : q # s => stream'[q] = stream[q]

LEMMA MoveFields ==
  ASSUME TypeOK, NEW s \in Subscribers,
         NEW pc \in {"waiting", "leaving", "left", "ended"},
         stream' = [stream EXCEPT ![s].pc = pc]
  PROVE  stream' \in [Subscribers -> Stream] /\ Moved(s, pc)
<1> DEFINE new == [stream[s] EXCEPT !.pc = pc]
<1>1. stream \in [Subscribers -> Stream] /\ stream[s] \in Stream
  BY DEF TypeOK
<1>2. /\ new \in Stream /\ new.pc = pc /\ new.run = stream[s].run
      /\ new.queue = stream[s].queue /\ new.got = stream[s].got
      /\ new.from = stream[s].from /\ new.late = stream[s].late
  BY <1>1 DEF Stream, Registered
<1>3. stream' = [stream EXCEPT ![s] = new]
  BY <1>1
<1> HIDE DEF new
<1> QED
  BY <1>2, <1>3, StreamFields DEF Moved

LEMMA OpenFields ==
  ASSUME TypeOK, NEW s \in Subscribers, NEW r \in Runs, Open(s, r)
  PROVE  /\ stream' \in [Subscribers -> Stream]
         /\ stream'[s].pc = "opened" /\ stream'[s].run = r
         /\ stream'[s].queue = stream[s].queue /\ stream'[s].got = stream[s].got
         /\ stream'[s].from = stream[s].from /\ stream'[s].late = stream[s].late
         /\ \A q \in Subscribers : q # s => stream'[q] = stream[q]
<1> DEFINE new1 == [stream[s] EXCEPT !.pc = "opened"]
           new2 == [new1 EXCEPT !.run = r]
<1>1. stream \in [Subscribers -> Stream] /\ stream[s] \in Stream
  BY DEF TypeOK
<1>2. /\ new1 \in Stream /\ new1.pc = "opened" /\ new1.queue = stream[s].queue
      /\ new1.got = stream[s].got /\ new1.from = stream[s].from /\ new1.late = stream[s].late
  BY <1>1 DEF Stream
<1>3. stream' = [stream EXCEPT ![s] = new2]
  BY <1>1 DEF Open
<1> HIDE DEF new1
<1>4. /\ new2 \in Stream /\ new2.pc = "opened" /\ new2.run = r /\ new2.queue = stream[s].queue
      /\ new2.got = stream[s].got /\ new2.from = stream[s].from /\ new2.late = stream[s].late
  BY <1>2 DEF Stream
<1> HIDE DEF new2
<1> QED
  BY <1>3, <1>4, StreamFields

LEMMA RegisterFields ==
  ASSUME TypeOK, NEW s \in Subscribers, Register(s), stream[s].run \in Runs,
         s \notin Range(subs[stream[s].run])
  PROVE  LET r == stream[s].run IN
         /\ subs' \in [Runs -> Seq(Subscribers)]
         /\ \A q \in Runs : IsInjective(subs'[q])
         /\ \A q \in Runs : \A t : t \in Range(subs'[q]) <=> t \in Range(subs[q]) \/ (q = r /\ t = s)
         /\ stream' \in [Subscribers -> Stream]
         /\ stream'[s].pc = "waiting" /\ stream'[s].run = r
         /\ stream'[s].queue = stream[s].queue /\ stream'[s].got = stream[s].got
         /\ stream'[s].from = feed[r].n /\ stream'[s].late = feed[r].closed
         /\ \A q \in Subscribers : q # s => stream'[q] = stream[q]
<1> DEFINE r == stream[s].run
           new1 == [stream[s] EXCEPT !.pc = "waiting"]
           new2 == [new1 EXCEPT !.from = feed[r].n]
           new3 == [new2 EXCEPT !.late = feed[r].closed]
<1>1. /\ stream \in [Subscribers -> Stream] /\ stream[s] \in Stream /\ feed[r] \in Feed
      /\ subs \in [Runs -> Lists]
  BY DEF TypeOK, Lists
<1>2. /\ new1 \in Stream /\ new1.pc = "waiting" /\ new1.run = r
      /\ new1.queue = stream[s].queue /\ new1.got = stream[s].got
  BY <1>1 DEF Stream, Registered
<1>3. stream' = [stream EXCEPT ![s] = new3]
  BY <1>1 DEF Register
<1>a. feed[r].n \in 0..MaxEvents /\ feed[r].closed \in BOOLEAN
  BY <1>1 DEF Feed
<1>b. subs' = [subs EXCEPT ![r] = Append(subs[r], s)]
  BY DEF Register
<1> HIDE DEF new1, r
<1>4. /\ new2 \in Stream /\ new2.pc = "waiting" /\ new2.run = r
      /\ new2.queue = stream[s].queue /\ new2.got = stream[s].got /\ new2.from = feed[r].n
  BY <1>2, <1>a DEF Stream
<1> HIDE DEF new2
<1>5. /\ new3 \in Stream /\ new3.pc = "waiting" /\ new3.run = r
      /\ new3.queue = stream[s].queue /\ new3.got = stream[s].got /\ new3.from = feed[r].n
      /\ new3.late = feed[r].closed
  BY <1>4, <1>a DEF Stream
<1> HIDE DEF new3
<1>6. /\ Append(subs[r], s) \in Lists /\ IsInjective(Append(subs[r], s))
      /\ \A q : q \in Range(Append(subs[r], s)) <=> q \in Range(subs[r]) \/ q = s
  BY <1>1, AppendFacts DEF TypeOK, r
<1> DEFINE longer == Append(subs[r], s)
<1> HIDE DEF longer
<1>7. /\ subs' \in [Runs -> Lists] /\ subs'[r] = longer
      /\ \A q \in Runs : q # r => subs'[q] = subs[q]
  BY <1>1, <1>6, <1>b DEF longer, r
<1>8. \A q \in Runs : IsInjective(subs'[q])
  <2> TAKE q \in Runs
  <2>1. CASE q = r
    BY <1>6, <1>7, <2>1 DEF longer
  <2>2. CASE q # r
    BY <1>7, <2>2 DEF TypeOK
  <2> QED
    BY <2>1, <2>2
<1>9. \A q \in Runs : \A t : t \in Range(subs'[q]) <=> t \in Range(subs[q]) \/ (q = r /\ t = s)
  BY <1>6, <1>7 DEF longer
<1> QED
  BY <1>3, <1>5, <1>7, <1>8, <1>9, StreamFields DEF r, Lists

\* Taking a queue off its list, as the generator's finally clause does.
LEMMA UnregisterFields ==
  ASSUME TypeOK, NEW s \in Subscribers, Unregister(s), stream[s].run \in Runs
  PROVE  /\ subs' \in [Runs -> Seq(Subscribers)]
         /\ \A q \in Runs : IsInjective(subs'[q])
         /\ \A q \in Runs : \A t :
               t \in Range(subs'[q]) <=> t \in Range(subs[q]) /\ ~(q = stream[s].run /\ t = s)
<1> DEFINE r == stream[s].run
           shorter == Without(subs[r], s)
<1>1. subs \in [Runs -> Lists] /\ r \in Runs
  BY DEF TypeOK, Lists
<1>2. /\ shorter \in Lists /\ IsInjective(shorter)
      /\ \A q : q \in Range(shorter) <=> q \in Range(subs[r]) /\ q # s
  BY <1>1, WithoutFacts DEF TypeOK
<1>3. subs' = [subs EXCEPT ![r] = shorter]
  BY DEF Unregister
<1> HIDE DEF shorter, r
<1>4. /\ subs' \in [Runs -> Lists] /\ subs'[r] = shorter
      /\ \A q \in Runs : q # r => subs'[q] = subs[q]
  BY <1>1, <1>2, <1>3
<1>5. \A q \in Runs : IsInjective(subs'[q])
  <2> TAKE q \in Runs
  <2>1. CASE q = r
    BY <1>2, <1>4, <2>1
  <2>2. CASE q # r
    BY <1>4, <2>2 DEF TypeOK
  <2> QED
    BY <2>1, <2>2
<1>6. \A q \in Runs : \A t : t \in Range(subs'[q]) <=> t \in Range(subs[q]) /\ ~(q = r /\ t = s)
  BY <1>2, <1>4
<1> QED
  BY <1>4, <1>5, <1>6 DEF r, Lists

\* The generator takes an item off its queue: an event, which it hands on ...
LEMMA GetEventFields ==
  ASSUME TypeOK, NEW s \in Subscribers, stream[s].queue # <<>>,
         stream' = [stream EXCEPT ![s].queue = Tail(stream[s].queue), ![s].pc = "yielded",
                                  ![s].got = Append(stream[s].got, Head(stream[s].queue))]
  PROVE  LET item == stream[s].queue[1] IN
         /\ stream' \in [Subscribers -> Stream]
         /\ stream'[s].pc = "yielded" /\ stream'[s].run = stream[s].run
         /\ stream'[s].queue = Tail(stream[s].queue)
         /\ stream'[s].got = Append(stream[s].got, item)
         /\ stream'[s].from = stream[s].from /\ stream'[s].late = stream[s].late
         /\ item \in Items /\ item = Head(stream[s].queue)
         /\ \A q \in Subscribers : q # s => stream'[q] = stream[q]
<1> DEFINE rest == Tail(stream[s].queue)
           more == Append(stream[s].got, Head(stream[s].queue))
           new1 == [stream[s] EXCEPT !.queue = rest]
           new2 == [new1 EXCEPT !.pc = "yielded"]
           new3 == [new2 EXCEPT !.got = more]
<1>1. stream \in [Subscribers -> Stream] /\ stream[s] \in Stream
  BY DEF TypeOK
<1>2. stream[s].queue \in Seq(Items) /\ stream[s].got \in Seq(Items)
  BY <1>1 DEF Stream
<1>3. rest \in Seq(Items) /\ Head(stream[s].queue) \in Items
  BY <1>2, HeadTailProperties
<1>4. more \in Seq(Items)
  BY <1>2, <1>3, AppendProperties
<1>5. Head(stream[s].queue) = stream[s].queue[1]
  BY <1>2, ListFacts
<1>6. stream' = [stream EXCEPT ![s] = new3]
  BY <1>1
<1> HIDE DEF rest, more
<1>7. /\ new1 \in Stream /\ new1.run = stream[s].run /\ new1.queue = rest
      /\ new1.from = stream[s].from /\ new1.late = stream[s].late
  BY <1>1, <1>3 DEF Stream
<1> HIDE DEF new1
<1>8. /\ new2 \in Stream /\ new2.pc = "yielded" /\ new2.run = stream[s].run /\ new2.queue = rest
      /\ new2.from = stream[s].from /\ new2.late = stream[s].late
  BY <1>7 DEF Stream, Registered
<1> HIDE DEF new2
<1>9. /\ new3 \in Stream /\ new3.pc = "yielded" /\ new3.run = stream[s].run /\ new3.queue = rest
      /\ new3.got = more /\ new3.from = stream[s].from /\ new3.late = stream[s].late
  BY <1>4, <1>8 DEF Stream
<1> HIDE DEF new3
<1> QED
  BY <1>3, <1>5, <1>6, <1>9, StreamFields DEF rest, more

\* ... or the sentinel, which ends it.
LEMMA GetEndFields ==
  ASSUME TypeOK, NEW s \in Subscribers, stream[s].queue # <<>>,
         stream' = [stream EXCEPT ![s].queue = Tail(stream[s].queue), ![s].pc = "ended"]
  PROVE  /\ stream' \in [Subscribers -> Stream]
         /\ stream'[s].pc = "ended" /\ stream'[s].run = stream[s].run
         /\ stream'[s].queue = Tail(stream[s].queue) /\ stream'[s].got = stream[s].got
         /\ stream'[s].from = stream[s].from /\ stream'[s].late = stream[s].late
         /\ \A q \in Subscribers : q # s => stream'[q] = stream[q]
<1> DEFINE rest == Tail(stream[s].queue)
           new1 == [stream[s] EXCEPT !.queue = rest]
           new2 == [new1 EXCEPT !.pc = "ended"]
<1>1. stream \in [Subscribers -> Stream] /\ stream[s] \in Stream
  BY DEF TypeOK
<1>2. rest \in Seq(Items)
  BY <1>1, HeadTailProperties DEF Stream
<1>3. stream' = [stream EXCEPT ![s] = new2]
  BY <1>1
<1> HIDE DEF rest
<1>4. /\ new1 \in Stream /\ new1.run = stream[s].run /\ new1.queue = rest
      /\ new1.got = stream[s].got /\ new1.from = stream[s].from /\ new1.late = stream[s].late
  BY <1>1, <1>2 DEF Stream
<1> HIDE DEF new1
<1>5. /\ new2 \in Stream /\ new2.pc = "ended" /\ new2.run = stream[s].run /\ new2.queue = rest
      /\ new2.got = stream[s].got /\ new2.from = stream[s].from /\ new2.late = stream[s].late
  BY <1>4 DEF Stream
<1> HIDE DEF new2
<1> QED
  BY <1>3, <1>5, StreamFields DEF rest
-----------------------------------------------------------------------------
\* Type correctness, which needs that a registered queue is listed.

Inv == TypeOK /\ BroadcastInv

\* A subscriber that is not yet registered is not listed, one that is has its run.
LEMMA RegisterReady ==
  ASSUME Inv, NEW s \in Subscribers, stream[s].pc = "opened"
  PROVE  stream[s].run \in Runs /\ s \notin Range(subs[stream[s].run])
<1>1. stream[s].run \in Runs
  BY DEF Inv, BroadcastInv, StreamInv
<1>2. stream[s].pc \notin Registered
  BY DEF Registered
<1> QED
  BY <1>1, <1>2 DEF Inv, BroadcastInv, ListedWhileAlive

LEMMA TypeInit == Init => TypeOK
<1> SUFFICES ASSUME Init PROVE TypeOK
  OBVIOUS
<1>0. 0 \in 0..MaxEvents /\ \A S : <<>> \in Seq(S)
  BY EmptySeq, ScanBroadcasterAssumption
<1>1. [n |-> 0, closed |-> FALSE, todo |-> <<>>] \in Feed
  BY <1>0 DEF Feed
<1>2. [pc |-> "idle", run |-> NoRun, queue |-> <<>>, got |-> <<>>, from |-> 0, late |-> FALSE]
        \in Stream
  BY <1>0 DEF Stream
<1>3. IsInjective(<<>>)
  BY DEF IsInjective
<1>4. subs \in [Runs -> Seq(Subscribers)] /\ \A r \in Runs : IsInjective(subs[r])
  BY <1>0, <1>3 DEF Init
<1>5. loop \in [open : BOOLEAN, ready : Seq(Subscribers \X Items)]
  BY <1>0 DEF Init
<1>6. feed \in [Runs -> Feed]
  BY <1>1 DEF Init
<1>7. stream \in [Subscribers -> Stream]
  BY <1>2 DEF Init
<1> QED
  BY <1>4, <1>5, <1>6, <1>7 DEF TypeOK

LEMMA GetSteps ==
  ASSUME NEW s, Get(s)
  PROVE  /\ UNCHANGED loop /\ loop.open /\ stream[s].pc = "waiting" /\ stream[s].queue # <<>>
         /\ \/ /\ Head(stream[s].queue).n # None /\ UNCHANGED <<subs, feed>>
               /\ stream' = [stream EXCEPT ![s].queue = Tail(stream[s].queue), ![s].pc = "yielded",
                                  ![s].got = Append(stream[s].got, Head(stream[s].queue))]
            \/ /\ Head(stream[s].queue).n = None /\ Unregister(s)
               /\ stream' = [stream EXCEPT ![s].queue = Tail(stream[s].queue), ![s].pc = "ended"]
  BY DEF Get

LEMMA TypeStep == Inv /\ [Next]_vars => TypeOK'
<1> SUFFICES ASSUME Inv, [Next]_vars PROVE TypeOK'
  OBVIOUS
<1>0. TypeOK /\ FeedInv
  BY DEF Inv, BroadcastInv
<1>1. ASSUME NEW r \in Runs, Publish(r) PROVE TypeOK'
  BY <1>0, <1>1, PublishFields DEF Publish, TypeOK
<1>2. ASSUME NEW r \in Runs, Close(r) PROVE TypeOK'
  BY <1>0, <1>2, CloseFields DEF Close, TypeOK
<1>3. ASSUME NEW r \in Runs, Schedule(r) PROVE TypeOK'
  <2>1. feed' \in [Runs -> Feed] /\ loop' \in [open : BOOLEAN, ready : Calls]
    BY <1>0, <1>3, ScheduleFields DEF FeedInv
  <2> QED
    BY <1>0, <1>3, <2>1 DEF Schedule, TypeOK, Calls
<1>4. CASE RunCallback
  <2>1. stream' \in [Subscribers -> Stream] /\ loop' \in [open : BOOLEAN, ready : Calls]
    BY <1>0, <1>4, CallbackFields
  <2> QED
    BY <1>0, <1>4, <2>1 DEF RunCallback, TypeOK, Calls
<1>5. CASE LoopCloses
  BY <1>0, <1>5, EmptySeq DEF LoopCloses, TypeOK
<1>6. ASSUME NEW s \in Subscribers, NEW r \in Runs, Open(s, r) PROVE TypeOK'
  BY <1>0, <1>6, OpenFields DEF Open, TypeOK
<1>7. ASSUME NEW s \in Subscribers, Register(s) PROVE TypeOK'
  <2>1. stream[s].run \in Runs /\ s \notin Range(subs[stream[s].run])
    BY <1>7, RegisterReady DEF Register
  <2>2. /\ subs' \in [Runs -> Seq(Subscribers)] /\ \A q \in Runs : IsInjective(subs'[q])
        /\ stream' \in [Subscribers -> Stream]
    BY <1>0, <1>7, <2>1, RegisterFields
  <2> QED
    BY <1>0, <1>7, <2>2 DEF Register, TypeOK
<1>8. ASSUME NEW s \in Subscribers, Get(s) PROVE TypeOK'
  <2>1. stream[s].run \in Runs
    BY <1>8, GetSteps DEF Inv, BroadcastInv, StreamInv
  <2>2. stream' \in [Subscribers -> Stream]
    BY <1>0, <1>8, GetSteps, GetEventFields, GetEndFields
  <2>3. /\ subs' \in [Runs -> Seq(Subscribers)] /\ \A q \in Runs : IsInjective(subs'[q])
        /\ UNCHANGED <<feed, loop>>
    BY <1>0, <1>8, <2>1, GetSteps, UnregisterFields DEF TypeOK, Unregister
  <2> QED
    BY <1>0, <2>2, <2>3 DEF TypeOK
<1>9. ASSUME NEW s \in Subscribers, Sent(s) \/ Break(s) \/ Abandon(s) PROVE TypeOK'
  <2>1. stream' \in [Subscribers -> Stream]
    BY <1>0, <1>9, MoveFields DEF Sent, Break, Abandon
  <2> QED
    BY <1>0, <1>9, <2>1 DEF Sent, Break, Abandon, TypeOK
<1>10. ASSUME NEW s \in Subscribers, Leave(s) PROVE TypeOK'
  <2>1. stream[s].run \in Runs
    BY <1>10 DEF Leave, Inv, BroadcastInv, StreamInv
  <2>2. stream' \in [Subscribers -> Stream]
    BY <1>0, <1>10, MoveFields DEF Leave
  <2>3. /\ subs' \in [Runs -> Seq(Subscribers)] /\ \A q \in Runs : IsInjective(subs'[q])
        /\ UNCHANGED <<feed, loop>>
    BY <1>0, <1>10, <2>1, UnregisterFields DEF Leave, Unregister
  <2> QED
    BY <1>0, <2>2, <2>3 DEF TypeOK
<1>11. CASE UNCHANGED vars
  BY <1>0, <1>11 DEF vars, TypeOK
<1> QED
  BY <1>1, <1>2, <1>3, <1>4, <1>5, <1>6, <1>7, <1>8, <1>9, <1>10, <1>11 DEF Next

-----------------------------------------------------------------------------
\* A run's thread only adds events, and none after it closed.
LEMMA FeedGrows ==
  ASSUME Inv, [Next]_vars, NEW r \in Runs
  PROVE  /\ feed[r].n \in Nat /\ feed'[r].n \in Nat /\ feed[r].n <= feed'[r].n
         /\ feed[r].closed => feed'[r].closed /\ feed'[r].n = feed[r].n
<1>0. TypeOK /\ FeedInv /\ feed[r] \in Feed
  BY DEF Inv, BroadcastInv, TypeOK
<1>1. feed[r].n \in Nat
  BY <1>0, ScanBroadcasterAssumption DEF Feed
<1>2. ASSUME NEW q \in Runs, Publish(q)
      PROVE  \/ feed'[r] = feed[r]
             \/ ~feed[r].closed /\ feed'[r].n = feed[r].n + 1
  BY <1>0, <1>2, PublishFields DEF Publish
<1>3. ASSUME NEW q \in Runs, Close(q)
      PROVE  feed'[r] = feed[r] \/ (feed'[r].closed /\ feed'[r].n = feed[r].n)
  BY <1>0, <1>3, CloseFields DEF Close
<1>4. ASSUME NEW q \in Runs, Schedule(q)
      PROVE  feed'[r].n = feed[r].n /\ feed'[r].closed = feed[r].closed
  BY <1>0, <1>4, ScheduleFields DEF FeedInv
<1>5. ASSUME feed' = feed
      PROVE  feed'[r].n = feed[r].n /\ feed'[r].closed = feed[r].closed
  BY <1>5
<1>6. \/ feed' = feed
      \/ \E q \in Runs : Publish(q) \/ Close(q) \/ Schedule(q)
  BY DEF Next, RunCallback, LoopCloses, Open, Register, Get, Unregister, Sent, Break, Leave,
     Abandon, vars
<1> QED
  BY <1>1, <1>2, <1>3, <1>4, <1>5, <1>6

\* ItemInv of one item in the next state.
ItemNext(item, s) ==
    /\ item.run = stream'[s].run
    /\ item.n = None => feed'[item.run].closed
    /\ item.n <= feed'[item.run].n

\* So what a pending item says stays true, and it keeps its rank.
LEMMA ItemStays ==
  ASSUME Inv, [Next]_vars, NEW s \in Subscribers, NEW item \in Items, ItemInv(item, s),
         stream'[s].run = stream[s].run
  PROVE  /\ ItemNext(item, s)
         /\ Rank(item.run, item.n)' = Rank(item.run, item.n)
<1>1. item.run \in Runs /\ item.n \in Nat
  BY ScanBroadcasterAssumption DEF Items
<1>2. /\ feed[item.run].n \in Nat /\ feed'[item.run].n \in Nat
      /\ feed[item.run].n <= feed'[item.run].n
      /\ feed[item.run].closed => feed'[item.run].closed /\ feed'[item.run].n = feed[item.run].n
  BY <1>1, FeedGrows
<1> QED
  BY <1>1, <1>2 DEF ItemInv, ItemNext, Rank
-----------------------------------------------------------------------------
\* The invariant, part by part.

\* Where a step may take a subscriber: its place in the stream, and what it got.
LEMMA ListedStep ==
  ASSUME Inv, [Next]_vars
  PROVE  ListedWhileAlive'
<1> SUFFICES ASSUME NEW q \in Subscribers, NEW r \in Runs
             PROVE  q \in Range(subs'[r]) <=> stream'[q].pc \in Registered /\ stream'[q].run = r
  BY DEF ListedWhileAlive
<1>0. /\ TypeOK /\ (q \in Range(subs[r]) <=> stream[q].pc \in Registered /\ stream[q].run = r)
      /\ "waiting" \in Registered /\ "yielded" \in Registered /\ "leaving" \in Registered
      /\ {"idle", "opened", "ended", "left"} \cap Registered = {}
  BY DEF Inv, BroadcastInv, ListedWhileAlive, Registered
<1> DEFINE Concl == q \in Range(subs'[r]) <=> stream'[q].pc \in Registered /\ stream'[q].run = r
<1>1. ASSUME UNCHANGED subs, stream'[q].run = stream[q].run,
             stream'[q].pc \in Registered <=> stream[q].pc \in Registered
      PROVE  Concl
  BY <1>0, <1>1
<1>2. CASE UNCHANGED <<subs, stream>>
  BY <1>1, <1>2
<1>3. CASE RunCallback
  <2>1. stream'[q].run = stream[q].run /\ stream'[q].pc = stream[q].pc
    BY <1>0, <1>3, CallbackFields
  <2> QED
    BY <1>1, <1>3, <2>1 DEF RunCallback
<1>4. ASSUME NEW s \in Subscribers, NEW r0 \in Runs, Open(s, r0) PROVE Concl
  <2>1. CASE q = s
    <3>1. stream[q].pc = "idle" /\ stream'[q].pc = "opened" /\ UNCHANGED subs
      BY <1>0, <1>4, <2>1, OpenFields DEF Open
    <3> QED
      BY <1>0, <3>1
  <2>2. CASE q # s
    BY <1>0, <1>1, <1>4, <2>2, OpenFields DEF Open
  <2> QED
    BY <2>1, <2>2
<1>5. ASSUME NEW s \in Subscribers, Register(s) PROVE Concl
  <2>1. stream[s].run \in Runs /\ s \notin Range(subs[stream[s].run]) /\ stream[s].pc = "opened"
    BY <1>5, RegisterReady DEF Register
  <2>2. q \in Range(subs'[r]) <=> q \in Range(subs[r]) \/ (r = stream[s].run /\ q = s)
    <3>1. \A p \in Runs : \A t : t \in Range(subs'[p]) <=>
              t \in Range(subs[p]) \/ (p = stream[s].run /\ t = s)
      BY <1>0, <1>5, <2>1, RegisterFields
    <3> QED
      BY <3>1
  <2>3. stream'[s].pc = "waiting" /\ stream'[s].run = stream[s].run
    BY <1>0, <1>5, <2>1, RegisterFields
  <2>4. q # s => stream'[q] = stream[q]
    BY <1>0, <1>5, <2>1, RegisterFields
  <2> QED
    BY <1>0, <2>1, <2>2, <2>3, <2>4
<1>6. ASSUME NEW s \in Subscribers, Unregister(s), stream[s].pc \in Registered,
             stream'[s].pc \notin Registered, stream[s].run \in Runs,
             \A t \in Subscribers : t # s => stream'[t] = stream[t]
      PROVE  Concl
  <2>1. q \in Range(subs'[r]) <=> q \in Range(subs[r]) /\ ~(r = stream[s].run /\ q = s)
    BY <1>0, <1>6, UnregisterFields
  <2> QED
    BY <1>0, <1>6, <2>1
<1>7. ASSUME NEW s \in Subscribers, Get(s) PROVE Concl
  <2>0. stream[s].pc = "waiting" /\ stream[s].run \in Runs /\ stream[s].queue # <<>>
    BY <1>7, GetSteps DEF Inv, BroadcastInv, StreamInv
  <2>1. CASE stream' = [stream EXCEPT ![s].queue = Tail(stream[s].queue), ![s].pc = "ended"]
    <3>1. stream'[s].pc = "ended" /\ \A t \in Subscribers : t # s => stream'[t] = stream[t]
      BY <1>0, <2>0, <2>1, GetEndFields
    <3>2. Unregister(s)
      <4>1. stream' # [stream EXCEPT ![s].queue = Tail(stream[s].queue), ![s].pc = "yielded",
                                  ![s].got = Append(stream[s].got, Head(stream[s].queue))]
        BY <1>0, <2>0, <3>1, GetEventFields
      <4> QED
        BY <1>7, <4>1, GetSteps
    <3> QED
      BY <1>0, <1>6, <2>0, <3>1, <3>2
  <2>2. CASE /\ UNCHANGED <<subs, feed>>
             /\ stream' = [stream EXCEPT ![s].queue = Tail(stream[s].queue), ![s].pc = "yielded",
                                ![s].got = Append(stream[s].got, Head(stream[s].queue))]
    <3>1. /\ stream'[s].pc = "yielded" /\ stream'[s].run = stream[s].run
          /\ q # s => stream'[q] = stream[q]
      BY <1>0, <2>0, <2>2, GetEventFields
    <3> QED
      BY <1>0, <1>1, <2>0, <2>2, <3>1
  <2> QED
    BY <1>7, <2>1, <2>2, GetSteps
<1>8. ASSUME NEW s \in Subscribers, Sent(s) \/ Break(s) \/ Abandon(s) PROVE Concl
  <2>1. PICK pc \in {"waiting", "leaving", "left"} :
          /\ stream' = [stream EXCEPT ![s].pc = pc] /\ UNCHANGED subs
          /\ stream[s].pc \in Registered <=> pc \in Registered
    BY <1>0, <1>8 DEF Sent, Break, Abandon
  <2>2. Moved(s, pc)
    BY <1>0, <2>1, MoveFields
  <2> QED
    BY <1>1, <2>1, <2>2 DEF Moved
<1>9. ASSUME NEW s \in Subscribers, Leave(s) PROVE Concl
  <2>1. Moved(s, "left")
    BY <1>0, <1>9, MoveFields DEF Leave
  <2>2. stream[s].pc \in {"waiting", "leaving"} /\ stream[s].run \in Runs
    BY <1>9 DEF Leave, Inv, BroadcastInv, StreamInv
  <2> QED
    BY <1>0, <1>6, <1>9, <2>1, <2>2 DEF Leave, Moved
<1> QED
  BY <1>2, <1>3, <1>4, <1>5, <1>7, <1>8, <1>9 DEF Next, Publish, Close, Schedule, LoopCloses, vars

\* What a step may do to a subscriber: nothing, a step of its generator or its route,
\* or an item that arrives in its queue.
Untouched(q) ==
    /\ stream'[q].run = stream[q].run /\ stream'[q].queue = stream[q].queue
    /\ stream'[q].got = stream[q].got /\ stream'[q].from = stream[q].from
    /\ stream'[q].late = stream[q].late

Stays(q) == Untouched(q) /\ stream'[q].pc = stream[q].pc

RouteMoves(q) ==
    /\ Untouched(q) /\ loop.open /\ UNCHANGED <<feed, loop>>
    /\ \/ Sent(q) /\ stream'[q].pc = "waiting"
       \/ Break(q) /\ stream'[q].pc = "leaving"
       \/ (Abandon(q) \/ Leave(q)) /\ stream'[q].pc = "left"

Opens(q, r) ==
    /\ Open(q, r) /\ stream'[q].pc = "opened" /\ stream'[q].run = r
    /\ stream'[q].queue = stream[q].queue /\ stream'[q].got = stream[q].got
    /\ stream'[q].from = stream[q].from /\ stream'[q].late = stream[q].late

Registers(q) ==
    /\ Register(q) /\ stream'[q].pc = "waiting" /\ stream'[q].run = stream[q].run
    /\ stream'[q].queue = stream[q].queue /\ stream'[q].got = stream[q].got
    /\ stream'[q].from = feed[stream[q].run].n
    /\ stream'[q].late = feed[stream[q].run].closed

TakesEvent(q) ==
    /\ stream'[q].pc = "yielded" /\ stream[q].queue[1].n # None
    /\ stream'[q].got = Append(stream[q].got, stream[q].queue[1])
TakesEnd(q) ==
    /\ stream'[q].pc = "ended" /\ stream[q].queue[1].n = None
    /\ stream'[q].got = stream[q].got
Takes(q) ==
    /\ Get(q) /\ stream'[q].run = stream[q].run
    /\ stream'[q].queue = Tail(stream[q].queue)
    /\ stream'[q].from = stream[q].from /\ stream'[q].late = stream[q].late
    /\ TakesEvent(q) \/ TakesEnd(q)

Receives(q) ==
    /\ RunCallback /\ loop.ready[1][1] = q /\ stream'[q].pc = stream[q].pc
    /\ stream'[q].run = stream[q].run /\ stream'[q].got = stream[q].got
    /\ stream'[q].from = stream[q].from /\ stream'[q].late = stream[q].late
    /\ stream'[q].queue = Append(stream[q].queue, loop.ready[1][2])

Outcome(q) ==
    \/ Stays(q) \/ RouteMoves(q) \/ (\E r \in Runs : Opens(q, r))
    \/ Registers(q) \/ Takes(q) \/ Receives(q)

LEMMA SubscriberSteps ==
  ASSUME Inv, [Next]_vars, NEW q \in Subscribers
  PROVE  Outcome(q)
<1>0. TypeOK /\ \A s \in Subscribers : stream[s] \in Stream
  BY DEF Inv, TypeOK
<1>1. ASSUME stream'[q] = stream[q] PROVE Outcome(q)
  BY <1>1 DEF Stays, Untouched, Outcome
<1>2. CASE RunCallback
  <2>1. CASE loop.ready[1][1] = q
    <3>1. Receives(q)
      BY <1>0, <1>2, <2>1, CallbackFields DEF Receives
    <3> QED
      BY <3>1 DEF Outcome
  <2>2. CASE loop.ready[1][1] # q
    BY <1>0, <1>1, <1>2, <2>2, CallbackFields
  <2> QED
    BY <2>1, <2>2
<1>3. ASSUME NEW s \in Subscribers, NEW r \in Runs, Open(s, r) PROVE Outcome(q)
  <2>1. CASE s # q
    BY <1>0, <1>1, <1>3, <2>1, OpenFields
  <2>2. CASE s = q
    <3>1. Opens(q, r)
      BY <1>0, <1>3, <2>2, OpenFields DEF Opens
    <3> QED
      BY <3>1 DEF Outcome
  <2> QED
    BY <2>1, <2>2
<1>4. ASSUME NEW s \in Subscribers, Register(s) PROVE Outcome(q)
  <2>1. stream[s].run \in Runs /\ s \notin Range(subs[stream[s].run])
    BY <1>4, RegisterReady DEF Register
  <2>2. CASE s # q
    BY <1>0, <1>1, <1>4, <2>1, <2>2, RegisterFields
  <2>3. CASE s = q
    <3>1. Registers(q)
      BY <1>0, <1>4, <2>1, <2>3, RegisterFields DEF Registers
    <3> QED
      BY <3>1 DEF Outcome
  <2> QED
    BY <2>2, <2>3
<1>5. ASSUME NEW s \in Subscribers, Get(s) PROVE Outcome(q)
  <2>0. stream[s].queue # <<>> /\ Head(stream[s].queue) = stream[s].queue[1]
    <3>1. stream[s].queue # <<>> /\ stream[s].queue \in Seq(Items)
      BY <1>0, <1>5, GetSteps DEF Stream
    <3> QED
      BY <3>1, ListFacts
  <2>1. CASE /\ Head(stream[s].queue).n = None
             /\ stream' = [stream EXCEPT ![s].queue = Tail(stream[s].queue), ![s].pc = "ended"]
    <3>1. CASE s # q
      BY <1>0, <1>1, <2>0, <2>1, <3>1, GetEndFields
    <3>2. CASE s = q
      <4>1. Takes(q)
        BY <1>0, <1>5, <2>0, <2>1, <3>2, GetEndFields DEF Takes, TakesEnd
      <4> QED
        BY <4>1 DEF Outcome
    <3> QED
      BY <3>1, <3>2
  <2>2. CASE /\ Head(stream[s].queue).n # None
             /\ stream' = [stream EXCEPT ![s].queue = Tail(stream[s].queue), ![s].pc = "yielded",
                                ![s].got = Append(stream[s].got, Head(stream[s].queue))]
    <3>1. CASE s # q
      BY <1>0, <1>1, <2>0, <2>2, <3>1, GetEventFields
    <3>2. CASE s = q
      <4>1. Takes(q)
        BY <1>0, <1>5, <2>0, <2>2, <3>2, GetEventFields DEF Takes, TakesEvent
      <4> QED
        BY <4>1 DEF Outcome
    <3> QED
      BY <3>1, <3>2
  <2> QED
    BY <1>5, <2>1, <2>2, GetSteps
<1>6. ASSUME NEW s \in Subscribers, NEW pc \in {"waiting", "leaving", "left", "ended"},
             stream' = [stream EXCEPT ![s].pc = pc], loop.open, UNCHANGED <<feed, loop>>,
             \/ Sent(s) /\ pc = "waiting"
             \/ Break(s) /\ pc = "leaving"
             \/ (Abandon(s) \/ Leave(s)) /\ pc = "left"
      PROVE  Outcome(q)
  <2>1. Moved(s, pc)
    BY <1>0, <1>6, MoveFields
  <2>2. CASE s # q
    BY <1>1, <2>1, <2>2 DEF Moved
  <2>3. CASE s = q
    <3>1. Untouched(q) /\ stream'[q].pc = pc
      BY <2>1, <2>3 DEF Moved, Untouched
    <3>2. RouteMoves(q)
      BY <1>6, <2>3, <3>1 DEF RouteMoves
    <3> QED
      BY <3>2 DEF Outcome
  <2> QED
    BY <2>2, <2>3
<1>7. ASSUME NEW s \in Subscribers, Sent(s) PROVE Outcome(q)
  BY <1>6, <1>7 DEF Sent
<1>8. ASSUME NEW s \in Subscribers, Break(s) PROVE Outcome(q)
  BY <1>6, <1>8 DEF Break
<1>9. ASSUME NEW s \in Subscribers, Abandon(s) PROVE Outcome(q)
  BY <1>6, <1>9 DEF Abandon
<1>10. ASSUME NEW s \in Subscribers, Leave(s) PROVE Outcome(q)
  BY <1>6, <1>10 DEF Leave, Unregister
<1>11. ASSUME UNCHANGED stream PROVE Outcome(q)
  BY <1>1, <1>11
<1>12. ASSUME NEW r \in Runs, Publish(r) \/ Close(r) \/ Schedule(r) PROVE UNCHANGED stream
  BY <1>12 DEF Publish, Close, Schedule
<1>13. LoopCloses \/ UNCHANGED vars => UNCHANGED stream
  BY DEF LoopCloses, vars
<1> QED
  BY <1>2, <1>3, <1>4, <1>5, <1>7, <1>8, <1>9, <1>10, <1>11, <1>12, <1>13 DEF Next

\* The item a generator takes is the one that follows what it has handed on.
LEMMA HeadOfQueue ==
  ASSUME Inv, NEW q \in Subscribers, Get(q)
  PROVE  /\ stream[q].queue[1] \in Items
         /\ stream[q].run \in Runs
         /\ ItemInv(stream[q].queue[1], q)
         /\ Rank(stream[q].run, stream[q].queue[1].n) = stream[q].from + Len(stream[q].got) + 1
         /\ stream[q].from \in Nat /\ Len(stream[q].got) \in Nat
         /\ Len(stream[q].queue) \in Nat /\ Len(stream[q].queue) > 0
<1>1. /\ stream[q].queue \in Seq(Items) /\ stream[q].got \in Seq(Items)
      /\ stream[q].from \in 0..MaxEvents
  BY DEF Inv, TypeOK, Stream
<1>2. /\ loop.open /\ stream[q].pc \in Registered /\ stream[q].queue # <<>>
      /\ stream[q].pc # "idle"
  BY DEF Get, Registered
<1>3. /\ Len(stream[q].queue) \in Nat /\ Len(stream[q].queue) > 0
      /\ 1 \in DOMAIN stream[q].queue
      /\ Len(stream[q].got) \in Nat /\ stream[q].from \in Nat
  BY <1>1, <1>2, ListFacts, ScanBroadcasterAssumption
<1>4. stream[q].queue[1] \in Items
  BY <1>1, <1>3, ElementOfSeq
<1>5. StreamInv(q) /\ PipeInv(q)
  BY <1>2 DEF Inv, BroadcastInv
<1>6. stream[q].run \in Runs /\ ItemInv(stream[q].queue[1], q)
  BY <1>2, <1>3, <1>5 DEF StreamInv
<1>7. Rank(stream[q].run, stream[q].queue[1].n) = stream[q].from + Len(stream[q].got) + 1
  BY <1>3, <1>5 DEF PipeInv
<1> QED
  BY <1>3, <1>4, <1>6, <1>7

LEMMA NothingStep ==
  ASSUME Inv, [Next]_vars
  PROVE  NothingMissedOrRepeated'
<1> DEFINE Whole(s) == \A i \in DOMAIN stream[s].got :
                          stream[s].got[i] = [run |-> stream[s].run, n |-> stream[s].from + i]
<1> SUFFICES ASSUME NEW q \in Subscribers PROVE Whole(q)'
  BY DEF NothingMissedOrRepeated
<1>1. Whole(q) /\ StreamInv(q) /\ stream[q].got \in Seq(Items)
  BY DEF Inv, BroadcastInv, NothingMissedOrRepeated, TypeOK, Stream
<1>2. ASSUME Untouched(q) PROVE Whole(q)'
  BY <1>1, <1>2 DEF Untouched
<1>3. ASSUME stream'[q].got = <<>> PROVE Whole(q)'
  BY <1>3
<1>4. ASSUME stream'[q].got = stream[q].got, stream'[q].run = stream[q].run,
             stream'[q].from = stream[q].from
      PROVE  Whole(q)'
  BY <1>1, <1>4
<1>5. ASSUME Takes(q), TakesEvent(q) PROVE Whole(q)'
  <2> DEFINE item == stream[q].queue[1]
             n == Len(stream[q].got)
  <2>1. Get(q) /\ stream'[q].run = stream[q].run /\ stream'[q].from = stream[q].from
        /\ item.n # None /\ stream'[q].got = Append(stream[q].got, item)
    BY <1>5 DEF Takes, TakesEvent
  <2>2. /\ item \in Items /\ item.run = stream[q].run /\ item.n = stream[q].from + n + 1
        /\ n \in Nat /\ stream[q].from \in Nat
    BY <2>1, HeadOfQueue DEF ItemInv, Rank
  <2>3. item = [run |-> stream[q].run, n |-> stream[q].from + (n + 1)]
    BY <2>2 DEF Items
  <2>4. /\ DOMAIN stream'[q].got = 1..(n + 1) /\ DOMAIN stream[q].got = 1..n
        /\ stream'[q].got[n + 1] = item
        /\ \A i \in 1..n : stream'[q].got[i] = stream[q].got[i]
    BY <1>1, <2>1, <2>2, AppendProperties, LenProperties
  <2> HIDE DEF item, n
  <2>5. \A i \in 1..(n + 1) : i = n + 1 \/ i \in 1..n
    BY <2>2
  <2> QED
    BY <1>1, <2>1, <2>3, <2>4, <2>5
<1> HIDE DEF Whole
<1>6. CASE Registers(q) \/ (\E r \in Runs : Opens(q, r))
  <2>1. stream[q].pc \in {"idle", "opened"} /\ stream'[q].got = stream[q].got
    BY <1>6 DEF Registers, Opens, Register, Open
  <2> QED
    BY <1>1, <1>3, <2>1 DEF StreamInv
<1>7. CASE Takes(q)
  BY <1>4, <1>5, <1>7 DEF Takes, TakesEnd
<1>8. CASE Receives(q)
  BY <1>4, <1>8 DEF Receives
<1>9. CASE Stays(q) \/ RouteMoves(q)
  BY <1>2, <1>9 DEF Stays, RouteMoves
<1> QED
  BY <1>6, <1>7, <1>8, <1>9, SubscriberSteps DEF Outcome

\* What the thread of a run still has to hand over goes to queues of its own run that
\* registered in time.
LEMMA FeedStep ==
  ASSUME Inv, [Next]_vars
  PROVE  FeedInv'
<1> DEFINE Served(s, r) == /\ stream[s].run = r /\ ~stream[s].late
                           /\ stream[s].pc \notin {"idle", "opened"}
<1>0. TypeOK /\ FeedInv /\ ListedWhileAlive /\ \A s \in Subscribers : StreamInv(s)
  BY DEF Inv, BroadcastInv
<1> SUFFICES ASSUME NEW r \in Runs
             PROVE  /\ IsInjective(feed'[r].todo)
                    /\ feed'[r].todo # <<>> => feed'[r].n > 0
                    /\ \A s \in Range(feed'[r].todo) : Served(s, r)'
  BY DEF FeedInv
<1>1. /\ feed[r] \in Feed /\ feed[r].todo \in Lists /\ subs[r] \in Lists
      /\ feed[r].n \in Nat /\ IsInjective(subs[r])
      /\ IsInjective(feed[r].todo)
      /\ feed[r].todo # <<>> => feed[r].n > 0
      /\ \A s \in Range(feed[r].todo) : Served(s, r)
  BY <1>0, ScanBroadcasterAssumption DEF TypeOK, FeedInv, Feed, Lists
<1>2. \A list \in Lists : Range(list) \subseteq Subscribers
  BY RangeEquality, ElementOfSeq DEF Lists
<1>3. ASSUME NEW s \in Subscribers, Served(s, r) PROVE Served(s, r)'
  BY <1>3, SubscriberSteps DEF Outcome, Stays, Untouched, RouteMoves, Opens, Open, Registers,
     Register, Takes, TakesEvent, TakesEnd, Receives
<1> HIDE DEF Served
<1>4. ASSUME feed'[r] = feed[r]
      PROVE  /\ IsInjective(feed'[r].todo)
             /\ feed'[r].todo # <<>> => feed'[r].n > 0
             /\ \A s \in Range(feed'[r].todo) : Served(s, r)'
  BY <1>1, <1>2, <1>3, <1>4
<1>5. ASSUME ~feed[r].closed, NEW s \in Range(subs[r]) PROVE Served(s, r)
  <2>1. s \in Subscribers /\ stream[s].run = r /\ stream[s].pc \in Registered
    BY <1>0, <1>1, <1>2 DEF ListedWhileAlive
  <2>2. ~stream[s].late /\ stream[s].pc \notin {"idle", "opened"}
    BY <1>0, <1>5, <2>1 DEF StreamInv, Registered
  <2> QED
    BY <2>1, <2>2 DEF Served
<1>6. ASSUME NEW q \in Runs, Publish(q) \/ Close(q)
      PROVE  /\ IsInjective(feed'[r].todo)
             /\ feed'[r].todo # <<>> => feed'[r].n > 0
             /\ \A s \in Range(feed'[r].todo) : Served(s, r)'
  <2>1. CASE q # r
    BY <1>0, <1>4, <1>6, <2>1, PublishFields, CloseFields
  <2>2. CASE q = r
    <3>1. feed'[r].todo = subs[r] /\ ~feed[r].closed
      BY <1>0, <1>6, <2>2, PublishFields, CloseFields DEF Publish, Close
    <3>2. CASE Publish(q)
      <4>1. feed'[r].n = feed[r].n + 1
        BY <1>0, <2>2, <3>2, PublishFields
      <4> QED
        BY <1>1, <1>2, <1>3, <1>5, <3>1, <4>1
    <3>3. CASE Close(q)
      <4>1. feed'[r].n = feed[r].n /\ feed[r].n > 0
        BY <1>0, <2>2, <3>3, CloseFields DEF Close
      <4> QED
        BY <1>1, <1>2, <1>3, <1>5, <3>1, <4>1
    <3> QED
      BY <1>6, <3>2, <3>3
  <2> QED
    BY <2>1, <2>2
<1>7. ASSUME NEW q \in Runs, Schedule(q)
      PROVE  /\ IsInjective(feed'[r].todo)
             /\ feed'[r].todo # <<>> => feed'[r].n > 0
             /\ \A s \in Range(feed'[r].todo) : Served(s, r)'
  <2>0. IsInjective(feed[q].todo)
    BY <1>0 DEF FeedInv
  <2>1. CASE q # r
    BY <1>0, <1>4, <1>7, <2>0, <2>1, ScheduleFields
  <2>2. CASE q = r
    <3>1. /\ feed'[r].todo = Tail(feed[r].todo) /\ feed'[r].n = feed[r].n
          /\ feed[r].todo # <<>>
      BY <1>0, <1>7, <2>0, <2>2, ScheduleFields DEF Schedule
    <3> QED
      BY <1>1, <1>2, <1>3, <3>1, TailFacts
  <2> QED
    BY <2>1, <2>2
<1>8. \/ feed' = feed
      \/ \E q \in Runs : Publish(q) \/ Close(q) \/ Schedule(q)
  BY DEF Next, RunCallback, LoopCloses, Open, Register, Get, Unregister, Sent, Break, Leave,
     Abandon, vars
<1> QED
  BY <1>4, <1>6, <1>7, <1>8

\* What the queue of a subscriber and the pending callbacks carry stays true.
LEMMA StreamStep ==
  ASSUME Inv, [Next]_vars, NEW q \in Subscribers
  PROVE  StreamInv(q)'
<1>0. /\ TypeOK /\ StreamInv(q) /\ stream[q] \in Stream
      /\ stream[q].queue \in Seq(Items)
  BY DEF Inv, BroadcastInv, TypeOK, Stream
<1>1. DOMAIN stream[q].queue = 1..Len(stream[q].queue) /\ Len(stream[q].queue) \in Nat
      /\ \A i \in 1..Len(stream[q].queue) : stream[q].queue[i] \in Items
  BY <1>0, ListFacts, ElementOfSeq
<1>2. \A r \in Runs : feed[r].closed => feed'[r].closed
  BY FeedGrows
<1>3. ASSUME stream'[q].run = stream[q].run, NEW i \in 1..Len(stream[q].queue)
      PROVE  ItemNext(stream[q].queue[i], q)
  <2>1. stream[q].queue[i] \in Items /\ ItemInv(stream[q].queue[i], q)
    BY <1>0, <1>1 DEF StreamInv
  <2> QED
    BY <1>3, <2>1, ItemStays
<1>a. /\ stream'[q].pc \in {"idle", "opened"} =>
           stream'[q].queue = <<>> /\ stream'[q].got = <<>> /\ ~stream'[q].late
      /\ stream'[q].pc # "idle" => stream'[q].run \in Runs
      /\ stream'[q].late => feed'[stream'[q].run].closed
      /\ \A i \in DOMAIN stream'[q].queue : ItemNext(stream'[q].queue[i], q)
      => StreamInv(q)'
  BY DEF StreamInv, ItemInv, ItemNext
<1>4. ASSUME Untouched(q),
             \/ stream'[q].pc \notin {"idle", "opened"} /\ stream[q].pc # "idle"
             \/ stream'[q].pc = stream[q].pc
      PROVE  StreamInv(q)'
  BY <1>0, <1>1, <1>2, <1>3, <1>4, <1>a DEF Untouched, StreamInv
<1>5. ASSUME NEW r \in Runs, Opens(q, r) PROVE StreamInv(q)'
  <2>1. stream[q].pc = "idle"
    BY <1>5 DEF Opens, Open
  <2>2. stream'[q].queue = <<>> /\ stream'[q].got = <<>> /\ ~stream'[q].late
    BY <1>0, <1>5, <2>1 DEF Opens, StreamInv
  <2> QED
    BY <1>5, <1>a, <2>2 DEF Opens
<1>6. CASE Registers(q)
  <2>1. /\ stream[q].pc = "opened" /\ stream[q].run \in Runs /\ stream[q].queue = <<>>
        /\ UNCHANGED feed
    BY <1>0, <1>6 DEF Registers, Register, StreamInv
  <2> QED
    BY <1>6, <1>a, <2>1 DEF Registers
<1>7. CASE Takes(q)
  <2>1. /\ stream[q].pc = "waiting" /\ stream'[q].pc \notin {"idle", "opened"}
        /\ stream[q].queue # <<>>
        /\ stream'[q].run = stream[q].run /\ stream'[q].queue = Tail(stream[q].queue)
        /\ stream'[q].late = stream[q].late
    BY <1>7 DEF Takes, TakesEvent, TakesEnd, Get
  <2>2. /\ Len(Tail(stream[q].queue)) = Len(stream[q].queue) - 1
        /\ Tail(stream[q].queue) \in Seq(Items)
        /\ \A i \in 1..(Len(stream[q].queue) - 1) : Tail(stream[q].queue)[i] = stream[q].queue[i + 1]
    BY <1>0, <2>1, HeadTailProperties
  <2>3. DOMAIN Tail(stream[q].queue) = 1..(Len(stream[q].queue) - 1)
    BY <2>2, ListFacts
  <2>4. ASSUME NEW i \in 1..(Len(stream[q].queue) - 1)
        PROVE  ItemNext(stream'[q].queue[i], q)
    <3>1. i + 1 \in 1..Len(stream[q].queue) /\ stream'[q].queue[i] = stream[q].queue[i + 1]
      BY <1>1, <2>1, <2>2
    <3>2. ItemNext(stream[q].queue[i + 1], q)
      BY <1>3, <2>1, <3>1
    <3> QED
      BY <3>1, <3>2
  <2> QED
    BY <1>0, <1>2, <1>a, <2>1, <2>3, <2>4 DEF StreamInv
<1>8. CASE Receives(q)
  <2> DEFINE item == loop.ready[1][2]
  <2>1. /\ loop.ready \in Calls /\ loop.ready # <<>> /\ loop.ready[1][1] = q
    BY <1>0, <1>8 DEF Receives, RunCallback, TypeOK, Calls
  <2>2. 1 \in DOMAIN loop.ready /\ loop.ready[1] \in Subscribers \X Items
    BY <2>1, ListFacts, ElementOfSeq DEF Calls
  <2>3. item \in Items /\ ItemInv(item, q) /\ stream[q].pc \notin {"idle", "opened"}
    BY <2>1, <2>2 DEF Inv, BroadcastInv, ReadyInv
  <2>4. /\ stream'[q].pc = stream[q].pc /\ stream'[q].run = stream[q].run
        /\ stream'[q].late = stream[q].late
        /\ stream'[q].queue = Append(stream[q].queue, item)
    BY <1>8 DEF Receives
  <2> HIDE DEF item
  <2>5. ItemNext(item, q)
    BY <2>3, <2>4, ItemStays
  <2>6. /\ DOMAIN stream'[q].queue = 1..(Len(stream[q].queue) + 1)
        /\ stream'[q].queue[Len(stream[q].queue) + 1] = item
        /\ \A i \in 1..Len(stream[q].queue) : stream'[q].queue[i] = stream[q].queue[i]
    BY <1>0, <1>1, <2>3, <2>4, AppendProperties, LenProperties
  <2>7. \A i \in 1..(Len(stream[q].queue) + 1) :
           i \in 1..Len(stream[q].queue) \/ i = Len(stream[q].queue) + 1
    BY <1>1
  <2>8. \A i \in DOMAIN stream'[q].queue : ItemNext(stream'[q].queue[i], q)
    BY <1>3, <2>4, <2>5, <2>6, <2>7
  <2> QED
    BY <1>0, <1>2, <1>a, <2>3, <2>4, <2>8 DEF StreamInv
<1>9. CASE Stays(q)
  BY <1>4, <1>9 DEF Stays
<1>10. CASE RouteMoves(q)
  BY <1>4, <1>10 DEF RouteMoves, Sent, Break, Abandon, Leave
<1> QED
  BY <1>5, <1>6, <1>7, <1>8, <1>9, <1>10, SubscriberSteps DEF Outcome

\* A callback is pending for a subscriber that was already registered.
LEMMA CallStays ==
  ASSUME Inv, [Next]_vars, NEW call \in Subscribers \X Items,
         stream[call[1]].pc \notin {"idle", "opened"}, ItemInv(call[2], call[1])
  PROVE  stream'[call[1]].pc \notin {"idle", "opened"} /\ ItemNext(call[2], call[1])
<1> DEFINE s == call[1]
<1>1. s \in Subscribers /\ call[2] \in Items
  OBVIOUS
<1> HIDE DEF s
<1>2. stream[s].pc \notin {"idle", "opened"}
  BY DEF s
<1>3. stream'[s].pc \notin {"idle", "opened"} /\ stream'[s].run = stream[s].run
  BY <1>1, <1>2, SubscriberSteps DEF Outcome, Stays, Untouched, RouteMoves, Opens, Open, Registers,
     Register, Takes, TakesEvent, TakesEnd, Receives
<1> QED
  BY <1>1, <1>3, ItemStays DEF s

\* How a step changes the pending callbacks: it drops the first, adds one, or drops all.
LEMMA ReadySteps ==
  ASSUME Inv, [Next]_vars
  PROVE  \/ UNCHANGED loop
         \/ RunCallback
         \/ \E r \in Runs : Schedule(r) /\ loop.open
         \/ LoopCloses
  BY DEF Next, Publish, Close, Schedule, Open, Register, Get, Sent, Break, Leave, Abandon, vars

\* What Schedule hands over: the newest announcement of the run, to the next on the list.
LEMMA Handover ==
  ASSUME Inv, NEW r \in Runs, Schedule(r)
  PROVE  LET s == Head(feed[r].todo) IN
         /\ s \in Subscribers /\ s \in Range(feed[r].todo)
         /\ stream[s].run = r /\ ~stream[s].late /\ stream[s].pc \notin {"idle", "opened"}
         /\ Item(r) \in Items /\ ItemInv(Item(r), s)
         /\ Rank(r, Item(r).n) = Announced(r)
         /\ Announced(r) \in Nat
<1>1. /\ feed[r] \in Feed /\ feed[r].todo \in Lists /\ IsInjective(feed[r].todo)
      /\ feed[r].todo # <<>> /\ feed[r].n > 0 /\ feed[r].n \in 0..MaxEvents
      /\ \A s \in Range(feed[r].todo) : stream[s].run = r /\ ~stream[s].late
                                        /\ stream[s].pc \notin {"idle", "opened"}
  BY DEF Inv, BroadcastInv, TypeOK, FeedInv, Feed, Lists, Schedule
<1>2. /\ Head(feed[r].todo) \in Subscribers /\ Head(feed[r].todo) \in Range(feed[r].todo)
  BY <1>1, TailFacts
<1> DEFINE s == Head(feed[r].todo)
<1> HIDE DEF s
<1>3. feed[r].closed \in BOOLEAN
  BY <1>1 DEF Feed
<1>4. Item(r) \in Items /\ Item(r).run = r
      /\ Item(r).n = IF feed[r].closed THEN 0 ELSE feed[r].n
  BY <1>1, <1>3, ScanBroadcasterAssumption DEF Item, Items, None
<1>5. Rank(r, Item(r).n) = Announced(r) /\ Announced(r) \in Nat
  BY <1>1, <1>3, <1>4, ScanBroadcasterAssumption DEF Rank, Announced, None
<1>6. stream[s].run = r => ItemInv(Item(r), s)
  BY <1>1, <1>3, <1>4, ScanBroadcasterAssumption DEF ItemInv, None
<1> QED
  BY <1>1, <1>2, <1>4, <1>5, <1>6 DEF s

LEMMA ReadyStep ==
  ASSUME Inv, [Next]_vars
  PROVE  ReadyInv'
<1> DEFINE Good(call) == stream[call[1]].pc \notin {"idle", "opened"} /\ ItemInv(call[2], call[1])
           GoodNext(call) ==
              stream'[call[1]].pc \notin {"idle", "opened"} /\ ItemNext(call[2], call[1])
<1>0. TypeOK /\ FeedInv /\ ReadyInv
  BY DEF Inv, BroadcastInv
<1>1. /\ loop.ready \in Calls /\ Len(loop.ready) \in Nat
      /\ DOMAIN loop.ready = 1..Len(loop.ready)
      /\ \A i \in 1..Len(loop.ready) : loop.ready[i] \in Subscribers \X Items
                                       /\ Good(loop.ready[i])
  <2>1. loop.ready \in Calls
    BY <1>0 DEF TypeOK, Calls
  <2> QED
    BY <1>0, <2>1, ListFacts, ElementOfSeq DEF Calls, ReadyInv
<1>2. \A call \in Subscribers \X Items : Good(call) => GoodNext(call)
  BY CallStays
<1> SUFFICES ASSUME NEW j \in DOMAIN loop'.ready PROVE GoodNext(loop'.ready[j])
  BY DEF ReadyInv, ItemInv, ItemNext
<1> HIDE DEF Good, GoodNext
<1>3. CASE UNCHANGED loop
  BY <1>1, <1>2, <1>3
<1>4. CASE RunCallback
  <2>1. /\ loop'.ready \in Calls /\ Len(loop'.ready) = Len(loop.ready) - 1
        /\ \A i \in 1..(Len(loop.ready) - 1) : loop'.ready[i] = loop.ready[i + 1]
    BY <1>0, <1>4, CallbackFields
  <2>2. j \in 1..(Len(loop.ready) - 1) /\ j + 1 \in 1..Len(loop.ready)
    BY <1>1, <2>1, ListFacts DEF Calls
  <2> QED
    BY <1>1, <1>2, <2>1, <2>2
<1>5. ASSUME NEW r \in Runs, Schedule(r), loop.open PROVE GoodNext(loop'.ready[j])
  <2> DEFINE call == <<Head(feed[r].todo), Item(r)>>
  <2>1. loop'.ready = Append(loop.ready, call) /\ call \in Subscribers \X Items
    BY <1>0, <1>5, ScheduleFields DEF FeedInv
  <2>2. Good(call)
    BY <1>5, Handover DEF Good
  <2> HIDE DEF call
  <2>3. /\ DOMAIN loop'.ready = 1..(Len(loop.ready) + 1)
        /\ loop'.ready[Len(loop.ready) + 1] = call
        /\ \A i \in 1..Len(loop.ready) : loop'.ready[i] = loop.ready[i]
    BY <1>1, <2>1, AppendProperties, LenProperties DEF Calls
  <2>4. j \in 1..Len(loop.ready) \/ j = Len(loop.ready) + 1
    BY <1>1, <2>3
  <2> QED
    BY <1>1, <1>2, <2>1, <2>2, <2>3, <2>4
<1>6. CASE LoopCloses
  <2>1. loop'.ready = <<>>
    BY <1>6 DEF LoopCloses
  <2> QED
    BY <2>1
<1> QED
  BY <1>3, <1>4, <1>5, <1>6, ReadySteps

-----------------------------------------------------------------------------
\* The pipe of a subscriber.

\* A climb goes on when a number is added at its end, unless it is not of the climb.
LEMMA ClimbsOn ==
  ASSUME NEW L \in Nat, NEW old \in [1..L -> Nat], NEW new \in [1..(L + 1) -> Nat],
         NEW low \in Nat, NEW high \in Nat, Climbs(old, low, high),
         \A j \in 1..L : new[j] = old[j]
  PROVE  /\ new[L + 1] = 0 => Climbs(new, low, high)
         /\ new[L + 1] = high + 1 => Climbs(new, low, high + 1)
<1>1. /\ low <= high
      /\ \A j \in 1..L : old[j] # 0 => old[j] > low /\ old[j] <= high
      /\ \A i, j \in 1..L : i < j /\ old[i] # 0 /\ old[j] # 0 => old[i] < old[j]
      /\ \A n \in (low + 1)..high : \E j \in 1..L : old[j] = n
  BY DEF Climbs
<1>2. DOMAIN new = 1..(L + 1) /\ \A j \in 1..(L + 1) : j \in 1..L \/ j = L + 1
  OBVIOUS
<1>3. \A j \in 1..L : j \in 1..(L + 1) /\ j < L + 1
  OBVIOUS
<1>4. ASSUME new[L + 1] = 0 PROVE Climbs(new, low, high)
  <2>1. \A j \in 1..(L + 1) : new[j] # 0 => new[j] > low /\ new[j] <= high
    BY <1>1, <1>2, <1>4
  <2>2. \A i, j \in 1..(L + 1) : i < j /\ new[i] # 0 /\ new[j] # 0 => new[i] < new[j]
    BY <1>1, <1>2, <1>4
  <2>3. \A n \in (low + 1)..high : \E j \in 1..(L + 1) : new[j] = n
    BY <1>1, <1>3
  <2> QED
    BY <1>1, <1>2, <2>1, <2>2, <2>3 DEF Climbs
<1>5. ASSUME new[L + 1] = high + 1 PROVE Climbs(new, low, high + 1)
  <2>1. \A j \in 1..(L + 1) : new[j] # 0 => new[j] > low /\ new[j] <= high + 1
    BY <1>1, <1>2, <1>5
  <2>2. \A i, j \in 1..(L + 1) : i < j /\ new[i] # 0 /\ new[j] # 0 => new[i] < new[j]
    <3> TAKE i, j \in 1..(L + 1)
    <3> HAVE i < j /\ new[i] # 0 /\ new[j] # 0
    <3>1. i \in 1..L /\ new[i] <= high
      BY <1>1
    <3>2. CASE j = L + 1
      BY <1>5, <3>1, <3>2
    <3>3. CASE j \in 1..L
      BY <1>1, <3>1, <3>3
    <3> QED
      BY <1>2, <3>2, <3>3
  <2>3. ASSUME NEW n \in (low + 1)..(high + 1) PROVE \E j \in 1..(L + 1) : new[j] = n
    <3>1. n = high + 1 \/ n \in (low + 1)..high
      OBVIOUS
    <3>2. L + 1 \in 1..(L + 1)
      OBVIOUS
    <3> QED
      BY <1>1, <1>3, <1>5, <3>1, <3>2
  <2> QED
    BY <1>1, <1>2, <2>1, <2>2, <2>3 DEF Climbs
<1> QED
  BY <1>4, <1>5

\* The first number of a climb is its lowest; without it the rest climbs from there.
LEMMA ClimbsFrom ==
  ASSUME NEW L \in Nat, NEW old \in [1..(L + 1) -> Nat], NEW new \in [1..L -> Nat],
         NEW low \in Nat, NEW high \in Nat, Climbs(old, low, high),
         \A j \in 1..L : new[j] = old[j + 1]
  PROVE  /\ old[1] = 0 => Climbs(new, low, high)
         /\ old[1] # 0 => old[1] = low + 1 /\ Climbs(new, low + 1, high)
<1>1. /\ low <= high
      /\ \A j \in 1..(L + 1) : old[j] # 0 => old[j] > low /\ old[j] <= high
      /\ \A i, j \in 1..(L + 1) : i < j /\ old[i] # 0 /\ old[j] # 0 => old[i] < old[j]
      /\ \A n \in (low + 1)..high : \E j \in 1..(L + 1) : old[j] = n
  BY DEF Climbs
<1>2. \A j \in 1..L : j + 1 \in 1..(L + 1) /\ 1 < j + 1
  OBVIOUS
<1>3. \A j \in 1..(L + 1) : j # 1 => j - 1 \in 1..L /\ new[j - 1] = old[j]
  OBVIOUS
<1>4. \A i, j \in 1..L : i < j /\ new[i] # 0 /\ new[j] # 0 => new[i] < new[j]
  <2> TAKE i, j \in 1..L
  <2>1. i + 1 \in 1..(L + 1) /\ j + 1 \in 1..(L + 1) /\ (i < j => i + 1 < j + 1)
    OBVIOUS
  <2> QED
    BY <1>1, <2>1
<1>5. ASSUME old[1] = 0 PROVE Climbs(new, low, high)
  <2>1. \A j \in 1..L : new[j] # 0 => new[j] > low /\ new[j] <= high
    BY <1>1, <1>2
  <2>2. ASSUME NEW n \in (low + 1)..high PROVE \E j \in 1..L : new[j] = n
    <3>1. PICK j \in 1..(L + 1) : old[j] = n
      BY <1>1
    <3>2. j # 1
      BY <1>5, <3>1
    <3> QED
      BY <1>3, <3>1, <3>2
  <2> QED
    BY <1>1, <1>4, <2>1, <2>2 DEF Climbs
<1>6. ASSUME old[1] # 0 PROVE old[1] = low + 1 /\ Climbs(new, low + 1, high)
  <2>0. 1 \in 1..(L + 1) /\ old[1] \in Nat
    OBVIOUS
  <2>1. old[1] > low /\ old[1] <= high
    BY <1>1, <1>6, <2>0
  <2>2. PICK k \in 1..(L + 1) : old[k] = low + 1
    <3>1. low + 1 \in (low + 1)..high
      BY <2>0, <2>1
    <3> QED
      BY <1>1, <3>1
  <2>3. old[1] = low + 1
    <3>1. CASE k = 1
      BY <2>2, <3>1
    <3>2. CASE k # 1
      <4>1. old[1] < old[k]
        BY <1>1, <1>6, <2>0, <2>2, <3>2
      <4> QED
        BY <2>0, <2>1, <2>2, <4>1
    <3> QED
      BY <3>1, <3>2
  <2>4. \A j \in 1..L : new[j] # 0 => new[j] > low + 1 /\ new[j] <= high
    BY <1>1, <1>2, <1>6, <2>0, <2>3
  <2>5. ASSUME NEW n \in (low + 1 + 1)..high PROVE \E j \in 1..L : new[j] = n
    <3>1. PICK j \in 1..(L + 1) : old[j] = n
      BY <1>1
    <3>2. j # 1
      BY <2>3, <3>1
    <3> QED
      BY <1>3, <3>1, <3>2
  <2> QED
    BY <1>4, <2>0, <2>1, <2>3, <2>4, <2>5 DEF Climbs
<1> QED
  BY <1>5, <1>6

LEMMA LowestFirst ==
  ASSUME NEW L \in Nat, NEW old \in [1..(L + 1) -> Nat],
         NEW low \in Nat, NEW high \in Nat, Climbs(old, low, high)
  PROVE  old[1] # 0 => old[1] = low + 1
<1> DEFINE new == [j \in 1..L |-> old[j + 1]]
<1>1. new \in [1..L -> Nat] /\ \A j \in 1..L : new[j] = old[j + 1]
  OBVIOUS
<1> HIDE DEF new
<1> QED
  BY <1>1, ClimbsFrom

\* A list is longer than its tail.
LEMMA TailDiffers ==
  ASSUME NEW list \in Lists, list # <<>>
  PROVE  Tail(list) # list
<1>1. Len(list) \in Nat /\ Len(Tail(list)) = Len(list) - 1
  BY HeadTailProperties, ListFacts DEF Lists
<1> DEFINE rest == Tail(list)
<1>2. Len(rest) = Len(list) - 1
  BY <1>1
<1> HIDE DEF rest
<1>3. rest # list
  BY <1>1, <1>2
<1> QED
  BY <1>3 DEF rest

PipeTyped ==
    \A s \in Subscribers :
        /\ Len(loop.ready) \in Nat /\ Pending(s) \in [1..Len(loop.ready) -> Nat]
        /\ \A j \in 1..Len(loop.ready) : Pending(s)[j] = 0 <=> loop.ready[j][1] # s
        /\ stream[s].from \in Nat /\ Len(stream[s].got) \in Nat /\ Len(stream[s].queue) \in Nat
        /\ stream[s].run \in Runs => Due(s) \in Nat

LEMMA PipeTypes == TypeOK /\ FeedInv => PipeTyped
<1> SUFFICES ASSUME TypeOK, FeedInv, NEW s \in Subscribers
             PROVE  /\ Len(loop.ready) \in Nat /\ Pending(s) \in [1..Len(loop.ready) -> Nat]
                    /\ \A j \in 1..Len(loop.ready) : Pending(s)[j] = 0 <=> loop.ready[j][1] # s
                    /\ stream[s].from \in Nat /\ Len(stream[s].got) \in Nat
                    /\ Len(stream[s].queue) \in Nat
                    /\ stream[s].run \in Runs => Due(s) \in Nat
  BY DEF PipeTyped
<1>1. loop.ready \in Calls /\ stream[s] \in Stream /\ \A r \in Runs : feed[r] \in Feed
  BY DEF TypeOK, Calls
<1>2. /\ Len(loop.ready) \in Nat /\ DOMAIN loop.ready = 1..Len(loop.ready)
      /\ \A j \in 1..Len(loop.ready) : loop.ready[j] \in Subscribers \X Items
  BY <1>1, ListFacts, ElementOfSeq DEF Calls
<1>3. \A r \in Runs : feed[r].n \in Nat /\ feed[r].closed \in BOOLEAN
  BY <1>1, ScanBroadcasterAssumption DEF Feed
<1>4. \A item \in Items : Rank(item.run, item.n) \in Nat /\ Rank(item.run, item.n) # 0
  BY <1>3, ScanBroadcasterAssumption DEF Rank, Items, None
<1>5. \A j \in 1..Len(loop.ready) :
         /\ Pending(s)[j] \in Nat
         /\ Pending(s)[j] = 0 <=> loop.ready[j][1] # s
  BY <1>2, <1>4 DEF Pending
<1>6. Pending(s) \in [1..Len(loop.ready) -> Nat]
  BY <1>2, <1>5 DEF Pending
<1>7. stream[s].from \in Nat /\ Len(stream[s].got) \in Nat /\ Len(stream[s].queue) \in Nat
  BY <1>1, LenProperties, ScanBroadcasterAssumption DEF Stream
<1>8. ASSUME stream[s].run \in Runs PROVE Due(s) \in Nat
  <2> DEFINE r == stream[s].run
  <2>1. feed[r].n \in Nat /\ Announced(r) \in Nat
    BY <1>3, <1>8 DEF Announced
  <2>2. s \in Range(feed[r].todo) => feed[r].n > 0
    <3>1. feed[r].todo \in Lists /\ (feed[r].todo # <<>> => feed[r].n > 0)
      BY <1>1, <1>8 DEF Feed, Lists, FeedInv
    <3>2. s \in Range(feed[r].todo) => feed[r].todo # <<>>
      BY <3>1, ListFacts DEF Lists
    <3> QED
      BY <3>1, <3>2
  <2>3. s \in Range(feed[r].todo) => Announced(r) - 1 \in Nat
    BY <1>3, <1>8, <2>1, <2>2 DEF Announced
  <2> QED
    BY <1>7, <2>1, <2>3 DEF Due
<1> QED
  BY <1>2, <1>5, <1>6, <1>7, <1>8

LEMMA PipeTypesNext == (TypeOK /\ FeedInv)' => PipeTyped'
  BY PipeTypes, PTL

\* A subscriber that stays registered keeps its run and its place in it.
LEMMA KeepsOn ==
  ASSUME Inv, [Next]_vars, NEW s \in Subscribers, loop'.open, stream'[s].pc \in Registered,
         ~Registers(s)
  PROVE  /\ loop.open /\ stream[s].pc \in Registered /\ stream[s].run \in Runs
         /\ PipeInv(s)
         /\ stream'[s].run = stream[s].run /\ stream'[s].from = stream[s].from
         /\ stream'[s].late = stream[s].late
         /\ \/ stream'[s].queue = stream[s].queue /\ stream'[s].got = stream[s].got
            \/ Takes(s) /\ TakesEvent(s)
            \/ Receives(s)
<1>0. TypeOK /\ FeedInv
  BY DEF Inv, BroadcastInv
<1>1. loop.open
  <2>1. \A r \in Runs : Schedule(r) => loop.open
    BY <1>0, ScheduleFields DEF FeedInv
  <2> QED
    BY <2>1, ReadySteps DEF RunCallback, LoopCloses
<1>2. stream[s].pc \in Registered
  BY SubscriberSteps DEF Outcome, Stays, RouteMoves, Sent, Break, Abandon, Opens, Takes, Get, Receives,
     Registered
<1>3. stream[s].run \in Runs /\ PipeInv(s)
  BY <1>1, <1>2 DEF Inv, BroadcastInv, StreamInv, Registered
<1>4. stream[s].pc # "idle" /\ stream'[s].pc # "ended"
  BY <1>2 DEF Registered
<1> QED
  BY <1>1, <1>2, <1>3, <1>4, SubscriberSteps DEF Outcome, Stays, Untouched, RouteMoves, Opens, Open, Takes,
     TakesEvent, TakesEnd, Receives

\* What is due to it grows when a run's thread hands it an item, and only then.
LEMMA DueStep ==
  ASSUME Inv, [Next]_vars, NEW s \in Subscribers,
         stream[s].pc \in Registered, stream[s].run \in Runs,
         stream'[s].run = stream[s].run, stream'[s].from = stream[s].from,
         stream'[s].late = stream[s].late
  PROVE  \/ /\ Due(s)' = Due(s)
            /\ ~ \E r \in Runs : Schedule(r) /\ Head(feed[r].todo) = s
         \/ /\ Due(s)' = Due(s) + 1
            /\ \E r \in Runs : /\ Schedule(r) /\ Head(feed[r].todo) = s
                               /\ r = stream[s].run /\ Announced(r) = Due(s) + 1
<1> DEFINE r == stream[s].run
<1>0. TypeOK /\ FeedInv /\ ListedWhileAlive /\ StreamInv(s)
  BY DEF Inv, BroadcastInv
<1>1. /\ feed[r] \in Feed /\ feed[r].todo \in Lists /\ feed[r].n \in Nat
      /\ IsInjective(feed[r].todo) /\ \A q \in Runs : IsInjective(feed[q].todo)
      /\ s \in Range(subs[r])
  BY <1>0, ScanBroadcasterAssumption DEF TypeOK, FeedInv, ListedWhileAlive, Feed, Lists
<1>2. \A q \in Runs : Schedule(q) /\ Head(feed[q].todo) = s => q = r /\ ~stream[s].late
  BY Handover
<1>3. stream'[s].run = r
  OBVIOUS
<1>4. ASSUME feed'[r] = feed[r] PROVE Due(s)' = Due(s)
  BY <1>4 DEF Due, Announced
<1> HIDE DEF r
<1>5. s \notin Range(<<>>)
  <2>1. Range(<<>>) = {<<>>[i] : i \in DOMAIN <<>>}
    BY DEF Range
  <2>2. DOMAIN <<>> = {}
    OBVIOUS
  <2> QED
    BY <2>1, <2>2
<1>6. ASSUME NEW q \in Runs, Publish(q) PROVE Due(s)' = Due(s)
  <2>1. CASE q # r
    BY <1>0, <1>1, <1>4, <1>6, <2>1, PublishFields DEF r
  <2>2. CASE q = r
    <3>1. /\ feed'[r].n = feed[r].n + 1 /\ feed'[r].closed = feed[r].closed
          /\ feed'[r].todo = subs[r]
      BY <1>0, <1>6, <2>2, PublishFields
    <3>2. ~feed[r].closed /\ feed[r].todo = <<>>
      BY <1>6, <2>2 DEF Publish
    <3> QED
      BY <1>1, <1>3, <1>5, <3>1, <3>2 DEF Due, Announced, r
  <2> QED
    BY <2>1, <2>2
<1>7. ASSUME NEW q \in Runs, Close(q) PROVE Due(s)' = Due(s)
  <2>1. CASE q # r
    BY <1>0, <1>1, <1>4, <1>7, <2>1, CloseFields DEF r
  <2>2. CASE q = r
    <3>1. feed'[r].n = feed[r].n /\ feed'[r].closed = TRUE /\ feed'[r].todo = subs[r]
      BY <1>0, <1>7, <2>2, CloseFields
    <3>2. ~feed[r].closed /\ feed[r].todo = <<>>
      BY <1>7, <2>2 DEF Close
    <3> QED
      BY <1>1, <1>3, <1>5, <3>1, <3>2 DEF Due, Announced, r
  <2> QED
    BY <2>1, <2>2
<1>8. ASSUME NEW q \in Runs, Schedule(q)
      PROVE  /\ Head(feed[q].todo) # s => Due(s)' = Due(s)
             /\ Head(feed[q].todo) = s => /\ Due(s)' = Due(s) + 1
                                          /\ Announced(q) = Due(s) + 1
  <2>1. CASE q # r
    <3>1. feed'[r] = feed[r]
      BY <1>0, <1>1, <1>8, <2>1, ScheduleFields DEF r
    <3> QED
      BY <1>2, <1>4, <1>8, <2>1, <3>1
  <2>2. CASE q = r
    <3>1. /\ feed'[r].n = feed[r].n /\ feed'[r].closed = feed[r].closed
          /\ feed'[r].todo = Tail(feed[r].todo)
      BY <1>0, <1>1, <1>8, <2>2, ScheduleFields
    <3>2. /\ Head(feed[r].todo) \in Range(feed[r].todo)
          /\ \A t : t \in Range(Tail(feed[r].todo)) <=>
                      t \in Range(feed[r].todo) /\ t # Head(feed[r].todo)
      BY <1>1, <1>8, <2>2, TailFacts DEF Schedule
    <3>3. Head(feed[r].todo) = s => ~stream[s].late
      BY <1>2, <1>8, <2>2
    <3>4. Announced(r)' = Announced(r)
      BY <1>3, <3>1 DEF Announced, r
    <3>5. Announced(r) \in Nat
      BY <1>1 DEF Announced
    <3>6. CASE Head(feed[r].todo) = s
      <4>1. s \in Range(feed[r].todo) /\ s \notin Range(feed'[r].todo) /\ ~stream[s].late
            /\ ~stream'[s].late
        BY <3>1, <3>2, <3>3, <3>6
      <4>2. Due(s) = Announced(r) - 1
        BY <4>1 DEF Due, r
      <4>3. Due(s)' = Announced(r)'
        BY <1>3, <4>1 DEF Due, r
      <4> QED
        BY <2>2, <3>4, <3>5, <3>6, <4>2, <4>3
    <3>7. CASE Head(feed[r].todo) # s
      <4>1. s \in Range(feed'[r].todo) <=> s \in Range(feed[r].todo)
        BY <3>1, <3>2, <3>7
      <4> QED
        BY <1>3, <2>2, <3>1, <3>7, <4>1 DEF Due, Announced, r
    <3> QED
      BY <3>6, <3>7
  <2> QED
    BY <2>1, <2>2
<1>9. \A q, p \in Runs : Publish(q) \/ Close(q) => ~Schedule(p)
  <2> SUFFICES ASSUME NEW q \in Runs, NEW p \in Runs, Publish(q) \/ Close(q), Schedule(p)
               PROVE  FALSE
    OBVIOUS
  <2>1. feed[q].todo = <<>> /\ feed[p].todo # <<>>
    BY DEF Publish, Close, Schedule
  <2>2. feed'[p].todo = feed[p].todo
    BY <1>0, <2>1, PublishFields, CloseFields
  <2>3. feed'[p].todo = Tail(feed[p].todo) /\ feed[p].todo \in Lists
    BY <1>0, <1>1, ScheduleFields DEF TypeOK, Feed, Lists
  <2> QED
    BY <2>1, <2>2, <2>3, TailDiffers
<1>11. ASSUME feed' = feed, NEW q \in Runs, Schedule(q) PROVE FALSE
  <2>1. feed[q].todo # <<>> /\ feed[q].todo \in Lists /\ feed[q].todo = Tail(feed[q].todo)
    BY <1>0, <1>1, <1>11, ScheduleFields DEF Schedule, TypeOK, Feed, Lists
  <2> QED
    BY <2>1, TailDiffers
<1>12. \/ feed' = feed
       \/ \E q \in Runs : Publish(q) \/ Close(q) \/ Schedule(q)
  BY DEF Next, RunCallback, LoopCloses, Open, Register, Get, Unregister, Sent, Break, Leave,
     Abandon, vars
<1> QED
  BY <1>1, <1>2, <1>4, <1>6, <1>7, <1>8, <1>9, <1>11, <1>12 DEF r

\* The queue of a subscriber that stays carries on where its generator is.
LEMMA QueueStep ==
  ASSUME Inv, [Next]_vars, NEW s \in Subscribers, loop'.open, stream'[s].pc \in Registered,
         ~Registers(s)
  PROVE  \A i \in DOMAIN stream'[s].queue :
            Rank(stream[s].run, stream[s].queue[i].n)' = stream'[s].from + Len(stream'[s].got) + i
<1> DEFINE base == stream[s].from + Len(stream[s].got)
           length == Len(stream[s].queue)
           RankNext(item) == IF item.n = None THEN feed'[stream[s].run].n + 1 ELSE item.n
<1>0. TypeOK /\ FeedInv /\ StreamInv(s)
  BY DEF Inv, BroadcastInv
<1>1. /\ loop.open /\ stream[s].run \in Runs /\ PipeInv(s)
      /\ stream'[s].run = stream[s].run /\ stream'[s].from = stream[s].from
      /\ \/ stream'[s].queue = stream[s].queue /\ stream'[s].got = stream[s].got
         \/ Takes(s) /\ TakesEvent(s)
         \/ Receives(s)
  BY KeepsOn
<1>2. /\ stream[s].queue \in Seq(Items) /\ stream[s].got \in Seq(Items)
      /\ DOMAIN stream[s].queue = 1..length
      /\ base \in Nat /\ length \in Nat
      /\ stream[s].from \in Nat /\ Len(stream[s].got) \in Nat
      /\ \A i \in 1..length : stream[s].queue[i] \in Items
  <2>1. stream[s].queue \in Seq(Items) /\ stream[s].got \in Seq(Items)
    BY <1>0 DEF TypeOK, Stream
  <2>2. stream[s].from \in Nat /\ Len(stream[s].got) \in Nat /\ length \in Nat
    BY <1>0, PipeTypes DEF PipeTyped
  <2> QED
    BY <2>1, <2>2, ListFacts, ElementOfSeq
<1>3. \A item \in Items : ItemInv(item, s) =>
         item.run = stream[s].run /\ RankNext(item) = Rank(stream[s].run, item.n)
  <2> TAKE item \in Items
  <2> HAVE ItemInv(item, s)
  <2>1. Rank(item.run, item.n)' = Rank(item.run, item.n)
    BY <1>1, ItemStays
  <2>2. item.run = stream[s].run
    BY DEF ItemInv
  <2> QED
    BY <2>1, <2>2 DEF Rank
<1>4. \A i \in 1..length : RankNext(stream[s].queue[i]) = base + i
  BY <1>0, <1>1, <1>2, <1>3 DEF PipeInv, StreamInv
<1> SUFFICES ASSUME NEW i \in DOMAIN stream'[s].queue
             PROVE  RankNext(stream'[s].queue[i]) = stream'[s].from + Len(stream'[s].got) + i
  BY <1>1 DEF Rank
<1> HIDE DEF RankNext
<1>5. CASE stream'[s].queue = stream[s].queue /\ stream'[s].got = stream[s].got
  BY <1>1, <1>2, <1>4, <1>5
<1>6. CASE Takes(s) /\ TakesEvent(s)
  <2>1. /\ stream[s].queue # <<>> /\ stream'[s].queue = Tail(stream[s].queue)
        /\ stream'[s].got = Append(stream[s].got, stream[s].queue[1])
    BY <1>6 DEF Takes, TakesEvent, Get
  <2>2. /\ length > 0 /\ Tail(stream[s].queue) \in Seq(Items)
        /\ Len(Tail(stream[s].queue)) = length - 1
        /\ \A j \in 1..(length - 1) : Tail(stream[s].queue)[j] = stream[s].queue[j + 1]
    BY <1>2, <2>1, HeadTailProperties, ListFacts
  <2>3. Len(Append(stream[s].got, stream[s].queue[1])) = Len(stream[s].got) + 1
    BY <1>2, <2>2, AppendProperties
  <2>4. i \in 1..(length - 1) /\ stream'[s].queue[i] = stream[s].queue[i + 1]
        /\ i + 1 \in 1..length
    BY <1>2, <2>1, <2>2, ListFacts
  <2>5. RankNext(stream'[s].queue[i]) = base + (i + 1)
    BY <1>4, <2>4
  <2>6. Len(stream'[s].got) = Len(stream[s].got) + 1
    BY <2>1, <2>3
  <2> DEFINE f == stream[s].from
             g == Len(stream[s].got)
             g2 == Len(stream'[s].got)
  <2>7. /\ f \in Nat /\ g \in Nat /\ g2 = g + 1 /\ base = f + g /\ stream'[s].from = f
        /\ i \in Nat
    BY <1>1, <1>2, <2>4, <2>6
  <2> HIDE DEF f, g, g2, base
  <2>8. RankNext(stream'[s].queue[i]) = f + g2 + i
    BY <2>5, <2>7
  <2> QED
    BY <2>7, <2>8 DEF g2
<1>7. CASE Receives(s)
  <2> DEFINE item == loop.ready[1][2]
  <2>1. /\ loop.ready \in Calls /\ loop.ready # <<>> /\ loop.ready[1][1] = s
        /\ stream'[s].queue = Append(stream[s].queue, item) /\ stream'[s].got = stream[s].got
    BY <1>0, <1>7 DEF Receives, RunCallback, TypeOK, Calls
  <2>2. /\ 1 \in DOMAIN loop.ready /\ Len(loop.ready) \in Nat /\ Len(loop.ready) > 0
        /\ loop.ready[1] \in Subscribers \X Items
    BY <2>1, ListFacts, ElementOfSeq DEF Calls
  <2>3. item \in Items /\ ItemInv(item, s)
    BY <2>1, <2>2 DEF Inv, BroadcastInv, ReadyInv
  <2>4. RankNext(item) = base + length + 1
    <3>1. Pending(s)[1] = RankNext(item) /\ Pending(s)[1] # 0
      <4>1. Pending(s)[1] = Rank(stream[s].run, item.n)
        BY <1>3, <2>1, <2>2, <2>3 DEF Pending
      <4>2. Pending(s)[1] # 0
        BY <1>0, <2>1, <2>2, PipeTypes DEF PipeTyped
      <4> QED
        BY <1>3, <2>3, <4>1, <4>2
    <3> DEFINE L == Len(loop.ready) - 1
               old == Pending(s)
               low == Queued(s)
               high == Due(s)
    <3>2. /\ L \in Nat /\ old \in [1..(L + 1) -> Nat]
          /\ low \in Nat /\ high \in Nat /\ Climbs(old, low, high)
      BY <1>0, <1>1, <1>2, <2>2, PipeTypes DEF PipeTyped, Queued, PipeInv
    <3>3. low = base + length
      BY DEF Queued
    <3> HIDE DEF L, old, low, high
    <3>4. old[1] # 0 => old[1] = low + 1
      BY <3>2, LowestFirst
    <3> QED
      BY <3>1, <3>3, <3>4 DEF old
  <2> HIDE DEF item
  <2>5. /\ DOMAIN stream'[s].queue = 1..(length + 1)
        /\ stream'[s].queue[length + 1] = item
        /\ \A j \in 1..length : stream'[s].queue[j] = stream[s].queue[j]
    BY <1>2, <2>1, <2>3, AppendProperties, LenProperties
  <2>6. i \in 1..length \/ i = length + 1
    BY <1>2, <2>5
  <2>7. RankNext(stream'[s].queue[i]) = base + i
    BY <1>2, <1>4, <2>4, <2>5, <2>6
  <2>8. i \in Nat
    BY <1>2, <2>6
  <2> QED
    BY <1>1, <1>2, <2>1, <2>7, <2>8
<1> QED
  BY <1>1, <1>5, <1>6, <1>7

\* What is pending for it: the callbacks keep their order and their ranks.
LEMMA PendingStep ==
  ASSUME Inv, [Next]_vars, NEW s \in Subscribers, stream'[s].run = stream[s].run
  PROVE  \/ UNCHANGED loop /\ Pending(s)' = Pending(s)
         \/ /\ RunCallback /\ Len(loop.ready) = Len(loop'.ready) + 1
            /\ \A j \in 1..Len(loop'.ready) : Pending(s)'[j] = Pending(s)[j + 1]
         \/ /\ Len(loop'.ready) = Len(loop.ready) + 1
            /\ \A j \in 1..Len(loop.ready) : Pending(s)'[j] = Pending(s)[j]
            /\ \E r \in Runs :
                  /\ Schedule(r)
                  /\ Pending(s)'[Len(loop.ready) + 1] =
                        IF Head(feed[r].todo) = s THEN Announced(r) ELSE 0
         \/ LoopCloses
<1> DEFINE RankOf(call) == IF call[1] = s THEN Rank(call[2].run, call[2].n) ELSE 0
           RankNext(call) ==
              IF call[1] = s
              THEN IF call[2].n = None THEN feed'[call[2].run].n + 1 ELSE call[2].n
              ELSE 0
<1>0. TypeOK /\ FeedInv /\ ReadyInv
  BY DEF Inv, BroadcastInv
<1>1. /\ loop.ready \in Calls /\ Len(loop.ready) \in Nat
      /\ DOMAIN loop.ready = 1..Len(loop.ready)
      /\ \A j \in 1..Len(loop.ready) : loop.ready[j] \in Subscribers \X Items
  BY <1>0, ListFacts, ElementOfSeq DEF TypeOK, Calls
<1>2. \A call \in Subscribers \X Items :
         ItemInv(call[2], call[1]) => RankNext(call) = RankOf(call)
  <2> TAKE call \in Subscribers \X Items
  <2> HAVE ItemInv(call[2], call[1])
  <2>1. CASE call[1] = s
    <3> DEFINE item == call[2]
    <3>1. item \in Items /\ ItemInv(item, s)
      BY <2>1
    <3> HIDE DEF item
    <3>2. Rank(item.run, item.n)' = Rank(item.run, item.n)
      BY <3>1, ItemStays
    <3> QED
      BY <2>1, <3>2 DEF Rank, item
  <2>2. CASE call[1] # s
    BY <2>2
  <2> QED
    BY <2>1, <2>2
<1>3. \A j \in 1..Len(loop.ready) : RankNext(loop.ready[j]) = Pending(s)[j]
  BY <1>0, <1>1, <1>2 DEF ReadyInv, Pending
<1>4. Pending(s)' = [j \in DOMAIN loop'.ready |-> RankNext(loop'.ready[j])]
  BY DEF Pending, Rank
<1>5. Pending(s) = [j \in DOMAIN loop.ready |-> RankOf(loop.ready[j])]
  BY DEF Pending
<1>6. ASSUME UNCHANGED loop PROVE Pending(s)' = Pending(s)
  <2> HIDE DEF RankNext, RankOf
  <2>1. \A j \in DOMAIN loop.ready : RankNext(loop.ready[j]) = RankOf(loop.ready[j])
    BY <1>1, <1>3, <1>5
  <2> QED
    BY <1>4, <1>5, <1>6, <2>1
<1> HIDE DEF RankNext, RankOf
<1>7. ASSUME RunCallback
      PROVE  /\ Len(loop.ready) = Len(loop'.ready) + 1
             /\ \A j \in 1..Len(loop'.ready) : Pending(s)'[j] = Pending(s)[j + 1]
  <2>1. /\ loop'.ready \in Calls /\ Len(loop'.ready) = Len(loop.ready) - 1
        /\ \A i \in 1..(Len(loop.ready) - 1) : loop'.ready[i] = loop.ready[i + 1]
    BY <1>0, <1>7, CallbackFields
  <2>2. DOMAIN loop'.ready = 1..(Len(loop.ready) - 1)
    BY <2>1, ListFacts DEF Calls
  <2>3. \A j \in 1..(Len(loop.ready) - 1) : j + 1 \in 1..Len(loop.ready)
    BY <1>1
  <2> QED
    BY <1>1, <1>3, <1>4, <2>1, <2>2, <2>3
<1>8. ASSUME NEW r \in Runs, Schedule(r), loop.open
      PROVE  /\ Len(loop'.ready) = Len(loop.ready) + 1
             /\ \A j \in 1..Len(loop.ready) : Pending(s)'[j] = Pending(s)[j]
             /\ Pending(s)'[Len(loop.ready) + 1] =
                   IF Head(feed[r].todo) = s THEN Announced(r) ELSE 0
  <2> DEFINE call == <<Head(feed[r].todo), Item(r)>>
  <2>1. loop'.ready = Append(loop.ready, call) /\ call \in Subscribers \X Items
    BY <1>0, <1>8, ScheduleFields DEF FeedInv
  <2>2. /\ ItemInv(Item(r), Head(feed[r].todo)) /\ Rank(r, Item(r).n) = Announced(r)
        /\ Item(r).run = r
    BY <1>8, Handover DEF Item
  <2>3. RankNext(call) = IF Head(feed[r].todo) = s THEN Announced(r) ELSE 0
    <3>1. RankNext(call) = RankOf(call)
      BY <1>2, <2>1, <2>2
    <3> QED
      BY <2>2, <3>1 DEF RankOf
  <2> HIDE DEF call
  <2>4. /\ DOMAIN loop'.ready = 1..(Len(loop.ready) + 1)
        /\ Len(loop'.ready) = Len(loop.ready) + 1
        /\ loop'.ready[Len(loop.ready) + 1] = call
        /\ \A j \in 1..Len(loop.ready) : loop'.ready[j] = loop.ready[j]
    BY <1>1, <2>1, AppendProperties, LenProperties DEF Calls
  <2>5. Len(loop.ready) + 1 \in DOMAIN loop'.ready /\ 1..Len(loop.ready) \subseteq DOMAIN loop'.ready
    BY <1>1, <2>4
  <2> QED
    BY <1>3, <1>4, <2>3, <2>4, <2>5
<1> QED
  BY <1>6, <1>7, <1>8, ReadySteps

LEMMA PipeStep ==
  ASSUME Inv, [Next]_vars, TypeOK', FeedInv', NEW s \in Subscribers,
         loop'.open, stream'[s].pc \in Registered
  PROVE  PipeInv(s)'
<1>0. TypeOK /\ FeedInv /\ StreamInv(s) /\ ReadyInv
  BY DEF Inv, BroadcastInv
<1>1. /\ Len(loop.ready) \in Nat /\ Pending(s) \in [1..Len(loop.ready) -> Nat]
      /\ \A j \in 1..Len(loop.ready) : Pending(s)[j] = 0 <=> loop.ready[j][1] # s
      /\ stream[s].from \in Nat /\ Len(stream[s].got) \in Nat /\ Len(stream[s].queue) \in Nat
      /\ stream[s].run \in Runs => Due(s) \in Nat
  BY <1>0, PipeTypes DEF PipeTyped
<1>2. /\ Len(loop'.ready) \in Nat /\ Pending(s)' \in [1..Len(loop'.ready) -> Nat]
      /\ \A j \in 1..Len(loop'.ready) : Pending(s)'[j] = 0 <=> loop'.ready[j][1] # s
      /\ stream'[s].from \in Nat /\ Len(stream'[s].got) \in Nat
      /\ Len(stream'[s].queue) \in Nat
      /\ stream'[s].run \in Runs => Due(s)' \in Nat
  BY PipeTypesNext DEF PipeTyped
\* It has just registered: nothing is on its way to it.
<1>3. CASE Registers(s)
  <2> DEFINE r == stream[s].run
  <2>1. /\ stream[s].pc = "opened" /\ stream[s].run \in Runs
        /\ stream[s].queue = <<>> /\ stream[s].got = <<>> /\ UNCHANGED <<feed, loop>>
    BY <1>0, <1>3 DEF Registers, Register, StreamInv
  <2>2. /\ stream'[s].run = r /\ stream'[s].queue = <<>> /\ stream'[s].got = <<>>
        /\ stream'[s].from = feed[r].n /\ stream'[s].late = feed[r].closed
    BY <1>3, <2>1 DEF Registers
  <2>3. feed[r].todo \in Lists /\ feed[r].n \in Nat
    BY <1>0, <2>1, ScanBroadcasterAssumption DEF TypeOK, Feed, Lists
  <2>4. s \notin Range(feed[r].todo)
    BY <1>0, <2>1 DEF FeedInv
  <2>5. Due(s)' = feed[r].n
    BY <2>1, <2>2, <2>4 DEF Due, Announced
  <2>6. Len(stream'[s].got) = 0 /\ Len(stream'[s].queue) = 0
    BY <2>2
  <2>7. Queued(s)' = feed[r].n
    BY <2>2, <2>3, <2>6 DEF Queued
  <2>8. \A j \in 1..Len(loop.ready) : loop.ready[j][1] # s
    <3>1. DOMAIN loop.ready = 1..Len(loop.ready)
      BY <1>0, ListFacts DEF TypeOK
    <3> QED
      BY <1>0, <2>1, <3>1 DEF ReadyInv
  <2>9. \A j \in 1..Len(loop'.ready) : Pending(s)'[j] = 0
    BY <1>2, <2>1, <2>8
  <2> DEFINE ranks == Pending(s)'
  <2>10. DOMAIN ranks = 1..Len(loop'.ready) /\ \A j \in DOMAIN ranks : ranks[j] = 0
    BY <1>2, <2>9
  <2> HIDE DEF ranks, r
  <2>11. Climbs(ranks, feed[r].n, feed[r].n)
    BY <2>3, <2>10 DEF Climbs
  <2>12. DOMAIN stream'[s].queue = {}
    BY <2>2
  <2> QED
    BY <2>5, <2>7, <2>11, <2>12 DEF PipeInv, ranks
\* It is served, and nothing is lost, repeated or put out of order on the way.
<1>4. CASE ~Registers(s)
  <2>1. /\ loop.open /\ stream[s].pc \in Registered /\ stream[s].run \in Runs
        /\ PipeInv(s)
        /\ stream'[s].run = stream[s].run /\ stream'[s].from = stream[s].from
        /\ stream'[s].late = stream[s].late
        /\ \/ stream'[s].queue = stream[s].queue /\ stream'[s].got = stream[s].got
           \/ Takes(s) /\ TakesEvent(s)
           \/ Receives(s)
    BY <1>4, KeepsOn
  <2>2. \A i \in DOMAIN stream'[s].queue :
            Rank(stream[s].run, stream[s].queue[i].n)' = stream'[s].from + Len(stream'[s].got) + i
    BY <1>4, QueueStep
  <2>3. \/ Queued(s)' = Queued(s) /\ ~Receives(s)
        \/ Queued(s)' = Queued(s) + 1 /\ Receives(s)
    <3>0. stream[s].queue \in Seq(Items) /\ stream[s].got \in Seq(Items)
      BY <1>0 DEF TypeOK, Stream
    <3>1. CASE Receives(s)
      <4>1. stream'[s].queue = Append(stream[s].queue, loop.ready[1][2])
            /\ stream'[s].got = stream[s].got
        BY <3>1 DEF Receives
      <4>2. Len(stream'[s].queue) = Len(stream[s].queue) + 1
        BY <3>0, <4>1
      <4>3. Len(stream'[s].got) = Len(stream[s].got)
        BY <4>1
      <4> DEFINE Q(f, g, q) == f + g + q
      <4>4. Queued(s)' = Q(stream[s].from, Len(stream[s].got), Len(stream[s].queue) + 1)
        BY <2>1, <4>2, <4>3 DEF Queued
      <4>5. Queued(s) = Q(stream[s].from, Len(stream[s].got), Len(stream[s].queue))
        BY DEF Queued
      <4>6. \A f, g, q \in Nat : Q(f, g, q + 1) = Q(f, g, q) + 1
        OBVIOUS
      <4> HIDE DEF Q
      <4> QED
        BY <1>1, <3>1, <4>4, <4>5, <4>6
    <3>2. CASE ~Receives(s) /\ Takes(s) /\ TakesEvent(s)
      <4>1. /\ stream[s].queue # <<>> /\ stream'[s].queue = Tail(stream[s].queue)
            /\ stream'[s].got = Append(stream[s].got, stream[s].queue[1])
        BY <3>2 DEF Takes, TakesEvent, Get
      <4>2. Len(stream'[s].queue) = Len(stream[s].queue) - 1
            /\ Len(stream'[s].got) = Len(stream[s].got) + 1
        BY <3>0, <4>1, HeadTailProperties
      <4> DEFINE Q(f, g, q) == f + g + q
      <4>4. Queued(s)' = Q(stream[s].from, Len(stream[s].got) + 1, Len(stream[s].queue) - 1)
        BY <2>1, <4>2 DEF Queued
      <4>5. Queued(s) = Q(stream[s].from, Len(stream[s].got), Len(stream[s].queue))
        BY DEF Queued
      <4>6. \A f, g, q \in Nat : Q(f, g + 1, q - 1) = Q(f, g, q)
        OBVIOUS
      <4> HIDE DEF Q
      <4> QED
        BY <1>1, <3>2, <4>4, <4>5, <4>6
    <3>3. CASE ~Receives(s) /\ stream'[s].queue = stream[s].queue
               /\ stream'[s].got = stream[s].got
      BY <2>1, <3>3 DEF Queued
    <3> QED
      BY <2>1, <3>1, <3>2, <3>3
  <2> DEFINE old == Pending(s)
             new == Pending(s)'
             low == Queued(s)
             high == Due(s)
  <2>4. /\ low \in Nat /\ high \in Nat /\ Climbs(old, low, high)
        /\ old \in [1..Len(loop.ready) -> Nat] /\ new \in [1..Len(loop'.ready) -> Nat]
    BY <1>1, <1>2, <2>1 DEF Queued, PipeInv
  <2>5. \/ /\ Due(s)' = Due(s)
           /\ ~ \E r \in Runs : Schedule(r) /\ Head(feed[r].todo) = s
        \/ /\ Due(s)' = Due(s) + 1
           /\ \E r \in Runs : /\ Schedule(r) /\ Head(feed[r].todo) = s
                              /\ r = stream[s].run /\ Announced(r) = Due(s) + 1
    BY <2>1, DueStep
  <2>6. Climbs(new, Queued(s)', Due(s)')
    <3>1. CASE RunCallback
      <4>1. ~ \E r \in Runs : Schedule(r)
        <5>1. ASSUME NEW r \in Runs, Schedule(r) PROVE FALSE
          <6>1. /\ loop'.ready = Tail(loop.ready) /\ loop.ready # <<>> /\ loop.ready \in Calls
            BY <1>0, <3>1 DEF RunCallback, TypeOK, Calls
          <6>2. stream' = stream
            BY <5>1 DEF Schedule
          <6>3. feed' = feed /\ feed[r].todo \in Lists /\ feed[r].todo # <<>>
            BY <1>0, <3>1, <5>1 DEF RunCallback, Schedule, TypeOK, Feed, Lists
          <6>4. feed'[r].todo = Tail(feed[r].todo)
            BY <1>0, <5>1, ScheduleFields DEF FeedInv
          <6> QED
            BY <6>3, <6>4, TailDiffers
        <5> QED
          BY <5>1
      <4>2. Due(s)' = high
        BY <2>5, <4>1
      <4>3. /\ Len(loop.ready) = Len(loop'.ready) + 1
            /\ \A j \in 1..Len(loop'.ready) : new[j] = old[j + 1]
        <5>0. Len(loop'.ready) = Len(loop.ready) - 1
          BY <1>0, <3>1, CallbackFields
        <5>1. ASSUME loop' = loop PROVE FALSE
          <6>1. Len(loop'.ready) = Len(loop.ready)
            BY <5>1
          <6> QED
            BY <1>1, <5>0, <6>1
        <5>2. Len(loop'.ready) # Len(loop.ready) + 1
          BY <1>1, <5>0
        <5>3. ~LoopCloses
          BY DEF LoopCloses
        <5> QED
          BY <2>1, <5>1, <5>2, <5>3, PendingStep
      <4>4. old[1] # 0 <=> Receives(s)
        <5>1. old[1] = 0 <=> loop.ready[1][1] # s
          BY <1>1, <1>2, <4>3
        <5>2. loop.ready[1][1] = s => Receives(s)
          BY <1>0, <3>1, CallbackFields DEF Receives
        <5> QED
          BY <5>1, <5>2 DEF Receives
      <4>5. Queued(s)' = IF old[1] # 0 THEN low + 1 ELSE low
        BY <2>3, <4>4
      <4> DEFINE L == Len(loop'.ready)
      <4>6. /\ L \in Nat /\ old \in [1..(L + 1) -> Nat] /\ new \in [1..L -> Nat]
            /\ \A j \in 1..L : new[j] = old[j + 1]
        BY <1>2, <2>4, <4>3
      <4> HIDE DEF L, old, new, low, high
      <4>7. /\ old[1] = 0 => Climbs(new, low, high)
            /\ old[1] # 0 => old[1] = low + 1 /\ Climbs(new, low + 1, high)
        BY <2>4, <4>6, ClimbsFrom
      <4> QED
        BY <4>2, <4>5, <4>7
    <3>2. CASE ~RunCallback
      <4>1. Queued(s)' = low
        BY <2>3, <3>2 DEF Receives
      <4>2. CASE UNCHANGED loop /\ new = old
        <5>1. Due(s)' = high
          <6>1. ASSUME NEW r \in Runs, Schedule(r) PROVE FALSE
            <7>1. loop'.ready = Append(loop.ready, <<Head(feed[r].todo), Item(r)>>)
                  /\ <<Head(feed[r].todo), Item(r)>> \in Subscribers \X Items
              BY <1>0, <2>1, <6>1, ScheduleFields DEF FeedInv
            <7>2. Len(Append(loop.ready, <<Head(feed[r].todo), Item(r)>>)) = Len(loop.ready) + 1
              BY <1>0, <7>1, AppendProperties DEF TypeOK
            <7> QED
              BY <1>1, <4>2, <7>1, <7>2
          <6> QED
            BY <2>5, <6>1
        <5> QED
          BY <2>4, <4>1, <4>2, <5>1
      <4>3. ASSUME Len(loop'.ready) = Len(loop.ready) + 1,
                   \A j \in 1..Len(loop.ready) : new[j] = old[j],
                   NEW r \in Runs, Schedule(r),
                   new[Len(loop.ready) + 1] = IF Head(feed[r].todo) = s THEN Announced(r) ELSE 0
            PROVE  Climbs(new, Queued(s)', Due(s)')
        <5> DEFINE L == Len(loop.ready)
        <5>1. /\ L \in Nat /\ old \in [1..L -> Nat] /\ new \in [1..(L + 1) -> Nat]
              /\ \A j \in 1..L : new[j] = old[j]
          BY <1>1, <2>4, <4>3
        <5>2. /\ Head(feed[r].todo) = s => new[L + 1] = high + 1 /\ Due(s)' = high + 1
              /\ Head(feed[r].todo) # s => new[L + 1] = 0 /\ Due(s)' = high
          <6>1. \A q \in Runs : Schedule(q) => q = r
            <7> SUFFICES ASSUME NEW q \in Runs, Schedule(q), q # r PROVE FALSE
              OBVIOUS
            <7>1. /\ feed'[q].todo = Tail(feed[q].todo) /\ feed'[q] = feed[q]
                  /\ feed[q].todo # <<>> /\ feed[q].todo \in Lists
              <8>1. IsInjective(feed[q].todo) /\ IsInjective(feed[r].todo)
                BY <1>0 DEF FeedInv
              <8>2. feed'[q].todo = Tail(feed[q].todo)
                BY <1>0, <8>1, ScheduleFields
              <8>3. feed'[q] = feed[q]
                BY <1>0, <4>3, <8>1, ScheduleFields
              <8> QED
                BY <1>0, <8>2, <8>3 DEF Schedule, TypeOK, Feed, Lists
            <7> QED
              BY <7>1, TailDiffers
          <6> QED
            BY <2>5, <4>3, <6>1
        <5> HIDE DEF L, old, new, low, high
        <5>3. /\ new[L + 1] = 0 => Climbs(new, low, high)
              /\ new[L + 1] = high + 1 => Climbs(new, low, high + 1)
          BY <2>4, <5>1, ClimbsOn
        <5> QED
          BY <4>1, <5>2, <5>3
      <4>4. ~LoopCloses
        BY DEF LoopCloses
      <4> QED
        BY <2>1, <3>2, <4>2, <4>3, <4>4, PendingStep
    <3> QED
      BY <3>1, <3>2
  <2> QED
    BY <2>1, <2>2, <2>6 DEF PipeInv
<1> QED
  BY <1>3, <1>4

-----------------------------------------------------------------------------
LEMMA InvInit == Init => Inv
<1> SUFFICES ASSUME Init PROVE Inv
  OBVIOUS
<1>1. TypeOK
  BY TypeInit
<1>2. /\ \A r \in Runs : subs[r] = <<>> /\ feed[r].todo = <<>>
      /\ loop.ready = <<>>
      /\ \A s \in Subscribers : /\ stream[s].pc = "idle" /\ stream[s].queue = <<>>
                                /\ stream[s].got = <<>> /\ ~stream[s].late
  BY DEF Init
<1>3. Range(<<>>) = {}
  <2>1. Range(<<>>) = {<<>>[i] : i \in DOMAIN <<>>}
    BY DEF Range
  <2> QED
    BY <2>1
<1>4. ListedWhileAlive
  BY <1>2, <1>3 DEF ListedWhileAlive, Registered
<1>5. NothingMissedOrRepeated
  BY <1>2 DEF NothingMissedOrRepeated
<1>6. FeedInv
  BY <1>2, <1>3 DEF FeedInv, IsInjective
<1>7. ReadyInv
  BY <1>2 DEF ReadyInv
<1>8. \A s \in Subscribers : StreamInv(s) /\ stream[s].pc \notin Registered
  BY <1>2 DEF StreamInv, Registered
<1> QED
  BY <1>1, <1>4, <1>5, <1>6, <1>7, <1>8 DEF Inv, BroadcastInv

LEMMA InvStep == Inv /\ [Next]_vars => Inv'
<1> SUFFICES ASSUME Inv, [Next]_vars PROVE Inv'
  OBVIOUS
<1>1. TypeOK' /\ FeedInv'
  BY TypeStep, FeedStep
<1>2. ListedWhileAlive' /\ NothingMissedOrRepeated' /\ ReadyInv'
  BY ListedStep, NothingStep, ReadyStep
<1>3. \A s \in Subscribers : StreamInv(s)'
  BY StreamStep
<1>4. \A s \in Subscribers : loop'.open /\ stream'[s].pc \in Registered => PipeInv(s)'
  BY <1>1, PipeStep
<1> QED
  BY <1>1, <1>2, <1>3, <1>4 DEF Inv, BroadcastInv

\* Every state keeps the inductive invariant: each event of a run is due to its readers, on
\* its way to them or read, in that order (publish, call_soon_threadsafe and the queues).
THEOREM Invariance == Spec => []Inv
<1>1. Init => Inv
  BY InvInit
<1>2. Inv /\ [Next]_vars => Inv'
  BY InvStep
<1> QED
  BY <1>1, <1>2, PTL DEF Spec

\* Every record of the broadcaster keeps its shape.
THEOREM TypeCorrect == Spec => []TypeOK
<1>1. Inv => TypeOK
  BY DEF Inv
<1> QED
  BY <1>1, Invariance, PTL

\* scan_broadcaster.py: however the threads of the runs, the callbacks of the event loop
\* and the coroutines of the subscribers interleave, and whoever else comes and goes, a
\* subscriber gets the events of its run in order, each once, from the first one published
\* after it registered.
THEOREM NothingIsMissed == Spec => []NothingMissedOrRepeated
<1>1. Inv => NothingMissedOrRepeated
  BY DEF Inv, BroadcastInv
<1> QED
  BY <1>1, Invariance, PTL

\* subscribe()'s finally clause: a queue is listed exactly while its generator lives.
THEOREM ListedExactlyWhileAlive == Spec => []ListedWhileAlive
<1>1. Inv => ListedWhileAlive
  BY DEF Inv, BroadcastInv
<1> QED
  BY <1>1, Invariance, PTL

-----------------------------------------------------------------------------
\* The broadcaster implements the stream that EventStream promises.

\* The reader a subscriber stands for, and what the run of a reader has announced.
ReaderOf(s) ==
    IF stream[s].pc \in {"idle", "opened", "left"}
    THEN [pc |-> IF stream[s].pc = "left" THEN "left" ELSE "away",
          run |-> NoRun, from |-> 0, upto |-> 0, late |-> FALSE]
    ELSE [pc |-> IF stream[s].pc = "ended" THEN "ended" ELSE "reading",
          run |-> stream[s].run,
          from |-> stream[s].from,
          upto |-> stream[s].from + Len(stream[s].got),
          late |-> stream[s].late]
readers == [s \in Subscribers |-> ReaderOf(s)]
counts == [r \in Runs |-> feed[r].n]
overs == [r \in Runs |-> feed[r].closed]

\* A step at one subscriber is a step at its reader.
LEMMA ReaderMoves ==
  ASSUME NEW s \in Subscribers, NEW new, ReaderOf(s)' = new,
         \A q \in Subscribers : q # s => ReaderOf(q)' = ReaderOf(q)
  PROVE  readers' = [readers EXCEPT ![s] = new]
  BY DEF readers

LEMMA ReadersStay ==
  ASSUME \A q \in Subscribers : ReaderOf(q)' = ReaderOf(q)
  PROVE  readers' = readers
  BY DEF readers

LEMMA SameReader ==
  ASSUME NEW q, stream'[q] = stream[q]
  PROVE  ReaderOf(q)' = ReaderOf(q)
  BY DEF ReaderOf

LEMMA FeedsStay ==
  ASSUME \A r \in Runs : feed'[r].n = feed[r].n /\ feed'[r].closed = feed[r].closed
  PROVE  counts' = counts /\ overs' = overs
  BY DEF counts, overs

LEMMA PromiseVars == Promise!vars = <<counts, overs, readers>>
  BY DEF Promise!vars, counts, overs, readers, ReaderOf

LEMMA PromiseInit == Init => Promise!Init
<1> SUFFICES ASSUME Init PROVE Promise!Init
  OBVIOUS
<1>1. counts = [r \in Runs |-> 0] /\ overs = [r \in Runs |-> FALSE]
  BY DEF Init, counts, overs
<1>2. \A s \in Subscribers : ReaderOf(s) = Promise!Away
  BY DEF Init, ReaderOf, Promise!Away, Promise!NoRun, NoRun
<1>3. readers = [s \in Subscribers |-> Promise!Away]
  BY <1>2 DEF readers
<1> QED
  BY <1>1, <1>3 DEF Promise!Init, counts, overs, readers, ReaderOf

\* A subscriber that takes an event receives the next one of its run.
LEMMA EventIsNext ==
  ASSUME Inv, NEW s \in Subscribers, Get(s),
         stream' = [stream EXCEPT ![s].queue = Tail(stream[s].queue), ![s].pc = "yielded",
                                  ![s].got = Append(stream[s].got, Head(stream[s].queue))],
         Head(stream[s].queue).n # None, UNCHANGED feed
  PROVE  Promise!Receive(s)
<1> DEFINE item == stream[s].queue[1]
           upto == stream[s].from + Len(stream[s].got)
           r == stream[s].run
<1>0. TypeOK /\ stream[s].pc = "waiting" /\ stream[s].queue # <<>>
  BY GetSteps DEF Inv
<1>1. /\ stream'[s].pc = "yielded" /\ stream'[s].run = r
      /\ stream'[s].got = Append(stream[s].got, item)
      /\ stream'[s].from = stream[s].from /\ stream'[s].late = stream[s].late
      /\ item \in Items /\ item = Head(stream[s].queue)
      /\ \A q \in Subscribers : q # s => stream'[q] = stream[q]
  BY <1>0, GetEventFields
<1>2. /\ ItemInv(item, s) /\ Rank(r, item.n) = upto + 1 /\ r \in Runs
      /\ stream[s].from \in Nat /\ Len(stream[s].got) \in Nat
  BY HeadOfQueue
<1>3. feed[r].n \in Nat
  BY <1>0, <1>2, ScanBroadcasterAssumption DEF TypeOK, Feed
<1>4. upto < feed[r].n
  <2>1. item.n = upto + 1 /\ item.n <= feed[r].n
    BY <1>1, <1>2 DEF Rank, ItemInv
  <2> QED
    BY <1>2, <1>3, <2>1
<1>5. stream'[s].from + Len(stream'[s].got) = upto + 1
  <2>1. stream[s].got \in Seq(Items)
    BY <1>0 DEF TypeOK, Stream
  <2>2. Len(Append(stream[s].got, item)) = Len(stream[s].got) + 1
    BY <1>1, <2>1, AppendProperties
  <2> DEFINE g == Len(stream[s].got)
             g2 == Len(stream'[s].got)
             f == stream[s].from
  <2>3. g2 = g + 1 /\ g \in Nat /\ f \in Nat
    BY <1>1, <1>2, <2>2
  <2>4. upto = f + g /\ stream'[s].from + Len(stream'[s].got) = f + g2
    BY <1>1
  <2> HIDE DEF g, g2, f, upto
  <2> QED
    BY <2>3, <2>4
<1>6. ReaderOf(s) = [pc |-> "reading", run |-> r, from |-> stream[s].from, upto |-> upto,
                     late |-> stream[s].late]
  BY <1>0 DEF ReaderOf
<1>7. ReaderOf(s)' = [pc |-> "reading", run |-> r, from |-> stream[s].from, upto |-> upto + 1,
                      late |-> stream[s].late]
  BY <1>1, <1>5 DEF ReaderOf
<1> HIDE DEF upto
<1>8. ReaderOf(s)' = [ReaderOf(s) EXCEPT !.upto = @ + 1]
  BY <1>6, <1>7
<1>9. readers' = [readers EXCEPT ![s] = [ReaderOf(s) EXCEPT !.upto = @ + 1]]
  BY <1>1, <1>8, SameReader, ReaderMoves
<1>10. readers[s] = ReaderOf(s) /\ s \in DOMAIN readers
  BY DEF readers
<1>11. readers' = [readers EXCEPT ![s].upto = @ + 1]
  BY <1>9, <1>10
<1>12. readers[s].pc = "reading" /\ readers[s].upto < counts[readers[s].run]
  BY <1>2, <1>4, <1>6, <1>10 DEF counts
<1>13. counts' = counts /\ overs' = overs
  BY FeedsStay
<1> QED
  BY <1>11, <1>12, <1>13 DEF Promise!Receive, counts, overs, readers, ReaderOf

\* A subscriber that takes the sentinel has seen every event of its finished run.
LEMMA EndIsLast ==
  ASSUME Inv, NEW s \in Subscribers, Get(s),
         stream' = [stream EXCEPT ![s].queue = Tail(stream[s].queue), ![s].pc = "ended"],
         Head(stream[s].queue).n = None, UNCHANGED feed
  PROVE  Promise!End(s)
<1> DEFINE item == stream[s].queue[1]
           upto == stream[s].from + Len(stream[s].got)
           r == stream[s].run
<1>0. /\ TypeOK /\ FeedInv /\ loop.open /\ stream[s].pc = "waiting" /\ stream[s].queue # <<>>
      /\ stream[s].queue \in Seq(Items)
  BY GetSteps DEF Inv, BroadcastInv, TypeOK, Stream
<1>1. /\ stream'[s].pc = "ended" /\ stream'[s].run = r
      /\ stream'[s].got = stream[s].got
      /\ stream'[s].from = stream[s].from /\ stream'[s].late = stream[s].late
      /\ \A q \in Subscribers : q # s => stream'[q] = stream[q]
  BY <1>0, GetEndFields
<1>2. /\ ItemInv(item, s) /\ Rank(r, item.n) = upto + 1 /\ r \in Runs
      /\ stream[s].from \in Nat /\ Len(stream[s].got) \in Nat
      /\ Len(stream[s].queue) \in Nat /\ Len(stream[s].queue) > 0
  BY HeadOfQueue
<1>3. feed[r].n \in Nat
  BY <1>0, <1>2, ScanBroadcasterAssumption DEF TypeOK, Feed
<1>4. item.n = None
  BY <1>0, ListFacts
<1>5. feed[r].closed /\ upto = feed[r].n
  <2>1. item.run = r /\ feed[r].closed
    BY <1>2, <1>4 DEF ItemInv
  <2>2. feed[r].n + 1 = upto + 1
    BY <1>2, <1>4 DEF Rank
  <2> HIDE DEF upto
  <2>3. upto \in Nat
    BY <1>2 DEF upto
  <2> QED
    BY <1>3, <2>1, <2>2, <2>3
<1>6. ~stream[s].late
  <2>1. Queued(s) <= Due(s)
    BY <1>0 DEF Inv, BroadcastInv, Registered, PipeInv, Climbs
  <2>2. stream[s].late => Due(s) = stream[s].from
    BY DEF Due
  <2> DEFINE f == stream[s].from
             g == Len(stream[s].got)
             q == Len(stream[s].queue)
  <2>3. Queued(s) = f + g + q
    BY DEF Queued
  <2>4. f \in Nat /\ g \in Nat /\ q \in Nat /\ q > 0
    BY <1>2
  <2> HIDE DEF f, g, q
  <2>5. Queued(s) > f /\ Queued(s) \in Nat
    BY <2>3, <2>4
  <2>6. stream[s].late => Due(s) = f
    BY <2>2 DEF f
  <2> QED
    BY <2>1, <2>4, <2>5, <2>6
<1>7. ReaderOf(s) = [pc |-> "reading", run |-> r, from |-> stream[s].from, upto |-> upto,
                     late |-> stream[s].late]
  BY <1>0 DEF ReaderOf
<1>8. ReaderOf(s)' = [pc |-> "ended", run |-> r, from |-> stream[s].from, upto |-> upto,
                      late |-> stream[s].late]
  <2>1. stream'[s].from + Len(stream'[s].got) = upto
    BY <1>1
  <2> QED
    BY <1>1, <2>1 DEF ReaderOf
<1> HIDE DEF upto
<1>9. ReaderOf(s)' = [ReaderOf(s) EXCEPT !.pc = "ended"]
  BY <1>7, <1>8
<1>10. readers' = [readers EXCEPT ![s] = [ReaderOf(s) EXCEPT !.pc = "ended"]]
  BY <1>1, <1>9, SameReader, ReaderMoves
<1>11. readers[s] = ReaderOf(s) /\ s \in DOMAIN readers
  BY DEF readers
<1>12. readers' = [readers EXCEPT ![s].pc = "ended"]
  BY <1>10, <1>11
<1>13. /\ readers[s].pc = "reading" /\ ~readers[s].late /\ overs[readers[s].run]
       /\ readers[s].upto = counts[readers[s].run]
  BY <1>2, <1>5, <1>6, <1>7, <1>11 DEF counts, overs
<1>14. counts' = counts /\ overs' = overs
  BY FeedsStay
<1> QED
  BY <1>12, <1>13, <1>14 DEF Promise!End, counts, overs, readers, ReaderOf

\* A subscriber that registers joins at the events its run has published.
LEMMA RegisterJoins ==
  ASSUME Inv, NEW s \in Subscribers, Register(s)
  PROVE  \E r \in Runs : Promise!Join(s, r)
<1>r. PICK r \in Runs : r = stream[s].run
  BY RegisterReady DEF Register
<1>0. /\ TypeOK /\ stream[s].pc = "opened" /\ r \in Runs /\ s \notin Range(subs[r])
      /\ UNCHANGED feed /\ stream[s].got = <<>>
  BY <1>r, RegisterReady DEF Register, Inv, BroadcastInv, StreamInv
<1>1. /\ stream'[s].pc = "waiting" /\ stream'[s].run = r /\ stream'[s].got = <<>>
      /\ stream'[s].from = feed[r].n /\ stream'[s].late = feed[r].closed
      /\ \A q \in Subscribers : q # s => stream'[q] = stream[q]
  BY <1>r, <1>0, RegisterFields
<1>2. feed[r].n \in Nat
  BY <1>0, ScanBroadcasterAssumption DEF TypeOK, Feed
<1>3. stream'[s].from + Len(stream'[s].got) = feed[r].n
  <2>1. Len(stream'[s].got) = 0
    BY <1>1
  <2> QED
    BY <1>1, <1>2, <2>1
<1>4. ReaderOf(s) = Promise!Away
  BY <1>0 DEF ReaderOf, Promise!Away, Promise!NoRun, NoRun
<1>5. ReaderOf(s)' = [pc |-> "reading", run |-> r, from |-> counts[r], upto |-> counts[r],
                      late |-> overs[r]]
  BY <1>0, <1>1, <1>3 DEF ReaderOf, counts, overs
<1>6. readers' = [readers EXCEPT ![s] = [pc |-> "reading", run |-> r, from |-> counts[r],
                                         upto |-> counts[r], late |-> overs[r]]]
  BY <1>1, <1>5, SameReader, ReaderMoves
<1>7. readers[s].pc = "away"
  BY <1>4 DEF readers, Promise!Away
<1>8. counts' = counts /\ overs' = overs
  BY <1>0, FeedsStay
<1> QED
  BY <1>0, <1>6, <1>7, <1>8 DEF Promise!Join, counts, overs, readers, ReaderOf

\* A subscriber that leaves, even before it registered, is a reader that leaves.
LEMMA LeaveLeaves ==
  ASSUME Inv, NEW s \in Subscribers, Leave(s) \/ Abandon(s)
  PROVE  Promise!Leave(s)
<1>0. /\ TypeOK /\ stream[s].pc \in {"opened", "waiting", "leaving"} /\ UNCHANGED feed
      /\ stream' = [stream EXCEPT ![s].pc = "left"]
  BY DEF Inv, Leave, Unregister, Abandon
<1>1. Moved(s, "left")
  BY <1>0, MoveFields
<1>2. ReaderOf(s)' = [Promise!Away EXCEPT !.pc = "left"]
  <2> DEFINE gone == [pc |-> "left", run |-> 0, from |-> 0, upto |-> 0, late |-> FALSE]
  <2>1. ReaderOf(s)' = gone
    BY <1>1 DEF Moved, ReaderOf, NoRun
  <2>2. [Promise!Away EXCEPT !.pc = "left"] = gone
    <3>1. Promise!Away = [pc |-> "away", run |-> 0, from |-> 0, upto |-> 0, late |-> FALSE]
      BY DEF Promise!Away, Promise!NoRun
    <3> DEFINE At(pc, late) == [pc |-> pc, run |-> 0, from |-> 0, upto |-> 0, late |-> late]
    <3>2. \A late : [At("away", late) EXCEPT !.pc = "left"] = At("left", late)
      OBVIOUS
    <3> QED
      BY <3>1, <3>2
  <2> QED
    BY <2>1, <2>2
<1>3. readers' = [readers EXCEPT ![s] = [Promise!Away EXCEPT !.pc = "left"]]
  BY <1>1, <1>2, SameReader, ReaderMoves DEF Moved
<1>4. readers[s].pc \in {"away", "reading"}
  BY <1>0 DEF readers, ReaderOf
<1>5. counts' = counts /\ overs' = overs
  BY <1>0, FeedsStay
<1> QED
  BY <1>3, <1>4, <1>5 DEF Promise!Leave, counts, overs, readers, ReaderOf

\* The other steps do not show.
LEMMA RouteIsHidden ==
  ASSUME Inv, NEW s \in Subscribers, Sent(s) \/ Break(s) \/ (\E r \in Runs : Open(s, r))
  PROVE  UNCHANGED <<counts, overs, readers>>
<1>0. TypeOK /\ UNCHANGED feed
  BY DEF Inv, Sent, Break, Open
<1>1. CASE Sent(s) \/ Break(s)
  <2>1. PICK pc \in {"waiting", "leaving"} :
          stream' = [stream EXCEPT ![s].pc = pc] /\ stream[s].pc = "yielded"
    BY <1>1 DEF Sent, Break
  <2>2. Moved(s, pc)
    BY <1>0, <2>1, MoveFields
  <2>3. ReaderOf(s)' = ReaderOf(s)
    BY <2>1, <2>2 DEF Moved, ReaderOf
  <2>4. \A q \in Subscribers : ReaderOf(q)' = ReaderOf(q)
    BY <2>2, <2>3, SameReader DEF Moved
  <2> QED
    BY <1>0, <2>4, ReadersStay, FeedsStay
<1>2. ASSUME NEW r \in Runs, Open(s, r) PROVE UNCHANGED <<counts, overs, readers>>
  <2>1. /\ stream[s].pc = "idle" /\ stream'[s].pc = "opened"
        /\ \A q \in Subscribers : q # s => stream'[q] = stream[q]
    BY <1>0, <1>2, OpenFields DEF Open
  <2>2. ReaderOf(s)' = ReaderOf(s)
    BY <2>1 DEF ReaderOf
  <2>3. \A q \in Subscribers : ReaderOf(q)' = ReaderOf(q)
    BY <2>1, <2>2, SameReader
  <2> QED
    BY <1>0, <2>3, ReadersStay, FeedsStay
<1> QED
  BY <1>1, <1>2

LEMMA CallbackIsHidden ==
  ASSUME Inv, RunCallback
  PROVE  UNCHANGED <<counts, overs, readers>>
<1>0. TypeOK /\ UNCHANGED feed
  BY DEF Inv, RunCallback
<1> SUFFICES ASSUME NEW q \in Subscribers PROVE ReaderOf(q)' = ReaderOf(q)
  BY <1>0, ReadersStay, FeedsStay
<1>1. /\ stream'[q].pc = stream[q].pc /\ stream'[q].run = stream[q].run
      /\ stream'[q].got = stream[q].got /\ stream'[q].from = stream[q].from
      /\ stream'[q].late = stream[q].late
  <2> DEFINE s == loop.ready[1][1]
  <2>1. CASE q = s
    BY <1>0, <2>1, CallbackFields
  <2>2. CASE q # s
    BY <1>0, <2>2, CallbackFields
  <2> QED
    BY <2>1, <2>2
<1> QED
  BY <1>1 DEF ReaderOf

\* What a run's thread announces is what its run emits.
LEMMA FeedEmits ==
  ASSUME Inv, NEW r \in Runs, Publish(r) \/ Close(r) \/ Schedule(r)
  PROVE  \/ Promise!Emit(r) \/ Promise!Finish(r)
         \/ UNCHANGED <<counts, overs, readers>>
<1>0. TypeOK /\ FeedInv /\ UNCHANGED stream
  BY DEF Inv, BroadcastInv, Publish, Close, Schedule
<1>1. readers' = readers
  BY <1>0, SameReader, ReadersStay
<1>2. CASE Publish(r)
  <2>1. /\ feed'[r].n = feed[r].n + 1 /\ feed'[r].closed = feed[r].closed
        /\ \A q \in Runs : q # r => feed'[q] = feed[q]
    BY <1>0, <1>2, PublishFields
  <2>2. counts' = [counts EXCEPT ![r] = @ + 1] /\ overs' = overs
    BY <2>1 DEF counts, overs
  <2>3. ~overs[r]
    BY <1>2 DEF Publish, overs
  <2> QED
    BY <1>1, <2>2, <2>3 DEF Promise!Emit, counts, overs, readers, ReaderOf
<1>3. CASE Close(r)
  <2>1. /\ feed'[r].n = feed[r].n /\ feed'[r].closed = TRUE
        /\ \A q \in Runs : q # r => feed'[q] = feed[q]
    BY <1>0, <1>3, CloseFields
  <2>2. overs' = [overs EXCEPT ![r] = TRUE] /\ counts' = counts
    BY <2>1 DEF counts, overs
  <2>3. ~overs[r]
    BY <1>3 DEF Close, overs
  <2> QED
    BY <1>1, <2>2, <2>3 DEF Promise!Finish, counts, overs, readers, ReaderOf
<1>4. CASE Schedule(r)
  <2>1. /\ feed'[r].n = feed[r].n /\ feed'[r].closed = feed[r].closed
        /\ \A q \in Runs : q # r => feed'[q] = feed[q]
    BY <1>0, <1>4, ScheduleFields DEF FeedInv
  <2>2. \A q \in Runs : feed'[q].n = feed[q].n /\ feed'[q].closed = feed[q].closed
    BY <2>1
  <2> QED
    BY <1>1, <2>2, FeedsStay
<1> QED
  BY <1>2, <1>3, <1>4

LEMMA PromiseStep == Inv /\ [Next]_vars => [Promise!Next]_(Promise!vars)
<1> SUFFICES ASSUME Inv, [Next]_vars PROVE Promise!Next \/ UNCHANGED Promise!vars
  OBVIOUS
<1> DEFINE Shown == Promise!Next \/ UNCHANGED Promise!vars
<1>0. UNCHANGED <<counts, overs, readers>> => Shown
  BY PromiseVars DEF Promise!vars, counts, overs, readers, ReaderOf
<1>1. ASSUME NEW r \in Runs, Publish(r) \/ Close(r) \/ Schedule(r) PROVE Shown
  BY <1>0, <1>1, FeedEmits DEF Promise!Next
<1>2. CASE RunCallback
  BY <1>0, <1>2, CallbackIsHidden
<1>3. CASE LoopCloses \/ UNCHANGED vars
  <2>1. UNCHANGED <<feed, stream>>
    BY <1>3 DEF LoopCloses, vars
  <2> QED
    BY <1>0, <2>1, SameReader, ReadersStay, FeedsStay
<1>4. ASSUME NEW s \in Subscribers, Sent(s) \/ Break(s) \/ (\E r \in Runs : Open(s, r))
      PROVE  Shown
  BY <1>0, <1>4, RouteIsHidden
<1>5. ASSUME NEW s \in Subscribers, Register(s) PROVE Shown
  BY <1>5, RegisterJoins DEF Promise!Next
<1>6. ASSUME NEW s \in Subscribers, Get(s) PROVE Shown
  BY <1>6, GetSteps, EventIsNext, EndIsLast DEF Promise!Next, Unregister
<1>7. ASSUME NEW s \in Subscribers, Leave(s) \/ Abandon(s) PROVE Shown
  BY <1>7, LeaveLeaves DEF Promise!Next
<1> QED
  BY <1>1, <1>2, <1>3, <1>4, <1>5, <1>6, <1>7 DEF Next

\* scan_broadcaster.py implements the stream of events its readers are promised
\* (EventStream), step by step: each of its steps is a step of the promise, or none.
THEOREM ImplementsTheStream == Spec => Promise!Spec
<1>1. Init => Promise!Init
  BY PromiseInit
<1>2. Inv /\ [Next]_vars => [Promise!Next]_(Promise!vars)
  BY PromiseStep
<1> QED
  BY <1>1, <1>2, Invariance, PTL DEF Spec, Promise!Spec
=============================================================================
