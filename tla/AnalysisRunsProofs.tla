-------------------------- MODULE AnalysisRunsProofs --------------------------
(***************************************************************************)
(* Theorems about AnalysisRuns, for any graph of sections, any number of   *)
(* requests and any budget of faults, kills and overlaps.                  *)
(***************************************************************************)
EXTENDS AnalysisRuns, TLAPS

\* The graph has a first wave, and a section belongs to one wave.
LEMMA WaveFacts ==
  /\ LastWave \in Nat /\ LastWave >= 1
  /\ DOMAIN Waves = 1..LastWave
  /\ \A v, w \in 1..LastWave : \A s \in Waves[v] : s \in Waves[w] => v = w
  /\ \A w \in 1..LastWave : \A s \in Waves[w] : s \in Sections /\ WaveOf(s) = w
<1>1. Waves \in Seq(SUBSET Sections) /\ Waves # <<>>
  BY AnalysisRunsAssumption
<1>2. LastWave \in Nat /\ LastWave >= 1 /\ DOMAIN Waves = 1..LastWave
  BY <1>1 DEF LastWave
<1>3. \A v, w \in DOMAIN Waves : v # w => Waves[v] \cap Waves[w] = {}
  BY AnalysisRunsAssumption
<1>4. \A v, w \in 1..LastWave : \A s \in Waves[v] : s \in Waves[w] => v = w
  BY <1>2, <1>3
<1>5. ASSUME NEW w \in 1..LastWave, NEW s \in Waves[w]
      PROVE  s \in Sections /\ WaveOf(s) = w
  <2>1. w \in DOMAIN Waves
    BY <1>2
  <2>2. s \in Sections
    BY <2>1 DEF Sections
  <2>3. WaveOf(s) \in DOMAIN Waves /\ s \in Waves[WaveOf(s)]
    BY <2>1 DEF WaveOf
  <2> QED
    BY <1>2, <1>4, <2>2, <2>3
<1> QED
  BY <1>2, <1>4, <1>5

\* A new request.
LEMMA NoRequestFields ==
  /\ NoRequest \in Request(NoRequest)
  /\ NoRequest.queue \in Seq(Held(NoRequest.queue))
  /\ NoRequest.pc = "none" /\ NoRequest.run = NoRun /\ NoRequest.report = NoRun
<1>1. 0 \in 0..(LastWave + 1)
  BY WaveFacts
<1>2. [s \in Sections |-> "todo"] \in [Sections -> Stages]
  BY DEF Stages
<1>3. NoRequest \in Request(NoRequest)
  BY <1>1, <1>2 DEF NoRequest, Request, NoRun
<1>4. <<>> \in Seq(Held(<<>>))
  OBVIOUS
<1> QED
  BY <1>3, <1>4 DEF NoRequest

LEMMA TypeInit == Init => TypeOK
<1> SUFFICES ASSUME Init PROVE TypeOK
  OBVIOUS
<1>1. reqs = [p \in Requests |-> reqs[p]] /\ \A p \in Requests : reqs[p] = NoRequest
  BY DEF Init
<1>2. \A p \in Requests :
        /\ reqs[p] \in Request(reqs[p])
        /\ reqs[p].queue \in Seq(Held(reqs[p].queue))
        /\ reqs[p].pc = "none"
  BY <1>1, NoRequestFields
<1>3. runs \in [Requests -> [status : Statuses \cup {"none"}, from : Requests \cup {NoRun}]]
  BY DEF Init
<1>4. reports = [r \in Requests |-> reports[r]] /\ \A r \in Requests : reports[r].outcome = "none"
  BY DEF Init
<1>5. thread = [r \in Requests |-> thread[r]] /\ \A r \in Requests : thread[r] = NoThread
  BY DEF Init
<1>6. \A r \in Requests : thread[r] \in [cps : {thread[r].cps}, writes : {thread[r].writes}, ids : Nat]
  BY <1>5 DEF NoThread
<1>7. store \in [refusing : BOOLEAN, status : {"ready", "unavailable"}]
  BY DEF Init
<1>8. env \in [faults : Nat, skips : Nat, crashes : Nat, made : 0..MaxRequests, live : Nat]
  BY AnalysisRunsAssumption DEF Init
<1>9. past \in [quiet : BOOLEAN, paid : {past.paid}]
  BY DEF Init
<1> QED
  BY <1>1, <1>2, <1>3, <1>4, <1>5, <1>6, <1>7, <1>8, <1>9 DEF TypeOK, Working

-----------------------------------------------------------------------------
\* What the updates of a request do to its fields.

\* One request changes.
LEMMA OneRequest ==
  ASSUME TypeOK, NEW p \in Requests, NEW new, reqs' = [reqs EXCEPT ![p] = new]
  PROVE  /\ reqs' = [q \in Requests |-> reqs'[q]]
         /\ reqs'[p] = new
         /\ \A q \in Requests : q # p => reqs'[q] = reqs[q]
<1>1. reqs = [q \in Requests |-> reqs[q]]
  BY DEF TypeOK
<1> QED
  BY <1>1

\* A request that only moves on.
LEMMA PcFields ==
  ASSUME NEW req, req \in Request(req), NEW pc \in {"none", "ephemeral", "done", "dead"} \cup Working,
         NEW new, new = [req EXCEPT !.pc = pc]
  PROVE  /\ new \in Request(new)
         /\ new.pc = pc /\ new.run = req.run /\ new.force = req.force /\ new.wave = req.wave
         /\ new.secs = req.secs /\ new.outs = req.outs /\ new.stage = req.stage /\ new.cp = req.cp
         /\ new.queue = req.queue /\ new.report = req.report /\ new.said = req.said
BY DEF Request

\* Sections that move on.
LEMMA StageFields ==
  ASSUME NEW req, req \in Request(req), NEW st \in [Sections -> Stages],
         NEW new, new = [req EXCEPT !.stage = st]
  PROVE  /\ new \in Request(new)
         /\ new.pc = req.pc /\ new.run = req.run /\ new.force = req.force /\ new.wave = req.wave
         /\ new.secs = req.secs /\ new.outs = req.outs /\ new.cp = req.cp
         /\ new.queue = req.queue /\ new.report = req.report /\ new.said = req.said
         /\ new.stage = st
<1>1. new \in Request(new)
  BY DEF Request
<1> QED
  BY <1>1 DEF Request

\* A section whose output is there.
LEMMA KeptFields ==
  ASSUME NEW req, req \in Request(req), NEW s \in Sections, NEW x,
         NEW new, new = Kept(req, s, x)
  PROVE  /\ new \in Request(new)
         /\ new.pc = req.pc /\ new.run = req.run /\ new.force = req.force /\ new.wave = req.wave
         /\ new.secs = req.secs /\ new.outs = req.outs \cup {x} /\ new.cp = req.cp
         /\ new.queue = req.queue /\ new.report = req.report /\ new.said = req.said
         /\ new.stage[s] = "kept" /\ \A t \in Sections : t # s => new.stage[t] = req.stage[t]
<1> DEFINE st == [req.stage EXCEPT ![s] = "kept"]
           mid == [req EXCEPT !.outs = @ \cup {x}]
<1>1. /\ mid \in Request(mid)
      /\ mid.pc = req.pc /\ mid.run = req.run /\ mid.force = req.force /\ mid.wave = req.wave
      /\ mid.secs = req.secs /\ mid.outs = req.outs \cup {x} /\ mid.cp = req.cp
      /\ mid.queue = req.queue /\ mid.report = req.report /\ mid.said = req.said /\ mid.stage = req.stage
  BY DEF Request
<1>2. req.stage \in [Sections -> Stages] /\ "kept" \in Stages
  BY DEF Request, Stages
<1>3. st \in [Sections -> Stages] /\ st[s] = "kept" /\ \A t \in Sections : t # s => st[t] = req.stage[t]
  BY <1>2
<1>4. new = [mid EXCEPT !.stage = st]
  BY <1>1 DEF Kept
<1> HIDE DEF st, mid
<1>5. new \in Request(new) /\ new.stage = st
  BY <1>1, <1>3, <1>4 DEF Request
<1>6. /\ new.pc = mid.pc /\ new.run = mid.run /\ new.force = mid.force /\ new.wave = mid.wave
      /\ new.secs = mid.secs /\ new.outs = mid.outs /\ new.cp = mid.cp
      /\ new.queue = mid.queue /\ new.report = mid.report /\ new.said = mid.said
  BY <1>1, <1>4 DEF Request
<1> QED
  BY <1>1, <1>3, <1>5, <1>6

\* A request whose queue changes.
LEMMA QueueFields ==
  ASSUME NEW req, req \in Request(req), NEW queue, NEW new, new = [req EXCEPT !.queue = queue]
  PROVE  /\ new \in Request(new)
         /\ new.pc = req.pc /\ new.run = req.run /\ new.force = req.force /\ new.wave = req.wave
         /\ new.secs = req.secs /\ new.outs = req.outs /\ new.stage = req.stage /\ new.cp = req.cp
         /\ new.queue = queue /\ new.report = req.report /\ new.said = req.said
BY DEF Request

\* A request that is answered.
LEMMA AnsweredFields ==
  ASSUME TypeOK, NEW p \in Requests, NEW r \in Requests \cup {NoRun}, NEW status \in {"none", "ready", "unavailable"},
         Answered(p, r, status)
  PROVE  /\ reqs' = [q \in Requests |-> reqs'[q]]
         /\ \A q \in Requests : q # p => reqs'[q] = reqs[q]
         /\ reqs'[p] \in Request(reqs'[p])
         /\ reqs'[p].pc = "done" /\ reqs'[p].run = reqs[p].run /\ reqs'[p].force = reqs[p].force
         /\ reqs'[p].secs = reqs[p].secs /\ reqs'[p].queue = reqs[p].queue /\ reqs'[p].report = r
<1> DEFINE one == [reqs[p] EXCEPT !.pc = "done"]
           two == [one EXCEPT !.report = r]
           new == [two EXCEPT !.said = status]
<1>1. reqs[p] \in Request(reqs[p]) /\ reqs = [q \in Requests |-> reqs[q]]
  BY DEF TypeOK
<1>2. /\ one \in Request(one) /\ one.pc = "done" /\ one.run = reqs[p].run /\ one.force = reqs[p].force
      /\ one.secs = reqs[p].secs /\ one.queue = reqs[p].queue
  BY <1>1, PcFields
<1>3. reqs' = [reqs EXCEPT ![p] = new]
  BY <1>1 DEF Answered
<1> HIDE DEF one
<1>4. /\ two \in Request(two) /\ two.pc = "done" /\ two.run = reqs[p].run /\ two.force = reqs[p].force
      /\ two.secs = reqs[p].secs /\ two.queue = reqs[p].queue /\ two.report = r
  BY <1>2 DEF Request
<1> HIDE DEF two
<1>5. /\ new \in Request(new) /\ new.pc = "done" /\ new.run = reqs[p].run /\ new.force = reqs[p].force
      /\ new.secs = reqs[p].secs /\ new.queue = reqs[p].queue /\ new.report = r
  BY <1>4 DEF Request
<1> HIDE DEF new
<1> QED
  BY <1>3, <1>5, OneRequest

\* What a queue holds after its ends move.
LEMMA QueueOps ==
  ASSUME NEW queue, queue \in Seq(Held(queue))
  PROVE  /\ \A c : /\ Append(queue, c) \in Seq(Held(Append(queue, c)))
                   /\ Held(Append(queue, c)) = Held(queue) \cup {c}
         /\ queue # <<>> => /\ Tail(queue) \in Seq(Held(Tail(queue)))
                            /\ Held(Tail(queue)) \subseteq Held(queue)
                            /\ Head(queue) \in Held(queue)
<1>1. Len(queue) \in Nat /\ DOMAIN queue = 1..Len(queue)
  OBVIOUS
<1>2. ASSUME NEW c
      PROVE  /\ Append(queue, c) \in Seq(Held(Append(queue, c)))
             /\ Held(Append(queue, c)) = Held(queue) \cup {c}
  <2> DEFINE all == Held(queue) \cup {c}
             long == Append(queue, c)
  <2>1. queue \in Seq(all)
    BY <1>1 DEF Held
  <2> HIDE DEF all
  <2>2. c \in all
    BY DEF all
  <2>3. /\ long \in Seq(all) /\ Len(long) = Len(queue) + 1
        /\ \A i \in 1..Len(queue) : long[i] = queue[i]
        /\ long[Len(queue) + 1] = c
    BY <2>1, <2>2
  <2> HIDE DEF long
  <2>4. DOMAIN long = 1..(Len(queue) + 1)
    BY <2>3
  <2>5. ASSUME NEW x \in Held(long) PROVE x \in all
    <3>1. PICK i \in 1..(Len(queue) + 1) : x = long[i]
      BY <2>4 DEF Held
    <3> QED
      BY <1>1, <2>3, <3>1 DEF all, Held
  <2>6. ASSUME NEW x \in all PROVE x \in Held(long)
    <3>1. CASE x = c
      <4>1. Len(queue) + 1 \in DOMAIN long
        BY <1>1, <2>4
      <4> QED
        BY <2>3, <3>1, <4>1 DEF Held
    <3>2. CASE x \in Held(queue)
      <4>1. PICK i \in 1..Len(queue) : x = queue[i]
        BY <1>1, <3>2 DEF Held
      <4>2. i \in DOMAIN long
        BY <1>1, <2>4
      <4> QED
        BY <2>3, <4>1, <4>2 DEF Held
    <3> QED
      BY <3>1, <3>2 DEF all
  <2>7. Held(long) = all
    BY <2>5, <2>6
  <2> QED
    BY <2>3, <2>7 DEF all, long
<1>3. ASSUME queue # <<>>
      PROVE  /\ Tail(queue) \in Seq(Held(Tail(queue)))
             /\ Held(Tail(queue)) \subseteq Held(queue)
             /\ Head(queue) \in Held(queue)
  <2> DEFINE rest == Tail(queue)
  <2>1. Len(queue) >= 1
    BY <1>1, <1>3
  <2>2. Head(queue) = queue[1]
    BY <1>3
  <2>3. Head(queue) \in Held(queue)
    BY <1>1, <2>1, <2>2 DEF Held
  <2>4. /\ rest \in Seq(Held(queue)) /\ Len(rest) = Len(queue) - 1
        /\ \A i \in 1..(Len(queue) - 1) : rest[i] = queue[i + 1]
    BY <1>3
  <2> HIDE DEF rest
  <2>5. DOMAIN rest = 1..(Len(queue) - 1)
    BY <2>4
  <2>6. Held(rest) \subseteq Held(queue)
    BY <2>4, <2>5 DEF Held
  <2>7. \A i \in 1..Len(rest) : rest[i] \in Held(rest)
    BY <2>4, <2>5 DEF Held
  <2>8. rest \in Seq(Held(rest))
    <3> DEFINE all == Held(rest)
    <3> HIDE DEF all
    <3>1. \A i \in 1..Len(rest) : rest[i] \in all
      BY <2>7 DEF all
    <3>2. rest \in Seq(all)
      BY <2>4, <3>1
    <3> QED
      BY <3>2 DEF all
  <2> QED
    BY <2>3, <2>6, <2>8 DEF rest
<1> QED
  BY <1>2, <1>3

-----------------------------------------------------------------------------
\* What the parts of the invariant need of a step.

\* The inductive invariant: what the runs say of their reports, what the graphs hold, and
\* what is paid for while all is quiet.
RunsInv == LineInv /\ ReuseInv /\ AnswerInv /\ SettledRunsHaveReports /\ AnswerIsStored
SectionsInv == GraphInv /\ ReportIsCoherent
PaidInv == QuietInv /\ PaidOnce
Inv == TypeOK /\ RunsInv /\ SectionsInv /\ PaidInv

\* What TypeOK asks of one request by itself.
Shaped(req) ==
    /\ req \in Request(req)
    /\ req.queue \in Seq(Held(req.queue))
    /\ req.pc \in {"load", "invoke"} => req.queue = <<>>
    /\ req.pc = "wave" => req.wave \in 1..LastWave
    /\ req.pc = "drain" => req.wave = LastWave + 1

\* The variables that are not the requests'.
RestOK ==
    /\ runs \in [Requests -> [status : Statuses \cup {"none"}, from : Requests \cup {NoRun}]]
    /\ reports = [r \in Requests |-> reports[r]]
    /\ thread = [r \in Requests |-> thread[r]]
    /\ \A r \in Requests :
        /\ reports[r].outcome \in {"none", "partial", "succeeded"}
        /\ thread[r] \in [cps : {thread[r].cps}, writes : {thread[r].writes}, ids : Nat]
    /\ store \in [refusing : BOOLEAN, status : {"ready", "unavailable"}]
    /\ env \in [faults : Nat, skips : Nat, crashes : Nat, made : 0..MaxRequests, live : Nat]
    /\ past \in [quiet : BOOLEAN, paid : {past.paid}]

LEMMA TypeParts ==
  TypeOK <=> /\ reqs = [p \in Requests |-> reqs[p]]
             /\ \A p \in Requests :
                   /\ Shaped(reqs[p])
                   /\ reqs[p].pc \in Working => reqs[p].run # NoRun /\ runs[reqs[p].run].status # "none"
             /\ RestOK
BY DEF TypeOK, Shaped, RestOK

\* The same for the next state.
LEMMA TypePartsNext ==
  ASSUME reqs' = [p \in Requests |-> reqs'[p]],
         \A p \in Requests :
           /\ Shaped(reqs'[p])
           /\ reqs'[p].pc \in Working => reqs'[p].run # NoRun /\ runs'[reqs'[p].run].status # "none",
         RestOK'
  PROVE  TypeOK'
BY DEF TypeOK, Shaped, RestOK

\* A run that is known stays known, so only the request that moves needs a look.
LEMMA TypeStep ==
  ASSUME TypeOK, NEW p \in Requests,
         reqs' = [q \in Requests |-> reqs'[q]],
         \A q \in Requests : q # p => reqs'[q] = reqs[q],
         Shaped(reqs'[p]),
         reqs'[p].pc \in Working => reqs'[p].run # NoRun /\ runs'[reqs'[p].run].status # "none",
         \A r \in Requests : runs[r].status # "none" => runs'[r].status # "none",
         RestOK'
  PROVE  TypeOK'
<1>1. ASSUME NEW q \in Requests
      PROVE  /\ Shaped(reqs'[q])
             /\ reqs'[q].pc \in Working => reqs'[q].run # NoRun /\ runs'[reqs'[q].run].status # "none"
  <2>1. CASE q = p
    BY <2>1
  <2>2. CASE q # p
    <3>1. reqs'[q] = reqs[q]
      BY <2>2
    <3>2. Shaped(reqs[q]) /\ reqs[q].run \in Requests \cup {NoRun}
      BY TypeParts DEF Shaped, Request
    <3>3. reqs[q].pc \in Working => reqs[q].run # NoRun /\ runs[reqs[q].run].status # "none"
      BY TypeParts
    <3> QED
      BY <3>1, <3>2, <3>3
  <2> QED
    BY <2>1, <2>2
<1> QED
  BY <1>1, TypePartsNext

\* The breaker, the budget and the history.
LEMMA StoreSteps ==
  ASSUME TypeOK
  PROVE  /\ Served => /\ store' \in [refusing : BOOLEAN, status : {"ready", "unavailable"}]
                      /\ ~store.refusing /\ ~store'.refusing
         /\ Refused => store' = store /\ store.refusing
         /\ Opens => store' \in [refusing : BOOLEAN, status : {"ready", "unavailable"}] /\ ~store.refusing
         /\ Fault => /\ env' \in [faults : Nat, skips : Nat, crashes : Nat, made : 0..MaxRequests, live : Nat]
                     /\ past' = NoLongerQuiet
         /\ NoLongerQuiet \in [quiet : BOOLEAN, paid : {NoLongerQuiet.paid}]
         /\ ~NoLongerQuiet.quiet /\ NoLongerQuiet.paid = {}
<1>1. store \in [refusing : BOOLEAN, status : {"ready", "unavailable"}]
  BY DEF TypeOK
<1>2. env \in [faults : Nat, skips : Nat, crashes : Nat, made : 0..MaxRequests, live : Nat]
  BY DEF TypeOK
<1>3. ASSUME Served
      PROVE  /\ store' \in [refusing : BOOLEAN, status : {"ready", "unavailable"}]
             /\ ~store.refusing /\ ~store'.refusing
  BY <1>1, <1>3 DEF Served
<1>4. ASSUME Opens
      PROVE  store' \in [refusing : BOOLEAN, status : {"ready", "unavailable"}] /\ ~store.refusing
  BY <1>4 DEF Opens
<1>5. ASSUME Fault
      PROVE  /\ env' \in [faults : Nat, skips : Nat, crashes : Nat, made : 0..MaxRequests, live : Nat]
             /\ past' = NoLongerQuiet
  BY <1>2, <1>5 DEF Fault
<1>6. Refused => store' = store /\ store.refusing
  BY DEF Refused
<1>7. /\ NoLongerQuiet \in [quiet : BOOLEAN, paid : {NoLongerQuiet.paid}]
      /\ ~NoLongerQuiet.quiet /\ NoLongerQuiet.paid = {}
  BY DEF NoLongerQuiet
<1> QED
  BY <1>3, <1>4, <1>5, <1>6, <1>7

\* Where runs and reports stay as they are, and no request is answered with a report.
LEMMA RunsKept ==
  ASSUME TypeOK, RunsInv, runs' = runs, reports' = reports,
         \A r \in Requests :
            thread'[r] = thread[r] \/ (runs[r].status # "none" /\ runs[r].from = NoRun),
         \A q \in Requests :
            \/ reqs'[q] = reqs[q]
            \/ /\ reqs[q].pc # "none" /\ reqs'[q].pc # "none" /\ reqs'[q].report = NoRun
               /\ reqs'[q].pc \in {"invoke", "wave", "drain"} => runs[reqs'[q].run].from = NoRun
  PROVE  RunsInv'
<1>1. LineInv'
  BY DEF RunsInv, LineInv
<1>2. ReuseInv'
  BY DEF RunsInv, ReuseInv
<1>3. AnswerInv'
  BY DEF RunsInv, AnswerInv
<1>4. SettledRunsHaveReports'
  BY DEF RunsInv, SettledRunsHaveReports
<1>5. AnswerIsStored'
  BY DEF RunsInv, AnswerIsStored
<1> QED
  BY <1>1, <1>2, <1>3, <1>4, <1>5 DEF RunsInv

\* The trail of a run after a step.
LEMMA TrailBound ==
  ASSUME NEW r \in Requests, NEW all,
         thread'[r].cps \subseteq all,
         \A q \in Requests : reqs'[q].run = r /\ reqs'[q].pc \in {"wave", "drain"} =>
            At(reqs'[q]) \in all /\ Held(reqs'[q].queue) \subseteq all
  PROVE  Trail(r)' \subseteq all
<1> SUFFICES ASSUME NEW c \in Trail(r)' PROVE c \in all
  OBVIOUS
<1>1. CASE c \in thread'[r].cps
  BY <1>1
<1>2. CASE \E q \in OnGraph(r)' : c = At(reqs'[q])
  BY <1>2 DEF OnGraph, At
<1>3. CASE \E q \in OnGraph(r)' : c \in Held(reqs'[q].queue)
  BY <1>3 DEF OnGraph, Held
<1> QED
  BY <1>1, <1>2, <1>3 DEF Trail, At, Held

\* Everything a run's requests know is on its trail.
LEMMA OnTrail ==
  ASSUME NEW r \in Requests
  PROVE  /\ thread[r].cps \subseteq Trail(r)
         /\ \A q \in Requests : reqs[q].run = r /\ reqs[q].pc \in {"wave", "drain"} =>
               At(reqs[q]) \in Trail(r) /\ Held(reqs[q].queue) \subseteq Trail(r)
<1>1. ASSUME NEW q \in Requests, reqs[q].run = r, reqs[q].pc \in {"wave", "drain"}
      PROVE  At(reqs[q]) \in Trail(r) /\ Held(reqs[q].queue) \subseteq Trail(r)
  <2>1. q \in OnGraph(r)
    BY <1>1 DEF OnGraph
  <2> QED
    BY <2>1 DEF Trail
<1> QED
  BY <1>1 DEF Trail

\* Where no checkpoint is written.
LEMMA TrailStays ==
  ASSUME TrailInv,
         \A r \in Requests : thread'[r].ids = thread[r].ids /\ Trail(r)' \subseteq Trail(r)
  PROVE  TrailInv'
<1>1. ASSUME NEW r \in Requests, NEW c \in Trail(r)'
      PROVE  c \in [id : 1..thread'[r].ids, wave : 1..(LastWave + 1), secs : {c.secs}] /\ Whole(c.secs, c.wave)
  BY DEF TrailInv
<1>2. ASSUME NEW r \in Requests, NEW c \in Trail(r)', NEW d \in Trail(r)', c.id = d.id
      PROVE  c = d
  BY <1>2 DEF TrailInv
<1> QED
  BY <1>1, <1>2 DEF TrailInv

\* Where no output is written either.
LEMMA TrailKept ==
  ASSUME TrailInv, WritesInv,
         \A r \in Requests :
            /\ thread'[r].ids = thread[r].ids /\ thread'[r].writes = thread[r].writes
            /\ Trail(r)' \subseteq Trail(r)
  PROVE  TrailInv' /\ WritesInv'
<1>1. TrailInv'
  BY TrailStays
<1>2. WritesInv'
  <2>1. ASSUME NEW r \in Requests
        PROVE  /\ \A w \in thread'[r].writes : w \in [id : 1..thread'[r].ids, out : {w.out}]
               /\ \A v, w \in thread'[r].writes : v.id = w.id /\ v.out.sec = w.out.sec => v = w
               /\ \A c \in Trail(r)', w \in thread'[r].writes : w.id = c.id =>
                     c.wave <= LastWave /\ w.out.sec \in Waves[c.wave] /\ w.out.prior = c.secs
    BY DEF WritesInv
  <2> QED
    BY <2>1 DEF WritesInv
<1> QED
  BY <1>1, <1>2

\* Where requests only leave the graph.
LEMMA GraphLeft ==
  ASSUME GraphInv, thread' = thread, cache' = cache,
         \A q \in Requests : reqs'[q] = reqs[q] \/ reqs'[q].pc \notin {"wave", "drain"}
  PROVE  GraphInv'
<1>1. ASSUME NEW r \in Requests PROVE Trail(r)' \subseteq Trail(r)
  BY OnTrail, TrailBound
<1>2. TrailInv' /\ WritesInv'
  BY <1>1, TrailKept DEF GraphInv
<1>3. WaveInv'
  BY DEF GraphInv, WaveInv
<1>4. CacheInv'
  BY DEF GraphInv, CacheInv
<1> QED
  BY <1>2, <1>3, <1>4 DEF GraphInv

\* A request that asks the model for a section.
Asks(req, s) == req.pc = "wave" /\ s \in Waves[req.wave] /\ req.stage[s] = "calling" /\ ~req.force

\* Noise ends the quiet, and with it all that is said of it.
LEMMA QuietBroken ==
  ASSUME past' = NoLongerQuiet
  PROVE  PaidInv'
<1>1. ~past'.quiet /\ past'.paid = {}
  BY DEF NoLongerQuiet
<1> QED
  BY <1>1 DEF PaidInv, QuietInv, PaidOnce

\* Where the cache and the payments stay as they are, and no request arrives.
LEMMA QuietKept ==
  ASSUME TypeOK, PaidInv, past.quiet, past' = past, cache' = cache, ~store'.refusing,
         \A q \in Requests : reqs'[q].pc \in Working => reports'[reqs'[q].run].outcome = "none",
         \A q \in Requests :
            \/ reqs'[q] = reqs[q]
            \/ /\ q \in Live /\ reqs'[q].pc # "none" /\ reqs'[q].force = reqs[q].force
               /\ \A s \in Sections : Asks(reqs'[q], s) =>
                     \A e \in cache : e.key # <<s, reqs'[q].secs>>
  PROVE  PaidInv'
<1>1. \A p \in Live', q \in Requests : p < q => reqs'[q].pc = "none"
  <2>1. ASSUME NEW p \in Live', NEW q \in Requests, p < q
        PROVE  reqs'[q].pc = "none"
    <3>1. p \in Live
      BY DEF Live
    <3>2. reqs[q].pc = "none"
      BY <2>1, <3>1 DEF PaidInv, QuietInv
    <3>3. q \notin Live
      BY <3>2 DEF Live
    <3> QED
      BY <3>2, <3>3
  <2> QED
    BY <2>1
<1>2. \A x \in past'.paid :
        /\ x.by \in Requests /\ reqs'[x.by].pc # "none"
        /\ \E e \in cache' : e.key = <<x.sec, x.prior>>
  BY DEF PaidInv, QuietInv
<1>3. ASSUME NEW q \in Requests, NEW s \in Sections, InWave(q, s, "calling")', ~reqs'[q].force
      PROVE  \A e \in cache' : e.key # <<s, reqs'[q].secs>>
  <2>1. CASE reqs'[q] = reqs[q]
    <3>1. InWave(q, s, "calling") /\ ~reqs[q].force
      BY <1>3, <2>1 DEF InWave
    <3> QED
      BY <2>1, <3>1 DEF PaidInv, QuietInv
  <2>2. CASE Asks(reqs'[q], s) => \A e \in cache : e.key # <<s, reqs'[q].secs>>
    BY <1>3, <2>2 DEF InWave, Asks
  <2> QED
    BY <2>1, <2>2
<1>4. PaidOnce'
  <2>1. \A x \in past.paid : x.by \in Requests /\ reqs[x.by].pc # "none"
    BY DEF PaidInv, QuietInv
  <2>2. \A q \in Requests : reqs[q].pc # "none" => reqs'[q].force = reqs[q].force
    OBVIOUS
  <2> QED
    BY <2>1, <2>2 DEF PaidInv, PaidOnce
<1> QED
  BY <1>1, <1>2, <1>3, <1>4 DEF PaidInv, QuietInv

\* The same where a request arrives and nothing is under way.
LEMMA QuietArrival ==
  ASSUME TypeOK, LineInv, PaidInv, past.quiet, past' = past, cache' = cache, ~store'.refusing,
         NEW p \in Requests, Arrives(p), Live = {},
         \A q \in Requests : q # p => reqs'[q] = reqs[q],
         reqs'[p].pc # "none",
         reqs'[p].pc \in Working => reports'[reqs'[p].run].outcome = "none",
         \A s \in Sections : ~Asks(reqs'[p], s)
  PROVE  PaidInv'
<1>1. \A q \in Requests : q # p => reqs[q].pc \in {"none", "done", "dead"}
  BY DEF Live
<1>2. reqs[p].pc = "none"
  BY DEF Arrives
<1>3. \A q \in Requests : p < q => reqs[q].pc = "none"
  BY <1>2 DEF LineInv
<1>4. \A q \in Live' : q = p
  BY <1>1 DEF Live
<1>5. \A q \in Live', o \in Requests : q < o => reqs'[o].pc = "none"
  BY <1>3, <1>4 DEF Requests
<1>6. \A q \in Requests : reqs'[q].pc \in Working => reports'[reqs'[q].run].outcome = "none"
  BY <1>1 DEF Working
<1>7. \A x \in past'.paid :
        /\ x.by \in Requests /\ reqs'[x.by].pc # "none"
        /\ \E e \in cache' : e.key = <<x.sec, x.prior>>
  BY DEF PaidInv, QuietInv
<1>8. ASSUME NEW q \in Requests, NEW s \in Sections, InWave(q, s, "calling")', ~reqs'[q].force
      PROVE  FALSE
  <2>1. reqs'[q].pc = "wave"
    BY <1>8 DEF InWave
  <2>2. q = p
    BY <1>1, <2>1
  <2> QED
    BY <1>8, <2>2 DEF InWave, Asks
<1>9. PaidOnce'
  <2>1. \A x \in past.paid : x.by \in Requests /\ reqs[x.by].pc # "none"
    BY DEF PaidInv, QuietInv
  <2>2. \A x \in past.paid : reqs'[x.by] = reqs[x.by]
    BY <1>2, <2>1
  <2> QED
    BY <2>2 DEF PaidInv, PaidOnce
<1> QED
  BY <1>5, <1>6, <1>7, <1>8, <1>9 DEF PaidInv, QuietInv

-----------------------------------------------------------------------------
\* The steps that leave the requests alone, and the kill of the process.

LEMMA InitInv == Init => Inv
<1> SUFFICES ASSUME Init PROVE Inv
  OBVIOUS
<1>1. TypeOK
  BY TypeInit
<1>2. \A p \in Requests : reqs[p] = NoRequest
  BY DEF Init
<1>3. \A p \in Requests : reqs[p].pc = "none" /\ reqs[p].report = NoRun
  BY <1>2 DEF NoRequest
<1>4. \A r \in Requests : /\ runs[r].status = "none" /\ runs[r].from = NoRun
                          /\ reports[r].outcome = "none" /\ thread[r] = NoThread
  BY DEF Init
<1>5. cache = {} /\ past.quiet /\ past.paid = {} /\ ~store.refusing
  BY DEF Init
<1>6. RunsInv
  BY <1>3, <1>4 DEF RunsInv, LineInv, ReuseInv, AnswerInv, SettledRunsHaveReports, AnswerIsStored
<1>7. \A r \in Requests : Trail(r) = {} /\ thread[r].writes = {}
  <2>1. \A r \in Requests : OnGraph(r) = {}
    BY <1>3 DEF OnGraph
  <2>2. NoThread.cps = {} /\ NoThread.writes = {}
    BY DEF NoThread
  <2> QED
    BY <1>4, <2>1, <2>2 DEF Trail
<1>8. GraphInv
  BY <1>3, <1>5, <1>7 DEF GraphInv, TrailInv, WritesInv, WaveInv, CacheInv
<1>9. ReportIsCoherent
  BY <1>4 DEF ReportIsCoherent
<1>10. PaidInv
  <2>1. \A p \in Requests : p \notin Live /\ reqs[p].pc \notin Working /\ \A s \in Sections : ~InWave(p, s, "calling")
    BY <1>3 DEF Live, Working, InWave
  <2> QED
    BY <1>5, <2>1 DEF PaidInv, QuietInv, PaidOnce, Live
<1> QED
  BY <1>1, <1>6, <1>8, <1>9, <1>10 DEF Inv, SectionsInv

LEMMA StutterInv == Inv /\ UNCHANGED vars => Inv'
<1> SUFFICES ASSUME Inv, UNCHANGED vars PROVE Inv'
  OBVIOUS
<1>1. /\ reqs' = reqs /\ runs' = runs /\ reports' = reports /\ thread' = thread
      /\ cache' = cache /\ store' = store /\ env' = env /\ past' = past
  BY DEF vars
<1>2. TypeOK'
  BY <1>1 DEF Inv, TypeOK
<1>3. RunsInv'
  BY <1>1 DEF Inv, RunsInv, LineInv, ReuseInv, AnswerInv, SettledRunsHaveReports, AnswerIsStored
<1>4. SectionsInv'
  BY <1>1, GraphLeft DEF Inv, SectionsInv, ReportIsCoherent
<1>5. PaidInv'
  BY <1>1 DEF Inv, PaidInv, QuietInv, PaidOnce, Live, InWave
<1> QED
  BY <1>2, <1>3, <1>4, <1>5 DEF Inv

\* What TypeOK says of the variables that are not the requests'.
LEMMA RestStep ==
  ASSUME TypeOK,
         \/ UNCHANGED <<runs, reports>>
         \/ /\ runs' \in [Requests -> [status : Statuses \cup {"none"}, from : Requests \cup {NoRun}]]
            /\ reports' = [r \in Requests |-> reports'[r]]
            /\ \A r \in Requests : reports'[r].outcome \in {"none", "partial", "succeeded"},
         \/ UNCHANGED thread
         \/ /\ thread' = [r \in Requests |-> thread'[r]]
            /\ \A r \in Requests : thread'[r] \in [cps : {thread'[r].cps}, writes : {thread'[r].writes}, ids : Nat],
         store' \in [refusing : BOOLEAN, status : {"ready", "unavailable"}],
         env' \in [faults : Nat, skips : Nat, crashes : Nat, made : 0..MaxRequests, live : Nat],
         past' \in [quiet : BOOLEAN, paid : {past'.paid}]
  PROVE  RestOK'
<1>1. RestOK
  BY TypeParts
<1>2. /\ runs' \in [Requests -> [status : Statuses \cup {"none"}, from : Requests \cup {NoRun}]]
      /\ reports' = [r \in Requests |-> reports'[r]]
      /\ \A r \in Requests : reports'[r].outcome \in {"none", "partial", "succeeded"}
  BY <1>1 DEF RestOK
<1>3. /\ thread' = [r \in Requests |-> thread'[r]]
      /\ \A r \in Requests : thread'[r] \in [cps : {thread'[r].cps}, writes : {thread'[r].writes}, ids : Nat]
  BY <1>1 DEF RestOK
<1> QED
  BY <1>2, <1>3 DEF RestOK

\* The next states of the store, the budget and the history have their types.
LEMMA Housekeeping ==
  ASSUME TypeOK,
         \/ Served /\ UNCHANGED <<env, past>>
         \/ Unserved
         \/ UNCHANGED <<store, env, past>>
  PROVE  /\ store' \in [refusing : BOOLEAN, status : {"ready", "unavailable"}]
         /\ env' \in [faults : Nat, skips : Nat, crashes : Nat, made : 0..MaxRequests, live : Nat]
         /\ past' \in [quiet : BOOLEAN, paid : {past'.paid}]
         /\ PaidInv => \/ past' = NoLongerQuiet
                       \/ ~past.quiet /\ past' = past
                       \/ past.quiet /\ past' = past /\ ~store'.refusing
<1>1. /\ store \in [refusing : BOOLEAN, status : {"ready", "unavailable"}]
      /\ env \in [faults : Nat, skips : Nat, crashes : Nat, made : 0..MaxRequests, live : Nat]
      /\ past \in [quiet : BOOLEAN, paid : {past.paid}]
  BY DEF TypeOK
<1>2. PaidInv => (past.quiet => ~store.refusing)
  BY DEF PaidInv, QuietInv
<1>3. CASE Served /\ UNCHANGED <<env, past>>
  BY <1>1, <1>3, StoreSteps
<1>4. CASE Refused /\ UNCHANGED <<env, past>>
  BY <1>1, <1>2, <1>4, StoreSteps
<1>5. CASE Opens /\ Fault
  <2>1. past' = NoLongerQuiet /\ past' \in [quiet : BOOLEAN, paid : {past'.paid}]
    BY <1>5, StoreSteps
  <2> QED
    BY <1>5, <2>1, StoreSteps
<1>6. CASE UNCHANGED <<store, env, past>>
  BY <1>1, <1>2, <1>6
<1> QED
  BY <1>3, <1>4, <1>5, <1>6 DEF Unserved

\* Without quiet there is nothing to keep.
LEMMA NoQuietKept ==
  ASSUME PaidInv, ~past.quiet, past' = past
  PROVE  PaidInv'
BY DEF PaidInv, QuietInv, PaidOnce

LEMMA ReopenInv == Inv /\ Reopen => Inv'
<1> SUFFICES ASSUME Inv, Reopen PROVE Inv'
  OBVIOUS
<1>1. /\ reqs' = reqs /\ runs' = runs /\ reports' = reports /\ thread' = thread
      /\ cache' = cache /\ env' = env /\ past' = past
  BY DEF Reopen
<1>2. TypeOK'
  <2>1. store \in [refusing : BOOLEAN, status : {"ready", "unavailable"}]
    BY DEF Inv, TypeOK
  <2>2. store' \in [refusing : BOOLEAN, status : {"ready", "unavailable"}]
    BY <2>1 DEF Reopen
  <2> QED
    BY <1>1, <2>2 DEF Inv, TypeOK
<1>3. RunsInv'
  BY <1>1 DEF Inv, RunsInv, LineInv, ReuseInv, AnswerInv, SettledRunsHaveReports, AnswerIsStored
<1>4. SectionsInv'
  BY <1>1, GraphLeft DEF Inv, SectionsInv, ReportIsCoherent
<1>5. PaidInv'
  <2>1. ~past'.quiet
    BY <1>1 DEF Reopen, Inv, PaidInv, QuietInv
  <2> QED
    BY <1>1, <2>1, NoQuietKept DEF Inv
<1> QED
  BY <1>2, <1>3, <1>4, <1>5 DEF Inv

LEMMA CrashInv == Inv /\ Crash => Inv'
<1> SUFFICES ASSUME Inv, Crash PROVE Inv'
  OBVIOUS
<1> DEFINE dead(p) == [NoRequest EXCEPT !.pc = "dead", !.force = reqs[p].force]
<1>1. /\ runs' = runs /\ reports' = reports /\ thread' = thread /\ cache' = cache /\ past' = past
      /\ store' = [refusing |-> FALSE, status |-> "ready"]
      /\ env' = [env EXCEPT !.crashes = @ - 1] /\ env.crashes > 0
      /\ reqs' = [p \in Requests |-> IF p \in Live THEN dead(p) ELSE reqs[p]]
  BY DEF Crash
<1>2. ASSUME NEW p \in Requests
      PROVE  /\ Shaped(dead(p)) /\ dead(p).pc = "dead" /\ dead(p).report = NoRun
             /\ dead(p).force = reqs[p].force
  <2>1. reqs[p].force \in BOOLEAN
    BY DEF Inv, TypeOK, Request
  <2>2. /\ NoRequest \in Request(NoRequest) /\ NoRequest.queue \in Seq(Held(NoRequest.queue))
        /\ NoRequest.report = NoRun
    BY NoRequestFields
  <2> DEFINE mid == [NoRequest EXCEPT !.pc = "dead"]
  <2>3. mid \in Request(mid) /\ mid.pc = "dead" /\ mid.queue = NoRequest.queue /\ mid.report = NoRun
    BY <2>2 DEF Request
  <2>4. dead(p) = [mid EXCEPT !.force = reqs[p].force]
    OBVIOUS
  <2> HIDE DEF mid, dead
  <2>5. /\ dead(p) \in Request(dead(p)) /\ dead(p).pc = "dead" /\ dead(p).queue = NoRequest.queue
        /\ dead(p).report = NoRun /\ dead(p).force = reqs[p].force
    BY <2>1, <2>3, <2>4 DEF Request
  <2> QED
    BY <2>2, <2>5 DEF Shaped
<1> HIDE DEF dead
<1>3. \A p \in Requests : reqs'[p] = IF p \in Live THEN dead(p) ELSE reqs[p]
  BY <1>1
<1>4. TypeOK'
  <2>1. /\ env' \in [faults : Nat, skips : Nat, crashes : Nat, made : 0..MaxRequests, live : Nat]
        /\ past' \in [quiet : BOOLEAN, paid : {past'.paid}]
        /\ store' \in [refusing : BOOLEAN, status : {"ready", "unavailable"}]
    <3>1. env \in [faults : Nat, skips : Nat, crashes : Nat, made : 0..MaxRequests, live : Nat]
      BY DEF Inv, TypeOK
    <3>2. env' \in [faults : Nat, skips : Nat, crashes : Nat, made : 0..MaxRequests, live : Nat]
      BY <1>1, <3>1
    <3>3. past \in [quiet : BOOLEAN, paid : {past.paid}]
      BY DEF Inv, TypeOK
    <3> QED
      BY <1>1, <3>2, <3>3
  <2>2. RestOK'
    BY <1>1, <2>1, RestStep DEF Inv
  <2>3. ASSUME NEW p \in Requests
        PROVE  /\ Shaped(reqs'[p])
               /\ reqs'[p].pc \in Working => reqs'[p].run # NoRun /\ runs'[reqs'[p].run].status # "none"
    BY <1>1, <1>2, <1>3, TypeParts DEF Inv, Working
  <2>4. reqs' = [p \in Requests |-> reqs'[p]]
    BY <1>1
  <2> QED
    BY <2>2, <2>3, <2>4, TypePartsNext
<1>5. \A q \in Requests : reqs'[q] = reqs[q] \/ (q \in Live /\ reqs'[q] = dead(q))
  BY <1>3
<1>6. RunsInv'
  <2>1. \A q \in Requests :
           \/ reqs'[q] = reqs[q]
           \/ /\ reqs[q].pc # "none" /\ reqs'[q].pc # "none" /\ reqs'[q].report = NoRun
              /\ reqs'[q].pc \in {"invoke", "wave", "drain"} => runs[reqs'[q].run].from = NoRun
    BY <1>2, <1>5 DEF Live
  <2> QED
    BY <1>1, <2>1, RunsKept DEF Inv
<1>7. SectionsInv'
  <2>1. \A q \in Requests : reqs'[q] = reqs[q] \/ reqs'[q].pc \notin {"wave", "drain"}
    BY <1>2, <1>5
  <2> QED
    BY <1>1, <2>1, GraphLeft DEF Inv, SectionsInv, ReportIsCoherent
<1>8. PaidInv'
  <2>1. CASE ~past.quiet
    BY <1>1, <2>1, NoQuietKept DEF Inv
  <2>2. CASE past.quiet
    <3>1. \A q \in Requests : reqs'[q].pc \notin Working
      BY <1>2, <1>3 DEF Live, Working
    <3>2. \A q \in Requests :
            \/ reqs'[q] = reqs[q]
            \/ /\ q \in Live /\ reqs'[q].pc # "none" /\ reqs'[q].force = reqs[q].force
               /\ \A s \in Sections : ~Asks(reqs'[q], s)
      BY <1>2, <1>5 DEF Asks
    <3> QED
      BY <1>1, <2>2, <3>1, <3>2, QuietKept DEF Inv
  <2> QED
    BY <2>1, <2>2
<1> QED
  BY <1>4, <1>6, <1>7, <1>8 DEF Inv

\* A request that has arrived moves on without a checkpoint, an output or an answer.
LEMMA MovesOn ==
  ASSUME Inv, NEW p \in Requests,
         reqs' = [q \in Requests |-> reqs'[q]],
         \A q \in Requests : q # p => reqs'[q] = reqs[q],
         Shaped(reqs'[p]),
         p \in Live, reqs'[p].pc \notin {"none", "wave", "drain"},
         reqs'[p].report = NoRun, reqs'[p].force = reqs[p].force,
         reqs'[p].pc \in Working => reqs[p].pc \in Working /\ reqs'[p].run = reqs[p].run,
         reqs'[p].pc = "invoke" => runs[reqs'[p].run].from = NoRun,
         UNCHANGED <<runs, reports, thread, cache>>,
         \/ Served /\ UNCHANGED <<env, past>>
         \/ Unserved
         \/ UNCHANGED <<store, env, past>>
  PROVE  Inv'
<1>1. TypeOK /\ RunsInv /\ SectionsInv /\ PaidInv
  BY DEF Inv
<1>2. /\ store' \in [refusing : BOOLEAN, status : {"ready", "unavailable"}]
      /\ env' \in [faults : Nat, skips : Nat, crashes : Nat, made : 0..MaxRequests, live : Nat]
      /\ past' \in [quiet : BOOLEAN, paid : {past'.paid}]
      /\ \/ past' = NoLongerQuiet
         \/ ~past.quiet /\ past' = past
         \/ past.quiet /\ past' = past /\ ~store'.refusing
  BY <1>1, Housekeeping
<1>3. \A q \in Requests : reqs[q].pc \in Working => reqs[q].run # NoRun /\ runs[reqs[q].run].status # "none"
  BY <1>1 DEF TypeOK
<1>4. TypeOK'
  <2>1. RestOK'
    BY <1>1, <1>2, RestStep
  <2>2. reqs'[p].pc \in Working => reqs'[p].run # NoRun /\ runs'[reqs'[p].run].status # "none"
    BY <1>3
  <2>3. \A r \in Requests : runs[r].status # "none" => runs'[r].status # "none"
    OBVIOUS
  <2> QED
    BY <1>1, <2>1, <2>2, <2>3, TypeStep
<1>5. RunsInv'
  <2>1. \A q \in Requests :
           \/ reqs'[q] = reqs[q]
           \/ /\ reqs[q].pc # "none" /\ reqs'[q].pc # "none" /\ reqs'[q].report = NoRun
              /\ reqs'[q].pc \in {"invoke", "wave", "drain"} => runs[reqs'[q].run].from = NoRun
    BY DEF Live
  <2> QED
    BY <1>1, <2>1, RunsKept
<1>6. SectionsInv'
  <2>1. \A q \in Requests : reqs'[q] = reqs[q] \/ reqs'[q].pc \notin {"wave", "drain"}
    OBVIOUS
  <2> QED
    BY <1>1, <2>1, GraphLeft DEF SectionsInv, ReportIsCoherent
<1>7. PaidInv'
  <2>1. CASE past' = NoLongerQuiet
    BY <2>1, QuietBroken
  <2>2. CASE ~past.quiet /\ past' = past
    BY <1>1, <2>2, NoQuietKept
  <2>3. CASE past.quiet /\ past' = past /\ ~store'.refusing
    <3>1. \A q \in Requests : reqs[q].pc \in Working => reports[reqs[q].run].outcome = "none"
      BY <1>1, <2>3 DEF PaidInv, QuietInv
    <3>2. \A q \in Requests : reqs'[q].pc \in Working => reports'[reqs'[q].run].outcome = "none"
      BY <3>1
    <3>3. \A q \in Requests :
            \/ reqs'[q] = reqs[q]
            \/ /\ q \in Live /\ reqs'[q].pc # "none" /\ reqs'[q].force = reqs[q].force
               /\ \A s \in Sections : ~Asks(reqs'[q], s)
      BY DEF Asks
    <3> QED
      BY <1>1, <2>3, <3>2, <3>3, QuietKept
  <2> QED
    BY <1>2, <2>1, <2>2, <2>3
<1> QED
  BY <1>4, <1>5, <1>6, <1>7 DEF Inv

\* What a shaped request becomes when it only moves on to pc.
LEMMA Turned ==
  ASSUME TypeOK, NEW p \in Requests, NEW pc \in {"ephemeral", "done", "dead", "raised", "invoke"},
         pc = "invoke" => reqs[p].queue = <<>>,
         reqs' = [reqs EXCEPT ![p].pc = pc]
  PROVE  /\ reqs' = [q \in Requests |-> reqs'[q]]
         /\ \A q \in Requests : q # p => reqs'[q] = reqs[q]
         /\ Shaped(reqs'[p])
         /\ reqs'[p].pc = pc /\ reqs'[p].run = reqs[p].run /\ reqs'[p].force = reqs[p].force
         /\ reqs'[p].report = reqs[p].report
<1> DEFINE new == [reqs[p] EXCEPT !.pc = pc]
<1>1. Shaped(reqs[p])
  BY TypeParts
<1>2. reqs[p] \in Request(reqs[p])
  BY <1>1 DEF Shaped
<1>3. pc \in {"none", "ephemeral", "done", "dead"} \cup Working
  BY DEF Working
<1>4. /\ new \in Request(new)
      /\ new.pc = pc /\ new.run = reqs[p].run /\ new.force = reqs[p].force
      /\ new.queue = reqs[p].queue /\ new.report = reqs[p].report
  BY <1>2, <1>3, PcFields
<1>5. reqs' = [reqs EXCEPT ![p] = new]
  OBVIOUS
<1> HIDE DEF new
<1>6. Shaped(new)
  BY <1>1, <1>4 DEF Shaped
<1> QED
  BY <1>4, <1>5, <1>6, OneRequest

LEMMA EphemeralStepInv ==
  ASSUME Inv, NEW p \in Requests, EphemeralStep(p)
  PROVE  Inv'
<1>1. /\ reqs' = reqs /\ UNCHANGED <<runs, reports, thread, cache>> /\ reqs[p].pc = "ephemeral"
      /\ \/ Served /\ UNCHANGED <<env, past>>
         \/ Unserved
  BY DEF EphemeralStep
<1>2. TypeOK /\ AnswerInv
  BY DEF Inv, RunsInv
<1>3. Shaped(reqs[p]) /\ reqs = [q \in Requests |-> reqs[q]]
  BY <1>2, TypeParts
<1>4. p \in Live /\ reqs[p].pc \notin Working
  BY <1>1 DEF Live, Working
<1>5. reqs[p].report = NoRun
  BY <1>1, <1>2 DEF AnswerInv
<1>6. Shaped(reqs'[p])
  BY <1>1, <1>3
<1> QED
  BY <1>1, <1>3, <1>4, <1>5, <1>6, MovesOn

LEMMA EphemeralEndsInv ==
  ASSUME Inv, NEW p \in Requests, EphemeralEnds(p)
  PROVE  Inv'
<1> DEFINE mid == [reqs[p] EXCEPT !.pc = "done"]
           new == [mid EXCEPT !.said = store.status]
<1>1. /\ UNCHANGED <<runs, reports, thread, cache, store, env, past>> /\ reqs[p].pc = "ephemeral"
      /\ reqs' = [reqs EXCEPT ![p].pc = "done", ![p].said = store.status]
  BY DEF EphemeralEnds
<1>2. TypeOK /\ AnswerInv
  BY DEF Inv, RunsInv
<1>3. Shaped(reqs[p]) /\ reqs = [q \in Requests |-> reqs[q]] /\ store.status \in {"ready", "unavailable"}
  BY <1>2, TypeParts DEF TypeOK
<1>4. p \in Live
  BY <1>1 DEF Live
<1>5. reqs[p].report = NoRun
  BY <1>1, <1>2 DEF AnswerInv
<1>6. reqs[p] \in Request(reqs[p]) /\ reqs[p].queue \in Seq(Held(reqs[p].queue))
  BY <1>3 DEF Shaped
<1>7. /\ mid \in Request(mid) /\ mid.pc = "done" /\ mid.force = reqs[p].force
      /\ mid.queue = reqs[p].queue /\ mid.report = reqs[p].report
  BY <1>6 DEF Request
<1>8. reqs' = [reqs EXCEPT ![p] = new]
  BY <1>1, <1>3
<1> HIDE DEF mid
<1>9. /\ new \in Request(new) /\ new.pc = "done" /\ new.force = reqs[p].force
      /\ new.queue = reqs[p].queue /\ new.report = reqs[p].report
  BY <1>3, <1>7 DEF Request
<1> HIDE DEF new
<1>10. Shaped(new)
  BY <1>6, <1>9 DEF Shaped
<1>11. /\ reqs' = [q \in Requests |-> reqs'[q]]
       /\ reqs'[p] = new
       /\ \A q \in Requests : q # p => reqs'[q] = reqs[q]
  BY <1>2, <1>8, OneRequest
<1>12. "done" \notin Working
  BY DEF Working
<1> QED
  BY <1>1, <1>4, <1>5, <1>9, <1>10, <1>11, <1>12, MovesOn

LEMMA LoadInv ==
  ASSUME Inv, NEW p \in Requests, Load(p)
  PROVE  Inv'
<1>1. /\ UNCHANGED <<runs, reports, thread, cache>> /\ reqs[p].pc = "load"
      /\ \/ Served /\ UNCHANGED <<env, past>>
         \/ Unserved
  BY DEF Load
<1>2. PICK pc \in {"done", "invoke"} :
        /\ reqs' = [reqs EXCEPT ![p].pc = pc]
        /\ pc = "invoke" => thread[reqs[p].run].cps # {}
  BY DEF Load
<1>3. TypeOK /\ AnswerInv /\ ReuseInv
  BY DEF Inv, RunsInv
<1>4. reqs[p].queue = <<>> /\ reqs[p].run \in Requests
  <2>1. reqs[p].run # NoRun
    BY <1>1, <1>3 DEF TypeOK, Working
  <2> QED
    BY <1>1, <1>3, <2>1 DEF TypeOK, Request
<1>5. /\ reqs' = [q \in Requests |-> reqs'[q]]
      /\ \A q \in Requests : q # p => reqs'[q] = reqs[q]
      /\ Shaped(reqs'[p])
      /\ reqs'[p].pc = pc /\ reqs'[p].run = reqs[p].run /\ reqs'[p].force = reqs[p].force
      /\ reqs'[p].report = reqs[p].report
  BY <1>2, <1>3, <1>4, Turned
<1>6. p \in Live /\ reqs[p].pc \in Working
  BY <1>1 DEF Live, Working
<1>7. reqs[p].report = NoRun
  BY <1>1, <1>3 DEF AnswerInv
<1>8. pc = "invoke" => runs[reqs[p].run].from = NoRun
  BY <1>2, <1>3, <1>4 DEF ReuseInv
<1> QED
  BY <1>1, <1>5, <1>6, <1>7, <1>8, MovesOn

-----------------------------------------------------------------------------
\* A request arrives.

\* What is known of a request in line, and of the run it may start.
LEMMA InLine ==
  ASSUME Inv, NEW p \in Requests, Arrives(p)
  PROVE  /\ reqs[p].pc = "none"
         /\ runs[p].status = "none" /\ runs[p].from = NoRun
         /\ thread[p] = NoThread /\ reports[p].outcome = "none"
         /\ \A q \in Requests : reqs[q].pc \in Working => reqs[q].run # p
<1>1. reqs[p].pc = "none"
  BY DEF Arrives
<1>2. /\ runs[p].status = "none" /\ runs[p].from = NoRun
      /\ thread[p] = NoThread /\ reports[p].outcome = "none"
  BY <1>1 DEF Inv, RunsInv, LineInv
<1>3. \A q \in Requests : reqs[q].pc \in Working => reqs[q].run # p
  BY <1>2 DEF Inv, TypeOK
<1> QED
  BY <1>1, <1>2, <1>3

\* What an arrival notes in the history.
LEMMA Notes ==
  ASSUME TypeOK,
         \/ Served /\ past' = Noted /\ UNCHANGED env
         \/ Refused /\ past' = Noted /\ UNCHANGED env
         \/ Opens /\ Fault
  PROVE  /\ store' \in [refusing : BOOLEAN, status : {"ready", "unavailable"}]
         /\ env' \in [faults : Nat, skips : Nat, crashes : Nat, made : 0..MaxRequests, live : Nat]
         /\ past' \in [quiet : BOOLEAN, paid : {past'.paid}]
         /\ PaidInv => \/ past' = NoLongerQuiet
                       \/ ~past.quiet /\ past' = past
                       \/ past.quiet /\ past' = past /\ ~store'.refusing /\ Live = {}
<1>1. /\ store \in [refusing : BOOLEAN, status : {"ready", "unavailable"}]
      /\ env \in [faults : Nat, skips : Nat, crashes : Nat, made : 0..MaxRequests, live : Nat]
      /\ past \in [quiet : BOOLEAN, paid : {past.paid}]
  BY DEF TypeOK
<1>2. PaidInv => (past.quiet => ~store.refusing)
  BY DEF PaidInv, QuietInv
<1>3. Noted = NoLongerQuiet \/ (Noted = past /\ Live = {})
  BY DEF Noted
<1>4. NoLongerQuiet \in [quiet : BOOLEAN, paid : {NoLongerQuiet.paid}]
  BY StoreSteps
<1>5. CASE Served /\ past' = Noted /\ UNCHANGED env
  BY <1>1, <1>3, <1>4, <1>5, StoreSteps
<1>6. CASE Refused /\ past' = Noted /\ UNCHANGED env
  BY <1>1, <1>2, <1>3, <1>4, <1>6, StoreSteps
<1>7. CASE Opens /\ Fault
  <2>1. past' = NoLongerQuiet
    BY <1>7, StoreSteps
  <2> QED
    BY <1>4, <1>7, <2>1, StoreSteps
<1> QED
  BY <1>5, <1>6, <1>7

\* An arrival whose request does not start on a graph.
LEMMA Comes ==
  ASSUME Inv, NEW p \in Requests, Arrives(p),
         reqs' = [q \in Requests |-> reqs'[q]],
         \A q \in Requests : q # p => reqs'[q] = reqs[q],
         Shaped(reqs'[p]),
         reqs'[p].pc \in {"ephemeral", "load", "done"},
         reqs'[p].pc = "load" => /\ reqs'[p].run \in Requests /\ runs'[reqs'[p].run].status # "none"
                                 /\ reports[reqs'[p].run].outcome = "none",
         \A r \in Requests : runs[r].status # "none" => runs'[r].status # "none",
         runs' \in [Requests -> [status : Statuses \cup {"none"}, from : Requests \cup {NoRun}]],
         UNCHANGED <<reports, thread, cache>>,
         RunsInv',
         \/ Served /\ past' = Noted /\ UNCHANGED env
         \/ Refused /\ past' = Noted /\ UNCHANGED env
         \/ Opens /\ Fault
  PROVE  Inv'
<1>1. TypeOK /\ RunsInv /\ SectionsInv /\ PaidInv /\ LineInv
  BY DEF Inv, RunsInv
<1>2. /\ store' \in [refusing : BOOLEAN, status : {"ready", "unavailable"}]
      /\ env' \in [faults : Nat, skips : Nat, crashes : Nat, made : 0..MaxRequests, live : Nat]
      /\ past' \in [quiet : BOOLEAN, paid : {past'.paid}]
      /\ \/ past' = NoLongerQuiet
         \/ ~past.quiet /\ past' = past
         \/ past.quiet /\ past' = past /\ ~store'.refusing /\ Live = {}
  BY <1>1, Notes
<1>3. TypeOK'
  <2>1. reports = [r \in Requests |-> reports[r]] /\ \A r \in Requests : reports[r].outcome \in {"none", "partial", "succeeded"}
    BY <1>1 DEF TypeOK
  <2>2. RestOK'
    BY <1>1, <1>2, <2>1, RestStep
  <2>3. reqs'[p].pc \in Working => reqs'[p].run # NoRun /\ runs'[reqs'[p].run].status # "none"
    BY DEF Working, Requests, NoRun
  <2> QED
    BY <1>1, <2>2, <2>3, TypeStep
<1>4. SectionsInv'
  <2>1. \A q \in Requests : reqs'[q] = reqs[q] \/ reqs'[q].pc \notin {"wave", "drain"}
    OBVIOUS
  <2> QED
    BY <1>1, <2>1, GraphLeft DEF SectionsInv, ReportIsCoherent
<1>5. PaidInv'
  <2>1. CASE past' = NoLongerQuiet
    BY <2>1, QuietBroken
  <2>2. CASE ~past.quiet /\ past' = past
    BY <1>1, <2>2, NoQuietKept
  <2>3. CASE past.quiet /\ past' = past /\ ~store'.refusing /\ Live = {}
    <3>1. \A s \in Sections : ~Asks(reqs'[p], s)
      BY DEF Asks
    <3>2. reqs'[p].pc \in Working => reports'[reqs'[p].run].outcome = "none"
      BY DEF Working
    <3> QED
      BY <1>1, <2>3, <3>1, <3>2, QuietArrival
  <2> QED
    BY <1>2, <2>1, <2>2, <2>3
<1> QED
  BY <1>3, <1>4, <1>5 DEF Inv

\* A request that comes and goes, or comes without a ticket.
Blank(pc, run, force, report, secs, said) ==
    [pc |-> pc, run |-> run, force |-> force, wave |-> 0, secs |-> secs, outs |-> {},
     stage |-> [s \in Sections |-> "todo"], cp |-> 0, queue |-> <<>>, report |-> report, said |-> said]

LEMMA BlankNoRequest ==
  \E no \in BOOLEAN : ~no /\ NoRequest = Blank("none", NoRun, no, NoRun, {}, "none")
<1>1. NoRequest = Blank("none", NoRun, FALSE, NoRun, {}, "none")
  BY DEF NoRequest, Blank
<1> QED
  BY <1>1

LEMMA NewShape ==
  ASSUME NEW pc \in {"ephemeral", "load", "done"}, NEW run \in Requests \cup {NoRun}, NEW force \in BOOLEAN,
         NEW report \in Requests \cup {NoRun}, NEW secs, NEW said \in {"none", "ready"}, NEW new,
         new = Blank(pc, run, force, report, secs, said)
  PROVE  /\ Shaped(new)
         /\ new.pc = pc /\ new.run = run /\ new.force = force /\ new.report = report /\ new.secs = secs
<1> DEFINE st == [s \in Sections |-> "todo"]
<1>1. 0 \in 0..(LastWave + 1)
  BY WaveFacts
<1>2. st \in [Sections -> Stages]
  BY DEF Stages
<1>3. new = [pc |-> pc, run |-> run, force |-> force, wave |-> 0, secs |-> secs, outs |-> {},
             stage |-> st, cp |-> 0, queue |-> <<>>, report |-> report, said |-> said]
  BY DEF Blank
<1> HIDE DEF st
<1>4. new.queue = <<>> /\ new.secs = secs /\ new.outs = {} /\ new.pc = pc
  BY <1>3
<1>5. pc \in {"none", "ephemeral", "done", "dead"} \cup Working
  BY DEF Working
<1>6. said \in {"none", "ready", "unavailable"}
  OBVIOUS
<1>7. new \in [pc : {"none", "ephemeral", "done", "dead"} \cup Working, run : Requests \cup {NoRun},
               force : BOOLEAN, wave : 0..(LastWave + 1), secs : {secs}, outs : {{}},
               stage : [Sections -> Stages], cp : Nat, queue : {<<>>}, report : Requests \cup {NoRun},
               said : {"none", "ready", "unavailable"}]
  BY <1>1, <1>2, <1>3, <1>5, <1>6
<1>8. new \in Request(new)
  BY <1>4, <1>7 DEF Request
<1>9. <<>> \in Seq(Held(<<>>))
  OBVIOUS
<1> QED
  BY <1>3, <1>4, <1>8, <1>9 DEF Shaped

\* The runs and the answers where a request arrives.
LEMMA RunsArrive ==
  ASSUME TypeOK, RunsInv, NEW p \in Requests, Arrives(p),
         \A q \in Requests : q # p => reqs'[q] = reqs[q],
         reqs'[p].pc # "none", reports' = reports,
         \A r \in Requests :
            thread'[r] = thread[r] \/ (r = p /\ runs'[p].status # "none" /\ runs'[p].from = NoRun),
         \A r \in Requests :
            \/ runs'[r] = runs[r]
            \/ /\ runs'[r].status = "running" /\ runs'[r].from = runs[r].from
               /\ r = p \/ runs[r].status # "none"
            \/ /\ r = p /\ runs'[r].status = "succeeded" /\ runs'[r].from \in Requests
               /\ reports[runs'[r].from].outcome = "succeeded",
         reqs'[p].pc \in {"invoke", "wave", "drain"} => reqs'[p].run = p /\ runs'[p].from = NoRun,
         reqs'[p].report # NoRun =>
            /\ reqs'[p].pc = "done" /\ reqs'[p].report \in Requests
            /\ reports[reqs'[p].report].outcome # "none"
            /\ reports[reqs'[p].report].secs = reqs'[p].secs
            /\ reqs'[p].run = p /\ reqs'[p].report # p => reports[reqs'[p].report].outcome = "succeeded"
  PROVE  RunsInv'
<1>1. LineInv /\ ReuseInv /\ AnswerInv /\ SettledRunsHaveReports /\ AnswerIsStored
  BY DEF RunsInv
<1>2. reqs[p].pc = "none" /\ runs[p].status = "none" /\ runs[p].from = NoRun /\ thread[p] = NoThread
  BY <1>1 DEF Arrives, LineInv
<1>3. LineInv'
  <2>1. ASSUME NEW a \in Requests, NEW b \in Requests, a < b, reqs'[a].pc = "none"
        PROVE  reqs'[b].pc = "none"
    <3>1. a # p /\ reqs[a].pc = "none"
      BY <2>1
    <3>2. ~(a < p)
      BY <3>1 DEF Arrives, Requests
    <3>3. b # p
      BY <2>1, <3>1, <3>2 DEF Requests
    <3> QED
      BY <1>1, <2>1, <3>1, <3>3 DEF LineInv
  <2>2. ASSUME NEW q \in Requests, reqs'[q].pc = "none"
        PROVE  runs'[q].status = "none"
    <3>1. q # p /\ reqs[q].pc = "none"
      BY <2>2
    <3>2. runs[q].status = "none"
      BY <1>1, <3>1 DEF LineInv
    <3> QED
      BY <3>1, <3>2
  <2>3. ASSUME NEW r \in Requests, runs'[r].status = "none"
        PROVE  runs'[r].from = NoRun /\ thread'[r] = NoThread /\ reports'[r].outcome = "none"
    <3>1. runs'[r] = runs[r]
      BY <2>3
    <3>2. thread'[r] = thread[r]
      BY <2>3
    <3> QED
      BY <1>1, <2>3, <3>1, <3>2 DEF LineInv
  <2> QED
    BY <2>1, <2>2, <2>3 DEF LineInv
<1>4. ReuseInv'
  <2> SUFFICES ASSUME NEW r \in Requests, runs'[r].from # NoRun
               PROVE  /\ reports'[runs'[r].from].outcome = "succeeded" /\ runs'[r].status # "partial"
                      /\ thread'[r].cps = {}
                      /\ \A q \in Requests : reqs'[q].pc \in {"invoke", "wave", "drain"} => reqs'[q].run # r
    BY DEF ReuseInv
  <2>1. CASE r # p
    <3>1. runs'[r].from = runs[r].from /\ (runs'[r].status = runs[r].status \/ runs'[r].status = "running")
      BY <2>1
    <3>2. thread'[r] = thread[r]
      BY <2>1
    <3> QED
      BY <1>1, <2>1, <3>1, <3>2 DEF ReuseInv
  <2>2. CASE r = p
    <3>1. reports[runs'[p].from].outcome = "succeeded" /\ runs'[p].status = "succeeded"
      BY <1>2, <2>2
    <3>2. thread'[p] = NoThread
      BY <1>2, <2>2
    <3>3. \A q \in Requests : reqs'[q].pc \in {"invoke", "wave", "drain"} => reqs'[q].run # p
      <4>1. \A q \in Requests : reqs[q].pc \in {"invoke", "wave", "drain"} => reqs[q].run # p
        BY <1>2 DEF TypeOK, Working
      <4> QED
        BY <2>2, <4>1
    <3> QED
      BY <2>2, <3>1, <3>2, <3>3 DEF NoThread
  <2> QED
    BY <2>1, <2>2
<1>5. AnswerInv'
  BY <1>1 DEF AnswerInv
<1>6. SettledRunsHaveReports'
  <2> SUFFICES ASSUME NEW r \in Requests, runs'[r].status \in {"succeeded", "partial"}
               PROVE  reports'[IF runs'[r].from = NoRun THEN r ELSE runs'[r].from].outcome = runs'[r].status
    BY DEF SettledRunsHaveReports
  <2>1. CASE runs'[r] = runs[r]
    BY <1>1, <2>1 DEF SettledRunsHaveReports
  <2>2. CASE /\ r = p /\ runs'[r].status = "succeeded" /\ runs'[r].from \in Requests
             /\ reports[runs'[r].from].outcome = "succeeded"
    BY <2>2 DEF NoRun, Requests
  <2> QED
    BY <2>1, <2>2
<1>7. AnswerIsStored'
  <2> SUFFICES ASSUME NEW q \in Requests, reqs'[q].report # NoRun
               PROVE  /\ reports'[reqs'[q].report].secs = reqs'[q].secs
                      /\ reqs'[q].run = q /\ reqs'[q].report # q => \A x \in reqs'[q].secs : ~x.skipped
    BY DEF AnswerIsStored
  <2>1. CASE q # p
    BY <1>1, <2>1 DEF AnswerIsStored
  <2>2. CASE q = p
    BY <1>1, <2>2 DEF AnswerInv
  <2> QED
    BY <2>1, <2>2
<1> QED
  BY <1>3, <1>4, <1>5, <1>6, <1>7 DEF RunsInv

LEMMA ResumeUnservedInv ==
  ASSUME Inv, NEW p \in Requests, NEW r \in Requests, ResumeUnserved(p, r)
  PROVE  Inv'
<1> DEFINE new == [NoRequest EXCEPT !.pc = "done", !.run = r]
<1>1. /\ Arrives(p) /\ reqs' = [reqs EXCEPT ![p] = new] /\ UNCHANGED <<runs, reports, thread, cache>>
      /\ \/ Refused /\ past' = Noted /\ UNCHANGED env
         \/ Opens /\ Fault
  BY DEF ResumeUnserved
<1>2. TypeOK /\ RunsInv
  BY DEF Inv
<1>3. PICK no \in BOOLEAN : ~no /\ NoRequest = Blank("none", NoRun, no, NoRun, {}, "none")
  BY BlankNoRequest
<1> DEFINE none == Blank("none", NoRun, no, NoRun, {}, "none")
<1>3a. new = [none EXCEPT !.pc = "done", !.run = r]
  BY <1>3
<1> HIDE DEF new
<1>3b. new = Blank("done", r, no, NoRun, {}, "none")
  BY <1>3a DEF Blank
<1> HIDE DEF new
<1>4. Shaped(new) /\ new.pc = "done" /\ new.report = NoRun
  BY <1>3b, NewShape
<1>5. /\ reqs' = [q \in Requests |-> reqs'[q]]
      /\ reqs'[p] = new
      /\ \A q \in Requests : q # p => reqs'[q] = reqs[q]
  BY <1>1, <1>2, OneRequest
<1>6. runs' \in [Requests -> [status : Statuses \cup {"none"}, from : Requests \cup {NoRun}]]
  BY <1>1, <1>2 DEF TypeOK
<1>7. RunsInv'
  BY <1>1, <1>2, <1>4, <1>5, RunsArrive
<1> QED
  BY <1>1, <1>4, <1>5, <1>6, <1>7, Comes

\* A run of which the status changes.
LEMMA StatusFields ==
  ASSUME TypeOK, NEW r \in Requests, NEW s \in Statuses, runs' = [runs EXCEPT ![r].status = s]
  PROVE  /\ runs' \in [Requests -> [status : Statuses \cup {"none"}, from : Requests \cup {NoRun}]]
         /\ runs'[r].status = s /\ runs'[r].from = runs[r].from
         /\ \A q \in Requests : q # r => runs'[q] = runs[q]
<1> DEFINE new == [runs[r] EXCEPT !.status = s]
<1>1. runs \in [Requests -> [status : Statuses \cup {"none"}, from : Requests \cup {NoRun}]]
  BY DEF TypeOK
<1>2. /\ new \in [status : Statuses \cup {"none"}, from : Requests \cup {NoRun}]
      /\ new.status = s /\ new.from = runs[r].from
  BY <1>1
<1>3. runs' = [runs EXCEPT ![r] = new]
  OBVIOUS
<1> HIDE DEF new
<1> QED
  BY <1>1, <1>2, <1>3

LEMMA StartUnservedInv ==
  ASSUME Inv, NEW p \in Requests, NEW force \in BOOLEAN, StartUnserved(p, force)
  PROVE  Inv'
<1> DEFINE new == [NoRequest EXCEPT !.pc = "ephemeral", !.force = force]
<1>1. /\ Arrives(p) /\ reqs' = [reqs EXCEPT ![p] = new] /\ UNCHANGED <<reports, thread, cache>>
      /\ \/ Refused /\ past' = Noted /\ UNCHANGED env
         \/ Opens /\ Fault
      /\ runs' = runs \/ runs' = [runs EXCEPT ![p].status = "running"]
  BY DEF StartUnserved
<1>2. TypeOK /\ RunsInv
  BY DEF Inv
<1>3. PICK no \in BOOLEAN : ~no /\ NoRequest = Blank("none", NoRun, no, NoRun, {}, "none")
  BY BlankNoRequest
<1> DEFINE none == Blank("none", NoRun, no, NoRun, {}, "none")
<1>4. new = [none EXCEPT !.pc = "ephemeral", !.force = force]
  BY <1>3
<1> HIDE DEF new
<1>5. new = Blank("ephemeral", NoRun, force, NoRun, {}, "none")
  BY <1>4 DEF Blank
<1>6. Shaped(new) /\ new.pc = "ephemeral" /\ new.report = NoRun
  <2>1. /\ "ephemeral" \in {"ephemeral", "load", "done"} /\ "none" \in {"none", "ready"}
        /\ NoRun \in Requests \cup {NoRun}
    OBVIOUS
  <2>2. ASSUME NEW run \in Requests \cup {NoRun}, run = NoRun
        PROVE  Shaped(new) /\ new.pc = "ephemeral" /\ new.report = NoRun
    <3>1. new = Blank("ephemeral", run, force, run, {}, "none")
      BY <1>5, <2>2
    <3> QED
      BY <2>1, <2>2, <3>1, NewShape
  <2> QED
    BY <2>1, <2>2
<1>7. /\ reqs' = [q \in Requests |-> reqs'[q]]
      /\ reqs'[p] = new
      /\ \A q \in Requests : q # p => reqs'[q] = reqs[q]
  BY <1>1, <1>2, OneRequest
<1>8. /\ runs' \in [Requests -> [status : Statuses \cup {"none"}, from : Requests \cup {NoRun}]]
      /\ \A r \in Requests :
            \/ runs'[r] = runs[r]
            \/ r = p /\ runs'[r].status = "running" /\ runs'[r].from = runs[r].from
  <2>1. CASE runs' = runs
    BY <1>2, <2>1 DEF TypeOK
  <2>2. CASE runs' = [runs EXCEPT ![p].status = "running"]
    <3>1. "running" \in Statuses
      BY DEF Statuses
    <3> QED
      BY <1>2, <2>2, <3>1, StatusFields
  <2> QED
    BY <1>1, <2>1, <2>2
<1>9. RunsInv'
  BY <1>1, <1>2, <1>6, <1>7, <1>8, RunsArrive
<1>10. \A r \in Requests : runs[r].status # "none" => runs'[r].status # "none"
  BY <1>8
<1> QED
  BY <1>1, <1>6, <1>7, <1>8, <1>9, <1>10, Comes

LEMMA ResumeInv ==
  ASSUME Inv, NEW p \in Requests, NEW r \in Requests, Resume(p, r)
  PROVE  Inv'
<1>1. /\ Arrives(p) /\ runs[r].status # "none" /\ Served /\ past' = Noted
      /\ UNCHANGED <<reports, thread, cache, env>>
  BY DEF Resume
<1>2. TypeOK /\ RunsInv
  BY DEF Inv
<1>3. PICK no \in BOOLEAN : ~no /\ NoRequest = Blank("none", NoRun, no, NoRun, {}, "none")
  BY BlankNoRequest
<1> DEFINE none == Blank("none", NoRun, no, NoRun, {}, "none")
<1>4. reqs[p].pc = "none" /\ runs[p].status = "none"
  BY <1>1, InLine
<1>5. CASE /\ reports[r].outcome # "none" /\ runs' = runs
           /\ reqs' = [reqs EXCEPT ![p] = [NoRequest EXCEPT !.pc = "done", !.run = r, !.report = r,
                                            !.secs = reports[r].secs, !.said = "ready"]]
  <2> DEFINE new == [NoRequest EXCEPT !.pc = "done", !.run = r, !.report = r,
                                      !.secs = reports[r].secs, !.said = "ready"]
             given == reports[r].secs
  <2>1. new = [none EXCEPT !.pc = "done", !.run = r, !.report = r, !.secs = given, !.said = "ready"]
    BY <1>3
  <2>2. reqs' = [reqs EXCEPT ![p] = new]
    BY <1>5
  <2> HIDE DEF new, given
  <2>3. new = Blank("done", r, no, r, given, "ready")
    BY <2>1 DEF Blank
  <2>4. /\ Shaped(new) /\ new.pc = "done" /\ new.report = r /\ new.run = r
        /\ new.secs = reports[r].secs
    BY <2>3, NewShape DEF given
  <2>5. /\ reqs' = [q \in Requests |-> reqs'[q]]
        /\ reqs'[p] = new
        /\ \A q \in Requests : q # p => reqs'[q] = reqs[q]
    BY <1>2, <2>2, OneRequest
  <2>6. runs' \in [Requests -> [status : Statuses \cup {"none"}, from : Requests \cup {NoRun}]]
    BY <1>2, <1>5 DEF TypeOK
  <2>7. r # p
    BY <1>1, <1>4
  <2>8. RunsInv'
    BY <1>1, <1>2, <1>5, <2>4, <2>5, <2>7, RunsArrive
  <2> QED
    BY <1>1, <1>5, <2>4, <2>5, <2>6, <2>8, Comes
<1>6. CASE /\ reports[r].outcome = "none"
           /\ reqs' = [reqs EXCEPT ![p] = [NoRequest EXCEPT !.pc = "load", !.run = r]]
           /\ runs' = [runs EXCEPT ![r].status = "running"]
  <2> DEFINE new == [NoRequest EXCEPT !.pc = "load", !.run = r]
  <2>1. new = [none EXCEPT !.pc = "load", !.run = r]
    BY <1>3
  <2>2. reqs' = [reqs EXCEPT ![p] = new]
    BY <1>6
  <2> HIDE DEF new
  <2>3. new = Blank("load", r, no, NoRun, {}, "none")
    BY <2>1 DEF Blank
  <2>4. Shaped(new) /\ new.pc = "load" /\ new.report = NoRun /\ new.run = r
    BY <2>3, NewShape
  <2>5. /\ reqs' = [q \in Requests |-> reqs'[q]]
        /\ reqs'[p] = new
        /\ \A q \in Requests : q # p => reqs'[q] = reqs[q]
    BY <1>2, <2>2, OneRequest
  <2>6. "running" \in Statuses
    BY DEF Statuses
  <2>7. /\ runs' \in [Requests -> [status : Statuses \cup {"none"}, from : Requests \cup {NoRun}]]
        /\ runs'[r].status = "running" /\ runs'[r].from = runs[r].from
        /\ \A q \in Requests : q # r => runs'[q] = runs[q]
    BY <1>2, <1>6, <2>6, StatusFields
  <2>8. RunsInv'
    BY <1>1, <1>2, <2>4, <2>5, <2>7, RunsArrive
  <2>9. \A q \in Requests : runs[q].status # "none" => runs'[q].status # "none"
    BY <2>7
  <2> QED
    BY <1>1, <1>6, <2>4, <2>5, <2>7, <2>8, <2>9, Comes
<1> QED
  BY <1>5, <1>6 DEF Resume

-----------------------------------------------------------------------------
\* A request works on its graph.

\* What WaveInv says of one request.
WaveOK(req) ==
    req.pc = "wave" =>
        /\ WrittenFrom(req.outs, req.wave, req.secs)
        /\ \A s \in Waves[req.wave] : req.stage[s] \in {"kept", "done"} <=> \E x \in req.outs : x.sec = s
        /\ \A v \in (req.wave + 1)..LastWave : \A s \in Waves[v] : req.stage[s] = "todo"

LEMMA WaveParts == WaveInv <=> \A p \in Requests : WaveOK(reqs[p])
BY DEF WaveInv, WaveOK

LEMMA WaveStep ==
  ASSUME WaveInv, NEW p \in Requests, WaveOK(reqs'[p]),
         \A q \in Requests : q # p => reqs'[q] = reqs[q]
  PROVE  WaveInv'
<1>1. \A q \in Requests : WaveOK(reqs'[q])
  BY WaveParts
<1> QED
  BY <1>1 DEF WaveInv, WaveOK

\* A run gets one more checkpoint.
LEMMA TrailGrows ==
  ASSUME TypeOK, TrailInv, WritesInv, NEW r \in Requests, NEW new,
         new \in [id : {thread[r].ids + 1}, wave : 1..(LastWave + 1), secs : {new.secs}],
         Whole(new.secs, new.wave),
         thread'[r].ids = thread[r].ids + 1, thread'[r].writes = thread[r].writes,
         Trail(r)' \subseteq Trail(r) \cup {new},
         \A q \in Requests : q # r =>
            /\ thread'[q].ids = thread[q].ids /\ thread'[q].writes = thread[q].writes
            /\ Trail(q)' \subseteq Trail(q)
  PROVE  TrailInv' /\ WritesInv'
<1>1. thread[r].ids \in Nat
  BY DEF TypeOK
<1>2. \A c \in Trail(r) : c \in [id : 1..thread[r].ids, wave : 1..(LastWave + 1), secs : {c.secs}]
  BY DEF TrailInv
<1>3. \A c \in Trail(r) : c.id \in 1..thread[r].ids
  BY <1>2
<1>4. \A w \in thread[r].writes : w \in [id : 1..thread[r].ids, out : {w.out}]
  BY DEF WritesInv
<1>5. new.id = thread[r].ids + 1
  OBVIOUS
<1>6. ASSUME NEW q \in Requests, NEW c \in Trail(q)'
      PROVE  c \in [id : 1..thread'[q].ids, wave : 1..(LastWave + 1), secs : {c.secs}] /\ Whole(c.secs, c.wave)
  <2>1. CASE q # r
    BY <2>1 DEF TrailInv
  <2>2. CASE q = r /\ c \in Trail(r)
    <3>1. c \in [id : 1..thread[r].ids, wave : 1..(LastWave + 1), secs : {c.secs}] /\ Whole(c.secs, c.wave)
      BY <2>2 DEF TrailInv
    <3>2. c \in [id : 1..(thread[r].ids + 1), wave : 1..(LastWave + 1), secs : {c.secs}]
      BY <1>1, <3>1
    <3> QED
      BY <2>2, <3>1, <3>2
  <2>3. CASE q = r /\ c = new
    <3>1. c \in [id : 1..(thread[r].ids + 1), wave : 1..(LastWave + 1), secs : {c.secs}]
      BY <1>1, <2>3
    <3> QED
      BY <2>3, <3>1
  <2> QED
    BY <2>1, <2>2, <2>3
<1>7. ASSUME NEW q \in Requests, NEW c \in Trail(q)', NEW d \in Trail(q)', c.id = d.id
      PROVE  c = d
  <2>1. CASE q # r
    BY <1>7, <2>1 DEF TrailInv
  <2>2. CASE q = r
    <3>1. CASE c \in Trail(r) /\ d \in Trail(r)
      BY <1>7, <3>1 DEF TrailInv
    <3>2. CASE c = new /\ d = new
      BY <3>2
    <3>3. CASE c \in Trail(r) /\ d = new
      BY <1>1, <1>3, <1>5, <1>7, <3>3
    <3>4. CASE c = new /\ d \in Trail(r)
      BY <1>1, <1>3, <1>5, <1>7, <3>4
    <3> QED
      BY <2>2, <3>1, <3>2, <3>3, <3>4
  <2> QED
    BY <2>1, <2>2
<1>8. TrailInv'
  BY <1>6, <1>7 DEF TrailInv
<1>9. ASSUME NEW q \in Requests, NEW w \in thread'[q].writes
      PROVE  w \in [id : 1..thread'[q].ids, out : {w.out}]
  <2>1. CASE q # r
    BY <2>1 DEF WritesInv
  <2>2. CASE q = r
    <3>1. w \in [id : 1..thread[r].ids, out : {w.out}]
      BY <1>4, <2>2
    <3>2. w \in [id : 1..(thread[r].ids + 1), out : {w.out}]
      BY <1>1, <3>1
    <3> QED
      BY <2>2, <3>2
  <2> QED
    BY <2>1, <2>2
<1>10. \A q \in Requests : \A v, w \in thread'[q].writes : v.id = w.id /\ v.out.sec = w.out.sec => v = w
  BY DEF WritesInv
<1>11. ASSUME NEW q \in Requests, NEW c \in Trail(q)', NEW w \in thread'[q].writes, w.id = c.id
       PROVE  c.wave <= LastWave /\ w.out.sec \in Waves[c.wave] /\ w.out.prior = c.secs
  <2>1. CASE q # r \/ c \in Trail(r)
    BY <1>11, <2>1 DEF WritesInv
  <2>2. CASE q = r /\ c = new
    <3>1. w \in [id : 1..thread[r].ids, out : {w.out}]
      BY <1>4, <2>2
    <3>2. w.id \in 1..thread[r].ids
      BY <3>1
    <3> QED
      BY <1>1, <1>5, <1>11, <2>2, <3>2
  <2> QED
    BY <2>1, <2>2
<1>12. WritesInv'
  BY <1>9, <1>10, <1>11 DEF WritesInv
<1> QED
  BY <1>8, <1>12

ThreadOK ==
    /\ thread = [q \in Requests |-> thread[q]]
    /\ \A q \in Requests : thread[q] \in [cps : {thread[q].cps}, writes : {thread[q].writes}, ids : Nat]

\* What a served or an unserved operation leaves for the history.
HousekeepingOK ==
    /\ store' \in [refusing : BOOLEAN, status : {"ready", "unavailable"}]
    /\ env' \in [faults : Nat, skips : Nat, crashes : Nat, made : 0..MaxRequests, live : Nat]
    /\ past' \in [quiet : BOOLEAN, paid : {past'.paid}]
    /\ \/ past' = NoLongerQuiet
       \/ ~past.quiet /\ past' = past
       \/ past.quiet /\ past' = past /\ ~store'.refusing

\* The parts of a step on the graph that pays for nothing.
LEMMA GraphStep ==
  ASSUME Inv, NEW p \in Requests, NEW r \in Requests, reqs[p].run = r,
         reqs' = [q \in Requests |-> reqs'[q]],
         \A q \in Requests : q # p => reqs'[q] = reqs[q],
         Shaped(reqs'[p]),
         reqs[p].pc \in {"invoke", "wave", "drain"}, reqs'[p].pc \in {"wave", "drain"},
         reqs'[p].run = r, reqs'[p].report = reqs[p].report, reqs'[p].force = reqs[p].force,
         UNCHANGED <<runs, reports, cache>>,
         ThreadOK', \A q \in Requests : q # r => thread'[q] = thread[q],
         HousekeepingOK,
         TrailInv', WritesInv', WaveOK(reqs'[p]),
         past.quiet /\ past' = past =>
            \A s \in Sections : Asks(reqs'[p], s) => \A e \in cache : e.key # <<s, reqs'[p].secs>>
  PROVE  Inv'
<1>1. TypeOK /\ RunsInv /\ SectionsInv /\ PaidInv /\ GraphInv /\ WaveInv /\ CacheInv /\ ReuseInv /\ AnswerInv
  BY DEF Inv, RunsInv, SectionsInv, GraphInv
<1>2. runs[r].status # "none"
  BY <1>1 DEF TypeOK, Working
<1>3. runs[r].from = NoRun
  BY <1>1 DEF ReuseInv
<1>4. reqs[p].report = NoRun
  BY <1>1 DEF AnswerInv
<1>5. TypeOK'
  <2>1. /\ thread' = [q \in Requests |-> thread'[q]]
        /\ \A q \in Requests : thread'[q] \in [cps : {thread'[q].cps}, writes : {thread'[q].writes}, ids : Nat]
    BY DEF ThreadOK
  <2>2. RestOK'
    BY <1>1, <2>1, RestStep DEF HousekeepingOK
  <2>3. reqs'[p].run # NoRun /\ runs'[reqs'[p].run].status # "none"
    BY <1>2 DEF Requests, NoRun
  <2>4. \A q \in Requests : runs[q].status # "none" => runs'[q].status # "none"
    OBVIOUS
  <2> QED
    BY <1>1, <2>2, <2>3, <2>4, TypeStep
<1>6. RunsInv'
  <2>1. \A q \in Requests : thread'[q] = thread[q] \/ (runs[q].status # "none" /\ runs[q].from = NoRun)
    BY <1>2, <1>3
  <2>2. \A q \in Requests :
           \/ reqs'[q] = reqs[q]
           \/ /\ reqs[q].pc # "none" /\ reqs'[q].pc # "none" /\ reqs'[q].report = NoRun
              /\ reqs'[q].pc \in {"invoke", "wave", "drain"} => runs[reqs'[q].run].from = NoRun
    BY <1>3, <1>4
  <2> QED
    BY <1>1, <2>1, <2>2, RunsKept
<1>7. SectionsInv'
  <2>1. WaveInv'
    BY <1>1, WaveStep
  <2>2. CacheInv' /\ ReportIsCoherent'
    BY <1>1 DEF CacheInv, SectionsInv, ReportIsCoherent
  <2> QED
    BY <2>1, <2>2 DEF SectionsInv, GraphInv
<1>8. PaidInv'
  <2>1. CASE past' = NoLongerQuiet
    BY <2>1, QuietBroken
  <2>2. CASE ~past.quiet /\ past' = past
    BY <1>1, <2>2, NoQuietKept
  <2>3. CASE past.quiet /\ past' = past /\ ~store'.refusing
    <3>1. \A q \in Requests : reqs[q].pc \in Working => reports[reqs[q].run].outcome = "none"
      BY <1>1, <2>3 DEF PaidInv, QuietInv
    <3>2. \A q \in Requests : reqs'[q].pc \in Working => reports'[reqs'[q].run].outcome = "none"
      <4>1. reports[r].outcome = "none"
        BY <3>1 DEF Working
      <4> QED
        BY <3>1, <4>1
    <3>3. p \in Live
      BY DEF Live
    <3>4. \A q \in Requests :
            \/ reqs'[q] = reqs[q]
            \/ /\ q \in Live /\ reqs'[q].pc # "none" /\ reqs'[q].force = reqs[q].force
               /\ \A s \in Sections : Asks(reqs'[q], s) => \A e \in cache : e.key # <<s, reqs'[q].secs>>
      BY <2>3, <3>3
    <3> QED
      BY <1>1, <2>3, <3>2, <3>4, QuietKept
  <2> QED
    BY <2>1, <2>2, <2>3 DEF HousekeepingOK
<1> QED
  BY <1>5, <1>6, <1>7, <1>8 DEF Inv

\* A section of a wave gets its output.
LEMMA KeptWave ==
  ASSUME NEW req, req \in Request(req), WaveOK(req), req.pc = "wave", req.wave \in 1..LastWave,
         NEW s \in Waves[req.wave], req.stage[s] \notin {"kept", "done"},
         NEW x, x.sec = s, x.prior = req.secs,
         NEW new, new.pc = "wave", new.wave = req.wave, new.secs = req.secs, new.outs = req.outs \cup {x},
         new.stage[s] = "kept", \A t \in Sections : t # s => new.stage[t] = req.stage[t]
  PROVE  WaveOK(new)
<1>1. /\ WrittenFrom(req.outs, req.wave, req.secs)
      /\ \A t \in Waves[req.wave] : req.stage[t] \in {"kept", "done"} <=> \E y \in req.outs : y.sec = t
      /\ \A v \in (req.wave + 1)..LastWave : \A t \in Waves[v] : req.stage[t] = "todo"
  BY DEF WaveOK
<1>2. \A y \in req.outs : y.sec # s
  BY <1>1
<1>3. WrittenFrom(new.outs, new.wave, new.secs)
  BY <1>1, <1>2 DEF WrittenFrom
<1>4. ASSUME NEW t \in Waves[new.wave]
      PROVE  new.stage[t] \in {"kept", "done"} <=> \E y \in new.outs : y.sec = t
  <2>1. t \in Sections
    BY WaveFacts
  <2>2. CASE t = s
    BY <2>2
  <2>3. CASE t # s
    <3>1. new.stage[t] = req.stage[t]
      BY <2>1, <2>3
    <3>2. (\E y \in new.outs : y.sec = t) <=> (\E y \in req.outs : y.sec = t)
      BY <2>3
    <3> QED
      BY <1>1, <3>1, <3>2
  <2> QED
    BY <2>2, <2>3
<1>5. ASSUME NEW v \in (new.wave + 1)..LastWave, NEW t \in Waves[v]
      PROVE  new.stage[t] = "todo"
  <2>1. v \in 1..LastWave /\ v # req.wave
    BY WaveFacts
  <2>2. t \in Sections /\ t # s
    BY <2>1, WaveFacts
  <2> QED
    BY <1>1, <2>2
<1> QED
  BY <1>3, <1>4, <1>5 DEF WaveOK

\* A section of a wave moves on without one.
LEMMA StageWave ==
  ASSUME NEW req, req \in Request(req), WaveOK(req), req.pc = "wave", req.wave \in 1..LastWave,
         NEW s \in Waves[req.wave], NEW stage,
         \/ req.stage[s] = "todo" /\ stage = "calling"
         \/ req.stage[s] = "kept" /\ stage = "done",
         NEW new, new.pc = "wave", new.wave = req.wave, new.secs = req.secs, new.outs = req.outs,
         new.stage[s] = stage, \A t \in Sections : t # s => new.stage[t] = req.stage[t]
  PROVE  WaveOK(new)
<1>1. /\ WrittenFrom(req.outs, req.wave, req.secs)
      /\ \A t \in Waves[req.wave] : req.stage[t] \in {"kept", "done"} <=> \E y \in req.outs : y.sec = t
      /\ \A v \in (req.wave + 1)..LastWave : \A t \in Waves[v] : req.stage[t] = "todo"
  BY DEF WaveOK
<1>2. WrittenFrom(new.outs, new.wave, new.secs)
  BY <1>1
<1>3. ASSUME NEW t \in Waves[new.wave]
      PROVE  new.stage[t] \in {"kept", "done"} <=> \E y \in new.outs : y.sec = t
  <2>1. t \in Sections
    BY WaveFacts
  <2>2. new.stage[t] \in {"kept", "done"} <=> req.stage[t] \in {"kept", "done"}
    BY <2>1
  <2> QED
    BY <1>1, <2>2
<1>4. ASSUME NEW v \in (new.wave + 1)..LastWave, NEW t \in Waves[v]
      PROVE  new.stage[t] = "todo"
  <2>1. v \in 1..LastWave /\ v # req.wave
    BY WaveFacts
  <2>2. t \in Sections /\ t # s
    BY <2>1, WaveFacts
  <2> QED
    BY <1>1, <2>2
<1> QED
  BY <1>2, <1>3, <1>4 DEF WaveOK

\* Where a request stays on its checkpoint and nothing is written to the thread.
LEMMA SameTrail ==
  ASSUME Inv, NEW p \in Requests,
         \A q \in Requests : q # p => reqs'[q] = reqs[q],
         reqs'[p].pc = reqs[p].pc, reqs'[p].run = reqs[p].run, reqs'[p].wave = reqs[p].wave,
         reqs'[p].secs = reqs[p].secs, reqs'[p].cp = reqs[p].cp,
         Held(reqs'[p].queue) \subseteq Held(reqs[p].queue)
  PROVE  /\ At(reqs'[p]) = At(reqs[p])
         /\ \A r \in Requests : thread'[r].cps \subseteq Trail(r) => Trail(r)' \subseteq Trail(r)
         /\ thread' = thread => TrailInv' /\ WritesInv'
<1>1. At(reqs'[p]) = At(reqs[p])
  BY DEF At
<1>2. ASSUME NEW r \in Requests, thread'[r].cps \subseteq Trail(r)
      PROVE  Trail(r)' \subseteq Trail(r)
  <2>1. ASSUME NEW q \in Requests, reqs'[q].run = r, reqs'[q].pc \in {"wave", "drain"}
        PROVE  At(reqs'[q]) \in Trail(r) /\ Held(reqs'[q].queue) \subseteq Trail(r)
    <3>1. reqs[q].run = r /\ reqs[q].pc \in {"wave", "drain"}
      BY <2>1
    <3>2. At(reqs[q]) \in Trail(r) /\ Held(reqs[q].queue) \subseteq Trail(r)
      BY <3>1, OnTrail
    <3>3. At(reqs'[q]) = At(reqs[q]) /\ Held(reqs'[q].queue) \subseteq Held(reqs[q].queue)
      BY <1>1
    <3> QED
      BY <3>2, <3>3
  <2> QED
    BY <1>2, <2>1, TrailBound
<1>3. ASSUME thread' = thread PROVE TrailInv' /\ WritesInv'
  <2>1. \A r \in Requests : Trail(r)' \subseteq Trail(r)
    BY <1>2, <1>3, OnTrail
  <2>2. TrailInv /\ WritesInv
    BY DEF Inv, SectionsInv, GraphInv
  <2> QED
    BY <1>3, <2>1, <2>2, TrailKept
<1> QED
  BY <1>1, <1>2, <1>3

\* What is known of a request whose section is at work.
LEMMA AtWork ==
  ASSUME Inv, NEW p \in Requests, NEW s, NEW stage, InWave(p, s, stage)
  PROVE  /\ reqs[p].pc = "wave" /\ reqs[p].wave \in 1..LastWave /\ s \in Waves[reqs[p].wave] /\ s \in Sections
         /\ reqs[p].stage[s] = stage
         /\ Shaped(reqs[p]) /\ reqs[p] \in Request(reqs[p]) /\ reqs[p].queue \in Seq(Held(reqs[p].queue))
         /\ reqs[p].run \in Requests /\ WaveOK(reqs[p])
         /\ ThreadOK
<1>1. TypeOK /\ WaveInv
  BY DEF Inv, SectionsInv, GraphInv
<1>2. reqs[p].pc = "wave" /\ s \in Waves[reqs[p].wave] /\ reqs[p].stage[s] = stage
  BY DEF InWave
<1>3. reqs[p].wave \in 1..LastWave
  BY <1>1, <1>2 DEF TypeOK
<1>4. s \in Sections
  BY <1>2, <1>3, WaveFacts
<1>5. reqs[p] \in Request(reqs[p]) /\ reqs[p].queue \in Seq(Held(reqs[p].queue)) /\ Shaped(reqs[p])
  BY <1>1, TypeParts DEF Shaped
<1>6. reqs[p].run \in Requests
  <2>1. reqs[p].run # NoRun
    BY <1>1, <1>2 DEF TypeOK, Working
  <2> QED
    BY <1>5, <2>1 DEF Request
<1>7. WaveOK(reqs[p])
  BY <1>1, WaveParts
<1>8. ThreadOK
  BY <1>1 DEF TypeOK, ThreadOK
<1> QED
  BY <1>2, <1>3, <1>4, <1>5, <1>6, <1>7, <1>8

\* A section that asks the model, and nothing is written.
LEMMA SectionCalls ==
  ASSUME Inv, NEW p \in Requests, NEW s \in Sections, InWave(p, s, "todo"),
         reqs' = [reqs EXCEPT ![p].stage[s] = "calling"],
         UNCHANGED <<runs, reports, thread, cache>>,
         \/ Served /\ UNCHANGED <<env, past>>
         \/ Unserved
         \/ UNCHANGED <<store, env, past>>,
         \/ reqs[p].force
         \/ Unserved
         \/ \A e \in cache : e.key # CacheKey(s, reqs[p].secs)
  PROVE  Inv'
<1> DEFINE st == [reqs[p].stage EXCEPT ![s] = "calling"]
           new == [reqs[p] EXCEPT !.stage = st]
<1>1. /\ reqs[p].pc = "wave" /\ reqs[p].wave \in 1..LastWave /\ s \in Waves[reqs[p].wave]
      /\ reqs[p].stage[s] = "todo"
      /\ Shaped(reqs[p]) /\ reqs[p] \in Request(reqs[p]) /\ reqs[p].run \in Requests /\ WaveOK(reqs[p])
      /\ ThreadOK
  BY AtWork
<1>2. TypeOK /\ PaidInv
  BY DEF Inv
<1>3. /\ st \in [Sections -> Stages] /\ st[s] = "calling"
      /\ \A t \in Sections : t # s => st[t] = reqs[p].stage[t]
  BY <1>1 DEF Request, Stages
<1>5. reqs' = [reqs EXCEPT ![p] = new]
  OBVIOUS
<1> HIDE DEF st
<1>4. /\ new \in Request(new)
      /\ new.pc = reqs[p].pc /\ new.run = reqs[p].run /\ new.force = reqs[p].force /\ new.wave = reqs[p].wave
      /\ new.secs = reqs[p].secs /\ new.outs = reqs[p].outs /\ new.cp = reqs[p].cp
      /\ new.queue = reqs[p].queue /\ new.report = reqs[p].report
      /\ new.stage[s] = "calling" /\ \A t \in Sections : t # s => new.stage[t] = reqs[p].stage[t]
  BY <1>1, <1>3, StageFields
<1> HIDE DEF new
<1>6. /\ reqs' = [q \in Requests |-> reqs'[q]] /\ reqs'[p] = new
      /\ \A q \in Requests : q # p => reqs'[q] = reqs[q]
  BY <1>2, <1>5, OneRequest
<1>7. Shaped(new)
  BY <1>1, <1>4 DEF Shaped
<1>8. WaveOK(new)
  BY <1>1, <1>4, StageWave
<1>9. TrailInv' /\ WritesInv'
  BY <1>4, <1>6, SameTrail
<1>10. HousekeepingOK
  BY <1>2, Housekeeping DEF HousekeepingOK
<1>11. ASSUME past.quiet, past' = past, NEW t \in Sections, Asks(new, t)
       PROVE  \A e \in cache : e.key # <<t, new.secs>>
  <2>1. ~reqs[p].force /\ reqs[p].pc = "wave" /\ t \in Waves[reqs[p].wave] /\ new.stage[t] = "calling"
    BY <1>4, <1>11 DEF Asks
  <2>2. CASE t # s
    <3>1. InWave(p, t, "calling")
      BY <1>4, <2>1, <2>2 DEF InWave
    <3> QED
      BY <1>2, <1>4, <1>11, <2>1, <3>1 DEF PaidInv, QuietInv
  <2>3. CASE t = s
    <3>1. ~Unserved
      <4>1. ~store.refusing
        BY <1>2, <1>11 DEF PaidInv, QuietInv
      <4>2. past' # NoLongerQuiet
        BY <1>11 DEF NoLongerQuiet
      <4> QED
        BY <1>2, <4>1, <4>2, StoreSteps DEF Unserved
    <3> QED
      BY <1>4, <2>1, <2>3, <3>1 DEF CacheKey
  <2> QED
    BY <2>2, <2>3
<1>12. ThreadOK'
  BY <1>1 DEF ThreadOK
<1>13. past.quiet /\ past' = past =>
          \A t \in Sections : Asks(reqs'[p], t) => \A e \in cache : e.key # <<t, reqs'[p].secs>>
  BY <1>6, <1>11
<1>14. PICK r \in Requests : r = reqs[p].run
  BY <1>1
<1>15. /\ Shaped(reqs'[p]) /\ WaveOK(reqs'[p]) /\ reqs'[p].run = r
       /\ reqs[p].pc \in {"invoke", "wave", "drain"} /\ reqs'[p].pc \in {"wave", "drain"}
       /\ reqs'[p].report = reqs[p].report /\ reqs'[p].force = reqs[p].force
       /\ \A q \in Requests : q # r => thread'[q] = thread[q]
  BY <1>1, <1>4, <1>6, <1>7, <1>8, <1>14
<1> QED
  BY <1>6, <1>9, <1>10, <1>12, <1>13, <1>14, <1>15, GraphStep

\* A request whose section has its output, whoever wrote it.
HasOutput(p, s) ==
    /\ reqs' = [q \in Requests |-> reqs'[q]]
    /\ \A q \in Requests : q # p => reqs'[q] = reqs[q]
    /\ Shaped(reqs'[p]) /\ WaveOK(reqs'[p])
    /\ reqs'[p].pc = reqs[p].pc /\ reqs'[p].run = reqs[p].run /\ reqs'[p].force = reqs[p].force
    /\ reqs'[p].wave = reqs[p].wave /\ reqs'[p].secs = reqs[p].secs /\ reqs'[p].cp = reqs[p].cp
    /\ reqs'[p].queue = reqs[p].queue /\ reqs'[p].report = reqs[p].report
    /\ reqs'[p].stage[s] = "kept" /\ \A t \in Sections : t # s => reqs'[p].stage[t] = reqs[p].stage[t]

LEMMA KeepsOutput ==
  ASSUME Inv, NEW p \in Requests, NEW s \in Sections, NEW stage \in {"todo", "calling"}, InWave(p, s, stage),
         NEW x, x.sec = s, x.prior = reqs[p].secs,
         NEW new, new = Kept(reqs[p], s, x), reqs' = [reqs EXCEPT ![p] = new]
  PROVE  HasOutput(p, s)
<1>1. /\ reqs[p].pc = "wave" /\ reqs[p].wave \in 1..LastWave /\ s \in Waves[reqs[p].wave]
      /\ reqs[p].stage[s] = stage
      /\ Shaped(reqs[p]) /\ reqs[p] \in Request(reqs[p]) /\ WaveOK(reqs[p])
  BY AtWork
<1>2. TypeOK
  BY DEF Inv
<1>4. /\ new \in Request(new)
      /\ new.pc = reqs[p].pc /\ new.run = reqs[p].run /\ new.force = reqs[p].force /\ new.wave = reqs[p].wave
      /\ new.secs = reqs[p].secs /\ new.outs = reqs[p].outs \cup {x} /\ new.cp = reqs[p].cp
      /\ new.queue = reqs[p].queue /\ new.report = reqs[p].report
      /\ new.stage[s] = "kept" /\ \A t \in Sections : t # s => new.stage[t] = reqs[p].stage[t]
  BY <1>1, KeptFields
<1>5. /\ reqs' = [q \in Requests |-> reqs'[q]] /\ reqs'[p] = new
      /\ \A q \in Requests : q # p => reqs'[q] = reqs[q]
  BY <1>2, OneRequest
<1>6. Shaped(new)
  BY <1>1, <1>4 DEF Shaped
<1>7. reqs[p].stage[s] \notin {"kept", "done"}
  BY <1>1
<1>8. WaveOK(new)
  BY <1>1, <1>4, <1>7, KeptWave
<1> QED
  BY <1>4, <1>5, <1>6, <1>8 DEF HasOutput

\* What keeps the quiet when a section has its output: no other section asks anew.
LEMMA OthersAsk ==
  ASSUME Inv, past.quiet, NEW p \in Requests, NEW s \in Sections, reqs[p].pc = "wave",
         NEW new, new.pc = "wave", new.wave = reqs[p].wave, new.secs = reqs[p].secs, new.force = reqs[p].force,
         new.stage[s] # "calling", \A t \in Sections : t # s => new.stage[t] = reqs[p].stage[t],
         NEW t \in Sections, Asks(new, t)
  PROVE  t # s /\ InWave(p, t, "calling") /\ \A e \in cache : e.key # <<t, new.secs>>
<1>1. t # s /\ ~reqs[p].force /\ t \in Waves[reqs[p].wave] /\ reqs[p].stage[t] = "calling"
  BY DEF Asks
<1>2. InWave(p, t, "calling")
  BY <1>1 DEF InWave
<1> QED
  BY <1>1, <1>2 DEF Inv, PaidInv, QuietInv

\* A section that has its output without paying for it.
LEMMA SectionKept ==
  ASSUME Inv, NEW p \in Requests, NEW s \in Sections, NEW stage \in {"todo", "calling"}, InWave(p, s, stage),
         NEW x, x.sec = s, x.prior = reqs[p].secs,
         reqs' = [reqs EXCEPT ![p] = Kept(@, s, x)],
         UNCHANGED <<runs, reports, thread, cache>>,
         HousekeepingOK
  PROVE  Inv'
<1>1. /\ reqs' = [q \in Requests |-> reqs'[q]]
      /\ \A q \in Requests : q # p => reqs'[q] = reqs[q]
      /\ Shaped(reqs'[p]) /\ WaveOK(reqs'[p])
      /\ reqs'[p].pc = reqs[p].pc /\ reqs'[p].run = reqs[p].run /\ reqs'[p].force = reqs[p].force
      /\ reqs'[p].wave = reqs[p].wave /\ reqs'[p].secs = reqs[p].secs /\ reqs'[p].cp = reqs[p].cp
      /\ reqs'[p].queue = reqs[p].queue /\ reqs'[p].report = reqs[p].report
      /\ reqs'[p].stage[s] = "kept" /\ \A t \in Sections : t # s => reqs'[p].stage[t] = reqs[p].stage[t]
  <2>1. PICK new : new = Kept(reqs[p], s, x)
    OBVIOUS
  <2>2. reqs' = [reqs EXCEPT ![p] = new]
    BY <2>1
  <2>3. HasOutput(p, s)
    BY <2>1, <2>2, KeepsOutput
  <2> QED
    BY <2>3 DEF HasOutput
<1>2. reqs[p].pc = "wave" /\ reqs[p].run \in Requests /\ ThreadOK
  BY AtWork
<1>3. TrailInv' /\ WritesInv'
  BY <1>1, SameTrail
<1>4. ThreadOK'
  BY <1>2 DEF ThreadOK
<1>5. PICK r \in Requests : r = reqs[p].run
  BY <1>2
<1>6. /\ reqs'[p].run = r
      /\ reqs[p].pc \in {"invoke", "wave", "drain"} /\ reqs'[p].pc \in {"wave", "drain"}
      /\ \A q \in Requests : q # r => thread'[q] = thread[q]
  BY <1>1, <1>2, <1>5
<1>7. ASSUME past.quiet, past' = past, NEW t \in Sections, Asks(reqs'[p], t)
      PROVE  \A e \in cache : e.key # <<t, reqs'[p].secs>>
  <2>1. PICK new : new = reqs'[p]
    OBVIOUS
  <2>2. /\ new.pc = "wave" /\ new.wave = reqs[p].wave /\ new.secs = reqs[p].secs /\ new.force = reqs[p].force
        /\ new.stage[s] # "calling" /\ \A o \in Sections : o # s => new.stage[o] = reqs[p].stage[o]
        /\ Asks(new, t)
    BY <1>1, <1>2, <1>7, <2>1
  <2>3. \A e \in cache : e.key # <<t, new.secs>>
    BY <1>2, <1>7, <2>2, OthersAsk
  <2> QED
    BY <2>1, <2>3
<1>8. past.quiet /\ past' = past =>
         \A t \in Sections : Asks(reqs'[p], t) => \A e \in cache : e.key # <<t, reqs'[p].secs>>
  BY <1>7
<1> QED
  BY <1>1, <1>3, <1>4, <1>5, <1>6, <1>8, GraphStep

LEMMA SectionGetInv ==
  ASSUME Inv, NEW p \in Requests, NEW s \in Sections, SectionGet(p, s)
  PROVE  Inv'
<1> DEFINE hits == {e \in cache : e.key = CacheKey(s, reqs[p].secs)}
           missed == [reqs EXCEPT ![p].stage[s] = "calling"]
<1>1. /\ InWave(p, s, "todo") /\ UNCHANGED <<runs, reports, thread, cache>>
      /\ \/ reqs[p].force /\ reqs' = missed /\ UNCHANGED <<store, env, past>>
         \/ ~reqs[p].force /\ Unserved /\ reqs' = missed
         \/ /\ ~reqs[p].force /\ Served
            /\ \/ hits = {} /\ reqs' = missed
               \/ \E e \in hits : reqs' = [reqs EXCEPT ![p] = Kept(@, s, e.out)]
            /\ UNCHANGED <<env, past>>
  BY DEF SectionGet
<1>2. CASE reqs[p].force /\ reqs' = missed /\ UNCHANGED <<store, env, past>>
  BY <1>1, <1>2, SectionCalls
<1>3. CASE ~reqs[p].force /\ Unserved /\ reqs' = missed
  BY <1>1, <1>3, SectionCalls
<1>4. CASE ~reqs[p].force /\ Served /\ hits = {} /\ reqs' = missed /\ UNCHANGED <<env, past>>
  <2>1. \A e \in cache : e.key # CacheKey(s, reqs[p].secs)
    BY <1>4
  <2> QED
    BY <1>1, <1>4, <2>1, SectionCalls
<1>5. ASSUME ~reqs[p].force, Served, UNCHANGED <<env, past>>,
             NEW e \in hits, reqs' = [reqs EXCEPT ![p] = Kept(@, s, e.out)]
      PROVE  Inv'
  <2>1. e \in cache /\ e.key = <<s, reqs[p].secs>>
    BY DEF CacheKey
  <2>2. e.key = <<e.out.sec, e.out.prior>>
    BY <2>1 DEF Inv, SectionsInv, GraphInv, CacheInv
  <2>3. PICK x : x = e.out
    OBVIOUS
  <2>4. x.sec = s /\ x.prior = reqs[p].secs /\ reqs' = [reqs EXCEPT ![p] = Kept(@, s, x)]
    BY <1>5, <2>1, <2>2, <2>3
  <2>5. HousekeepingOK
    BY <1>5, Housekeeping DEF Inv, HousekeepingOK
  <2>6. "todo" \in {"todo", "calling"}
    OBVIOUS
  <2> QED
    BY <1>1, <2>4, <2>5, <2>6, SectionKept
<1> QED
  BY <1>1, <1>2, <1>3, <1>4, <1>5

LEMMA SectionSkippedInv ==
  ASSUME Inv, NEW p \in Requests, NEW s \in Sections, SectionSkipped(p, s)
  PROVE  Inv'
<1>1. /\ InWave(p, s, "calling") /\ env.skips > 0 /\ env' = [env EXCEPT !.skips = @ - 1]
      /\ reqs' = [reqs EXCEPT ![p] = Kept(@, s, Payload(s, p, TRUE, reqs[p].secs))]
      /\ UNCHANGED <<runs, reports, thread, cache, store, past>>
  BY DEF SectionSkipped
<1>2. PICK x : x = Payload(s, p, TRUE, reqs[p].secs)
  OBVIOUS
<1>3. x.sec = s /\ x.prior = reqs[p].secs
  BY <1>2 DEF Payload
<1>4. reqs' = [reqs EXCEPT ![p] = Kept(@, s, x)]
  BY <1>1, <1>2
<1>5. HousekeepingOK
  <2>1. env \in [faults : Nat, skips : Nat, crashes : Nat, made : 0..MaxRequests, live : Nat]
    BY DEF Inv, TypeOK
  <2>2. env' \in [faults : Nat, skips : Nat, crashes : Nat, made : 0..MaxRequests, live : Nat]
    BY <1>1, <2>1
  <2>3. /\ store \in [refusing : BOOLEAN, status : {"ready", "unavailable"}]
        /\ past \in [quiet : BOOLEAN, paid : {past.paid}]
    BY DEF Inv, TypeOK
  <2>4. past.quiet => ~store.refusing
    BY DEF Inv, PaidInv, QuietInv
  <2> QED
    BY <1>1, <2>2, <2>3, <2>4 DEF HousekeepingOK
<1>6. "calling" \in {"todo", "calling"}
  OBVIOUS
<1> QED
  BY <1>1, <1>3, <1>4, <1>5, <1>6, SectionKept

\* The rows of one output under the checkpoint its request stands on.
RowsOf(p, s) == {[id |-> reqs[p].cp, out |-> x] : x \in {y \in reqs[p].outs : y.sec = s}}

\* They say what the writes under that checkpoint must say.
LEMMA RowsWritten ==
  ASSUME Inv, NEW p \in Requests, NEW s \in Sections, InWave(p, s, "kept"),
         NEW r \in Requests, r = reqs[p].run,
         ~ \E w \in thread[r].writes : w.id = reqs[p].cp /\ w.out.sec = s,
         NEW rows, rows = RowsOf(p, s),
         \A q \in Requests : /\ thread'[q].ids = thread[q].ids
                             /\ Trail(q)' \subseteq Trail(q)
                             /\ q # r => thread'[q].writes = thread[q].writes,
         thread'[r].writes = thread[r].writes \cup rows
  PROVE  WritesInv'
<1>1. /\ reqs[p].pc = "wave" /\ reqs[p].wave \in 1..LastWave /\ WaveOK(reqs[p])
  BY AtWork
<1>2. /\ TrailInv /\ WritesInv
  BY DEF Inv, SectionsInv, GraphInv
<1> DEFINE here == At(reqs[p])
<1>3. here \in Trail(r)
  BY <1>1, OnTrail
<1>4. here.id = reqs[p].cp /\ here.wave = reqs[p].wave /\ here.secs = reqs[p].secs
  BY DEF At
<1> HIDE DEF here
<1>5. here.id \in 1..thread[r].ids
  BY <1>2, <1>3 DEF TrailInv
<1>6. WrittenFrom(reqs[p].outs, reqs[p].wave, reqs[p].secs)
  BY <1>1 DEF WaveOK
<1>7. ASSUME NEW w \in rows
      PROVE  /\ w \in [id : 1..thread[r].ids, out : {w.out}]
             /\ w.id = here.id /\ w.out \in reqs[p].outs /\ w.out.sec = s
             /\ w.out.sec \in Waves[here.wave] /\ w.out.prior = here.secs
  <2>1. PICK x \in reqs[p].outs : x.sec = s /\ w = [id |-> reqs[p].cp, out |-> x]
    BY DEF RowsOf
  <2>2. w.id = here.id /\ w.out = x
    BY <1>4, <2>1
  <2>3. w \in [id : 1..thread[r].ids, out : {w.out}]
    BY <1>4, <1>5, <2>1, <2>2
  <2>4. x.sec \in Waves[here.wave] /\ x.prior = here.secs
    BY <1>4, <1>6, <2>1 DEF WrittenFrom
  <2> QED
    BY <2>1, <2>2, <2>3, <2>4
<1>8. \A v, w \in rows : v = w
  <2>1. ASSUME NEW v \in rows, NEW w \in rows PROVE v = w
    <3>1. v.out \in reqs[p].outs /\ w.out \in reqs[p].outs /\ v.out.sec = s /\ w.out.sec = s
      BY <1>7
    <3>2. v.out = w.out
      BY <1>6, <3>1 DEF WrittenFrom
    <3>3. v.id = w.id
      BY <1>7
    <3>4. v = [id |-> v.id, out |-> v.out] /\ w = [id |-> w.id, out |-> w.out]
      BY <1>7
    <3> QED
      BY <3>2, <3>3, <3>4
  <2> QED
    BY <2>1
<1>9. ASSUME NEW q \in Requests
      PROVE  /\ \A w \in thread'[q].writes : w \in [id : 1..thread'[q].ids, out : {w.out}]
             /\ \A v, w \in thread'[q].writes : v.id = w.id /\ v.out.sec = w.out.sec => v = w
             /\ \A c \in Trail(q)', w \in thread'[q].writes : w.id = c.id =>
                   c.wave <= LastWave /\ w.out.sec \in Waves[c.wave] /\ w.out.prior = c.secs
  <2>1. CASE q # r
    BY <1>2, <2>1 DEF WritesInv
  <2>2. CASE q = r
    <3>1. /\ \A w \in thread[r].writes : w \in [id : 1..thread[r].ids, out : {w.out}]
          /\ \A v, w \in thread[r].writes : v.id = w.id /\ v.out.sec = w.out.sec => v = w
          /\ \A c \in Trail(r), w \in thread[r].writes : w.id = c.id =>
                   c.wave <= LastWave /\ w.out.sec \in Waves[c.wave] /\ w.out.prior = c.secs
      BY <1>2 DEF WritesInv
    <3>2. \A w \in thread'[r].writes : w \in [id : 1..thread'[r].ids, out : {w.out}]
      BY <1>7, <3>1
    <3>3. ASSUME NEW v \in thread'[r].writes, NEW w \in thread'[r].writes, v.id = w.id, v.out.sec = w.out.sec
          PROVE  v = w
      <4>1. CASE v \in rows /\ w \in rows
        BY <1>8, <4>1
      <4>2. CASE v \in thread[r].writes /\ w \in thread[r].writes
        BY <3>1, <3>3, <4>2
      <4>3. CASE v \in rows /\ w \in thread[r].writes
        BY <1>4, <1>7, <3>3, <4>3
      <4>4. CASE v \in thread[r].writes /\ w \in rows
        BY <1>4, <1>7, <3>3, <4>4
      <4> QED
        BY <4>1, <4>2, <4>3, <4>4
    <3>4. ASSUME NEW c \in Trail(r)', NEW w \in thread'[r].writes, w.id = c.id
          PROVE  c.wave <= LastWave /\ w.out.sec \in Waves[c.wave] /\ w.out.prior = c.secs
      <4>1. c \in Trail(r)
        OBVIOUS
      <4>2. CASE w \in thread[r].writes
        BY <3>1, <3>4, <4>1, <4>2
      <4>3. CASE w \in rows
        <5>1. c.id = here.id
          BY <1>7, <3>4, <4>3
        <5>2. c = here
          BY <1>2, <1>3, <4>1, <5>1 DEF TrailInv
        <5> QED
          BY <1>1, <1>4, <1>7, <4>3, <5>2
      <4> QED
        BY <4>2, <4>3
    <3> QED
      BY <2>2, <3>2, <3>3, <3>4
  <2> QED
    BY <2>1, <2>2
<1> QED
  BY <1>9 DEF WritesInv

\* A thread that gets outputs, or checkpoints, or ids.
LEMMA ThreadFields ==
  ASSUME ThreadOK, NEW r \in Requests, NEW new, new \in [cps : {new.cps}, writes : {new.writes}, ids : Nat],
         thread' = [thread EXCEPT ![r] = new]
  PROVE  /\ ThreadOK'
         /\ thread'[r] = new
         /\ \A q \in Requests : q # r => thread'[q] = thread[q]
<1>1. thread = [q \in Requests |-> thread[q]]
  BY DEF ThreadOK
<1>2. /\ thread' = [q \in Requests |-> thread'[q]]
      /\ thread'[r] = new
      /\ \A q \in Requests : q # r => thread'[q] = thread[q]
  BY <1>1
<1>3. \A q \in Requests : thread'[q] \in [cps : {thread'[q].cps}, writes : {thread'[q].writes}, ids : Nat]
  BY <1>2 DEF ThreadOK
<1> QED
  BY <1>2, <1>3 DEF ThreadOK

LEMMA PutWritesInv ==
  ASSUME Inv, NEW p \in Requests, NEW s \in Sections, PutWrites(p, s)
  PROVE  Inv'
<1> DEFINE r == reqs[p].run
           there == \E w \in thread[r].writes : w.id = reqs[p].cp /\ w.out.sec = s
           rows == {[id |-> reqs[p].cp, out |-> x] : x \in {y \in reqs[p].outs : y.sec = s}}
           more == [thread EXCEPT ![r].writes = @ \cup rows]
           st == [reqs[p].stage EXCEPT ![s] = "done"]
           new == [reqs[p] EXCEPT !.stage = st]
<1>1. /\ InWave(p, s, "kept") /\ reqs' = [reqs EXCEPT ![p].stage[s] = "done"]
      /\ \/ Served /\ UNCHANGED <<env, past>>
         \/ Unserved
      /\ thread' = thread \/ (~there /\ thread' = more)
      /\ UNCHANGED <<runs, reports, cache>>
  BY DEF PutWrites, Unserved
<1>2. /\ reqs[p].pc = "wave" /\ reqs[p].wave \in 1..LastWave /\ s \in Waves[reqs[p].wave]
      /\ reqs[p].stage[s] = "kept"
      /\ Shaped(reqs[p]) /\ reqs[p] \in Request(reqs[p]) /\ reqs[p].run \in Requests /\ WaveOK(reqs[p])
      /\ ThreadOK
  BY <1>1, AtWork
<1>3. TypeOK
  BY DEF Inv
<1>4. /\ st \in [Sections -> Stages] /\ st[s] = "done"
      /\ \A t \in Sections : t # s => st[t] = reqs[p].stage[t]
  BY <1>2 DEF Request, Stages
<1>5. reqs' = [reqs EXCEPT ![p] = new]
  BY <1>1
<1> HIDE DEF st
<1>6. /\ new \in Request(new)
      /\ new.pc = reqs[p].pc /\ new.run = reqs[p].run /\ new.force = reqs[p].force /\ new.wave = reqs[p].wave
      /\ new.secs = reqs[p].secs /\ new.outs = reqs[p].outs /\ new.cp = reqs[p].cp
      /\ new.queue = reqs[p].queue /\ new.report = reqs[p].report
      /\ new.stage[s] = "done" /\ \A t \in Sections : t # s => new.stage[t] = reqs[p].stage[t]
  BY <1>2, <1>4, StageFields
<1> HIDE DEF new
<1>7. /\ reqs' = [q \in Requests |-> reqs'[q]] /\ reqs'[p] = new
      /\ \A q \in Requests : q # p => reqs'[q] = reqs[q]
  BY <1>3, <1>5, OneRequest
<1>8. Shaped(new)
  BY <1>2, <1>6 DEF Shaped
<1>9. WaveOK(new)
  BY <1>2, <1>6, StageWave
<1>10. HousekeepingOK
  BY <1>1, Housekeeping DEF Inv, HousekeepingOK
<1>11. PICK run \in Requests : run = r
  BY <1>2
<1>12. \A q \in Requests : thread'[q].cps \subseteq Trail(q) => Trail(q)' \subseteq Trail(q)
  BY <1>6, <1>7, SameTrail
<1>13. /\ ThreadOK' /\ TrailInv' /\ WritesInv'
       /\ \A q \in Requests : q # run => thread'[q] = thread[q]
  <2>1. CASE thread' = thread
    <3>1. TrailInv' /\ WritesInv'
      BY <1>6, <1>7, <2>1, SameTrail
    <3>2. ThreadOK'
      BY <1>2, <2>1 DEF ThreadOK
    <3> QED
      BY <2>1, <3>1, <3>2
  <2>2. CASE ~there /\ thread' = more
    <3> DEFINE grown == [thread[run] EXCEPT !.writes = @ \cup rows]
               all == rows
    <3>1. thread[run] \in [cps : {thread[run].cps}, writes : {thread[run].writes}, ids : Nat]
      BY <1>2 DEF ThreadOK
    <3>2. thread' = [thread EXCEPT ![run] = grown]
      BY <1>11, <2>2
    <3>3. all = RowsOf(p, s)
      BY DEF RowsOf
    <3>4. grown = [thread[run] EXCEPT !.writes = @ \cup all]
      OBVIOUS
    <3> HIDE DEF all, rows, grown
    <3>5. /\ grown \in [cps : {grown.cps}, writes : {grown.writes}, ids : Nat]
          /\ grown.cps = thread[run].cps /\ grown.ids = thread[run].ids
          /\ grown.writes = thread[run].writes \cup all
      BY <3>1, <3>4
    <3>6. /\ ThreadOK' /\ thread'[run] = grown
          /\ \A q \in Requests : q # run => thread'[q] = thread[q]
      BY <1>2, <3>2, <3>5, ThreadFields
    <3>7. \A q \in Requests : /\ thread'[q].ids = thread[q].ids
                              /\ Trail(q)' \subseteq Trail(q)
                              /\ q # run => thread'[q].writes = thread[q].writes
      <4>1. \A q \in Requests : thread'[q].cps = thread[q].cps /\ thread'[q].ids = thread[q].ids
        BY <3>5, <3>6
      <4>2. \A q \in Requests : thread'[q].cps \subseteq Trail(q)
        BY <4>1, OnTrail
      <4> QED
        BY <1>12, <3>6, <4>1, <4>2
    <3>8. TrailInv'
      BY <3>7, TrailStays DEF Inv, SectionsInv, GraphInv
    <3>9. ~ \E w \in thread[run].writes : w.id = reqs[p].cp /\ w.out.sec = s
      BY <1>11, <2>2
    <3>10. WritesInv'
      BY <1>1, <1>11, <3>3, <3>5, <3>6, <3>7, <3>9, RowsWritten
    <3> QED
      BY <3>6, <3>8, <3>10
  <2> QED
    BY <1>1, <2>1, <2>2
<1>14. ASSUME past.quiet, past' = past, NEW t \in Sections, Asks(new, t)
       PROVE  \A e \in cache : e.key # <<t, new.secs>>
  <2>1. /\ new.pc = "wave" /\ new.stage[s] # "calling"
    BY <1>2, <1>6
  <2> QED
    BY <1>2, <1>6, <1>14, <2>1, OthersAsk
<1>15. past.quiet /\ past' = past =>
          \A t \in Sections : Asks(reqs'[p], t) => \A e \in cache : e.key # <<t, reqs'[p].secs>>
  BY <1>7, <1>14
<1>16. /\ Shaped(reqs'[p]) /\ WaveOK(reqs'[p]) /\ reqs'[p].run = run /\ reqs[p].run = run
       /\ reqs[p].pc \in {"invoke", "wave", "drain"} /\ reqs'[p].pc \in {"wave", "drain"}
       /\ reqs'[p].report = reqs[p].report /\ reqs'[p].force = reqs[p].force
  BY <1>2, <1>6, <1>7, <1>8, <1>9, <1>11
<1> QED
  BY <1>1, <1>7, <1>10, <1>13, <1>15, <1>16, GraphStep

\* A request on its graph, whether its waves go on or its queue drains.
LEMMA OnTheGraph ==
  ASSUME Inv, NEW p \in Requests, reqs[p].pc \in {"wave", "drain"}
  PROVE  /\ Shaped(reqs[p]) /\ reqs[p] \in Request(reqs[p]) /\ reqs[p].queue \in Seq(Held(reqs[p].queue))
         /\ reqs[p].run \in Requests /\ WaveOK(reqs[p]) /\ ThreadOK
         /\ At(reqs[p]) \in Trail(reqs[p].run) /\ Held(reqs[p].queue) \subseteq Trail(reqs[p].run)
<1>1. TypeOK /\ WaveInv
  BY DEF Inv, SectionsInv, GraphInv
<1>2. reqs[p] \in Request(reqs[p]) /\ reqs[p].queue \in Seq(Held(reqs[p].queue)) /\ Shaped(reqs[p])
  BY <1>1, TypeParts DEF Shaped
<1>3. reqs[p].run \in Requests
  <2>1. reqs[p].run # NoRun
    BY <1>1 DEF TypeOK, Working
  <2> QED
    BY <1>2, <2>1 DEF Request
<1>4. WaveOK(reqs[p])
  BY <1>1, WaveParts
<1>5. ThreadOK
  BY <1>1 DEF TypeOK, ThreadOK
<1> QED
  BY <1>2, <1>3, <1>4, <1>5, OnTrail

LEMMA PutInv ==
  ASSUME Inv, NEW p \in Requests, Put(p)
  PROVE  Inv'
<1> DEFINE r == reqs[p].run
           stored == [thread EXCEPT ![r].cps = @ \cup {Head(reqs[p].queue)}]
           rest == Tail(reqs[p].queue)
           new == [reqs[p] EXCEPT !.queue = rest]
<1>1. /\ reqs[p].pc \in {"wave", "drain"} /\ reqs[p].queue # <<>>
      /\ reqs' = [reqs EXCEPT ![p] = new]
      /\ \/ Served /\ UNCHANGED <<env, past>>
         \/ Unserved
      /\ thread' = thread \/ thread' = stored
      /\ UNCHANGED <<runs, reports, cache>>
  BY DEF Put, Unserved
<1>2. /\ Shaped(reqs[p]) /\ reqs[p] \in Request(reqs[p]) /\ reqs[p].queue \in Seq(Held(reqs[p].queue))
      /\ reqs[p].run \in Requests /\ WaveOK(reqs[p]) /\ ThreadOK
      /\ Held(reqs[p].queue) \subseteq Trail(reqs[p].run)
  BY <1>1, OnTheGraph
<1>3. TypeOK /\ TrailInv /\ WritesInv /\ PaidInv
  BY DEF Inv, SectionsInv, GraphInv
<1>4. /\ rest \in Seq(Held(rest)) /\ Held(rest) \subseteq Held(reqs[p].queue)
      /\ Head(reqs[p].queue) \in Held(reqs[p].queue)
  BY <1>1, <1>2, QueueOps
<1> HIDE DEF rest
<1>5. /\ new \in Request(new)
      /\ new.pc = reqs[p].pc /\ new.run = reqs[p].run /\ new.force = reqs[p].force /\ new.wave = reqs[p].wave
      /\ new.secs = reqs[p].secs /\ new.outs = reqs[p].outs /\ new.stage = reqs[p].stage /\ new.cp = reqs[p].cp
      /\ new.queue = rest /\ new.report = reqs[p].report
  BY <1>2, QueueFields
<1> HIDE DEF new
<1>6. /\ reqs' = [q \in Requests |-> reqs'[q]] /\ reqs'[p] = new
      /\ \A q \in Requests : q # p => reqs'[q] = reqs[q]
  BY <1>1, <1>3, OneRequest
<1>7. Shaped(new) /\ WaveOK(new)
  BY <1>1, <1>2, <1>4, <1>5 DEF Shaped, WaveOK
<1>8. HousekeepingOK
  BY <1>1, Housekeeping DEF Inv, HousekeepingOK
<1>9. PICK run \in Requests : run = r
  BY <1>2
<1>10. \A q \in Requests : thread'[q].cps \subseteq Trail(q) => Trail(q)' \subseteq Trail(q)
  BY <1>4, <1>5, <1>6, SameTrail
<1>11. /\ ThreadOK'
       /\ \A q \in Requests : q # run => thread'[q] = thread[q]
       /\ \A q \in Requests : thread'[q].ids = thread[q].ids /\ thread'[q].writes = thread[q].writes
       /\ \A q \in Requests : thread'[q].cps \subseteq Trail(q)
  <2>1. CASE thread' = thread
    BY <1>2, <2>1, OnTrail DEF ThreadOK
  <2>2. CASE thread' = stored
    <3> DEFINE first == Head(reqs[p].queue)
               grown == [thread[run] EXCEPT !.cps = @ \cup {first}]
    <3>1. thread[run] \in [cps : {thread[run].cps}, writes : {thread[run].writes}, ids : Nat]
      BY <1>2 DEF ThreadOK
    <3>2. thread' = [thread EXCEPT ![run] = grown]
      BY <1>9, <2>2
    <3>3. first \in Trail(run)
      BY <1>2, <1>4, <1>9
    <3> HIDE DEF first
    <3>4. /\ grown \in [cps : {grown.cps}, writes : {grown.writes}, ids : Nat]
          /\ grown.cps = thread[run].cps \cup {first} /\ grown.ids = thread[run].ids
          /\ grown.writes = thread[run].writes
      BY <3>1
    <3> HIDE DEF grown
    <3>5. /\ ThreadOK' /\ thread'[run] = grown
          /\ \A q \in Requests : q # run => thread'[q] = thread[q]
      BY <1>2, <3>2, <3>4, ThreadFields
    <3>6. ASSUME NEW q \in Requests PROVE thread'[q].cps \subseteq Trail(q)
      BY <3>3, <3>4, <3>5, OnTrail
    <3>7. ASSUME NEW q \in Requests
          PROVE  thread'[q].ids = thread[q].ids /\ thread'[q].writes = thread[q].writes
      BY <3>4, <3>5
    <3> QED
      BY <3>5, <3>6, <3>7
  <2> QED
    BY <1>1, <2>1, <2>2
<1>12. TrailInv' /\ WritesInv'
  BY <1>3, <1>10, <1>11, TrailKept
<1>13. ASSUME past.quiet, NEW t \in Sections, Asks(new, t)
       PROVE  \A e \in cache : e.key # <<t, new.secs>>
  <2>1. InWave(p, t, "calling") /\ ~reqs[p].force
    BY <1>5, <1>13 DEF Asks, InWave
  <2> QED
    BY <1>3, <1>5, <1>13, <2>1 DEF PaidInv, QuietInv
<1>14. past.quiet /\ past' = past =>
          \A t \in Sections : Asks(reqs'[p], t) => \A e \in cache : e.key # <<t, reqs'[p].secs>>
  BY <1>6, <1>13
<1>15. /\ Shaped(reqs'[p]) /\ WaveOK(reqs'[p]) /\ reqs'[p].run = run /\ reqs[p].run = run
       /\ reqs[p].pc \in {"invoke", "wave", "drain"} /\ reqs'[p].pc \in {"wave", "drain"}
       /\ reqs'[p].report = reqs[p].report /\ reqs'[p].force = reqs[p].force
  BY <1>1, <1>5, <1>6, <1>7, <1>9
<1> QED
  BY <1>1, <1>6, <1>8, <1>11, <1>12, <1>14, <1>15, GraphStep

\* The join of a wave is whole when the sections before it are.
LEMMA MergeWhole ==
  ASSUME NEW secs, NEW outs, NEW w \in 1..LastWave,
         Whole(secs, w), WrittenFrom(outs, w, secs), \A s \in Waves[w] : \E x \in outs : x.sec = s
  PROVE  Whole(secs \cup outs, w + 1)
<1> DEFINE all == secs \cup outs
<1>1. w \in Nat /\ LastWave \in Nat
  BY WaveFacts
<1>2. {x.sec : x \in secs} = UNION {Waves[v] : v \in 1..(w - 1)} /\ Coherent(secs)
  BY DEF Whole
<1>3. ASSUME NEW x \in secs
      PROVE  WaveOf(x.sec) \in 1..(w - 1) /\ x.sec \in Waves[WaveOf(x.sec)]
  <2>1. x.sec \in UNION {Waves[v] : v \in 1..(w - 1)}
    BY <1>2
  <2>2. PICK v \in 1..(w - 1) : x.sec \in Waves[v]
    BY <2>1
  <2>3. v \in 1..LastWave
    BY <1>1
  <2>4. WaveOf(x.sec) = v
    BY <2>2, <2>3, WaveFacts
  <2> QED
    BY <2>2, <2>4
<1>4. ASSUME NEW x \in outs
      PROVE  x.sec \in Waves[w] /\ WaveOf(x.sec) = w /\ x.prior = secs
  BY WaveFacts DEF WrittenFrom
<1>5. ASSUME NEW s, s \in {x.sec : x \in all}
      PROVE  s \in UNION {Waves[v] : v \in 1..w}
  <2>1. PICK x \in all : s = x.sec
    BY <1>5
  <2>2. CASE x \in secs
    <3>1. WaveOf(x.sec) \in 1..w
      BY <1>1, <1>3, <2>2
    <3> QED
      BY <1>3, <2>1, <2>2, <3>1
  <2>3. CASE x \in outs
    <3>1. w \in 1..w
      BY <1>1
    <3> QED
      BY <1>4, <2>1, <2>3, <3>1
  <2> QED
    BY <2>2, <2>3
<1>6. ASSUME NEW s, s \in UNION {Waves[v] : v \in 1..w}
      PROVE  s \in {x.sec : x \in all}
  <2>1. PICK v \in 1..w : s \in Waves[v]
    BY <1>6
  <2>2. CASE v = w
    BY <2>1, <2>2
  <2>3. CASE v # w
    <3>1. v \in 1..(w - 1)
      BY <1>1, <2>3
    <3>2. s \in {x.sec : x \in secs}
      BY <1>2, <2>1, <3>1
    <3> QED
      BY <3>2
  <2> QED
    BY <2>2, <2>3
<1>7. {x.sec : x \in all} = UNION {Waves[v] : v \in 1..w}
  BY <1>5, <1>6
<1>8. Coherent(all)
  <2>1. ASSUME NEW x \in all
        PROVE  x.prior = {y \in all : WaveOf(y.sec) < WaveOf(x.sec)}
    <3>1. CASE x \in secs
      <4>1. x.prior = {y \in secs : WaveOf(y.sec) < WaveOf(x.sec)}
        BY <1>2, <3>1 DEF Coherent
      <4>2. \A y \in outs : ~(WaveOf(y.sec) < WaveOf(x.sec))
        BY <1>1, <1>3, <1>4, <3>1
      <4> QED
        BY <4>1, <4>2
    <3>2. CASE x \in outs
      <4>1. x.prior = secs /\ WaveOf(x.sec) = w
        BY <1>4, <3>2
      <4>2. \A y \in secs : WaveOf(y.sec) < w
        BY <1>1, <1>3
      <4>3. \A y \in outs : ~(WaveOf(y.sec) < w)
        BY <1>1, <1>4
      <4> QED
        BY <4>1, <4>2, <4>3
    <3> QED
      BY <3>1, <3>2
  <2>2. ASSUME NEW x \in all, NEW y \in all, x.sec = y.sec
        PROVE  x = y
    <3>1. CASE x \in secs /\ y \in secs
      BY <1>2, <2>2, <3>1 DEF Coherent
    <3>2. CASE x \in outs /\ y \in outs
      BY <2>2, <3>2 DEF WrittenFrom
    <3>3. CASE x \in secs /\ y \in outs
      BY <1>1, <1>3, <1>4, <2>2, <3>3
    <3>4. CASE x \in outs /\ y \in secs
      BY <1>1, <1>3, <1>4, <2>2, <3>4
    <3> QED
      BY <3>1, <3>2, <3>3, <3>4
  <2> QED
    BY <2>1, <2>2 DEF Coherent
<1>9. (w + 1) - 1 = w
  BY <1>1
<1> QED
  BY <1>7, <1>8, <1>9 DEF Whole

LEMMA EndWaveInv ==
  ASSUME Inv, NEW p \in Requests, EndWave(p)
  PROVE  Inv'
<1> DEFINE id == thread[reqs[p].run].ids + 1
           wave == reqs[p].wave + 1
           secs == Merged(reqs[p])
           pc == Stage(wave)
           cp == [id |-> id, wave |-> wave, secs |-> secs]
           queue == Append(reqs[p].queue, cp)
           new == [reqs[p] EXCEPT !.pc = pc, !.wave = wave, !.secs = secs, !.outs = {}, !.cp = id,
                                  !.queue = queue]
<1>1. /\ reqs[p].pc = "wave"
      /\ \A s \in Waves[reqs[p].wave] : reqs[p].stage[s] = "done"
      /\ thread' = [thread EXCEPT ![reqs[p].run].ids = id]
      /\ UNCHANGED <<runs, reports, cache, store, env, past>>
  BY DEF EndWave
<1>2. reqs' = [reqs EXCEPT ![p] = new]
  <2>1. reqs' = [reqs EXCEPT ![p] = Joined(@, cp)]
    BY DEF EndWave
  <2>2. Joined(reqs[p], cp) = new
    BY DEF Joined
  <2> QED
    BY <2>1, <2>2
<1>3. /\ Shaped(reqs[p]) /\ reqs[p] \in Request(reqs[p]) /\ reqs[p].queue \in Seq(Held(reqs[p].queue))
      /\ reqs[p].run \in Requests /\ WaveOK(reqs[p]) /\ ThreadOK
      /\ At(reqs[p]) \in Trail(reqs[p].run) /\ Held(reqs[p].queue) \subseteq Trail(reqs[p].run)
  BY <1>1, OnTheGraph
<1>4. TypeOK /\ TrailInv /\ WritesInv /\ PaidInv
  BY DEF Inv, SectionsInv, GraphInv
<1>5. reqs[p].wave \in 1..LastWave /\ LastWave \in Nat
  BY <1>1, <1>4, WaveFacts DEF TypeOK
<1>6. PICK run \in Requests : run = reqs[p].run
  BY <1>3
<1>7. Whole(secs, wave)
  <2>1. Whole(At(reqs[p]).secs, At(reqs[p]).wave)
    BY <1>3, <1>4 DEF TrailInv
  <2>2. Whole(reqs[p].secs, reqs[p].wave)
    BY <2>1 DEF At
  <2>3. /\ WrittenFrom(reqs[p].outs, reqs[p].wave, reqs[p].secs)
        /\ \A s \in Waves[reqs[p].wave] : \E x \in reqs[p].outs : x.sec = s
    BY <1>1, <1>3 DEF WaveOK
  <2> QED
    BY <1>5, <2>2, <2>3, MergeWhole DEF Merged
<1>8. thread[run] \in [cps : {thread[run].cps}, writes : {thread[run].writes}, ids : Nat]
  BY <1>3 DEF ThreadOK
<1>9. id \in Nat /\ id = thread[run].ids + 1
  BY <1>6, <1>8
<1>10. wave \in 1..(LastWave + 1) /\ pc = IF wave > LastWave THEN "drain" ELSE "wave"
  BY <1>5 DEF Stage
<1>11. /\ queue \in Seq(Held(queue))
       /\ Held(queue) = Held(reqs[p].queue) \cup {cp}
  BY <1>3, QueueOps
<1>12. /\ cp.id = id /\ cp.wave = wave /\ cp.secs = secs
       /\ cp \in [id : {thread[run].ids + 1}, wave : 1..(LastWave + 1), secs : {cp.secs}]
  BY <1>9, <1>10
<1> HIDE DEF id, wave, secs, pc, queue
<1>14. /\ new \in Request(new)
       /\ new.pc = pc /\ new.run = reqs[p].run /\ new.force = reqs[p].force /\ new.wave = wave
       /\ new.secs = secs /\ new.outs = {} /\ new.stage = reqs[p].stage /\ new.cp = id
       /\ new.queue = queue /\ new.report = reqs[p].report
  <2> DEFINE a == [reqs[p] EXCEPT !.pc = pc, !.wave = wave]
             b == [a EXCEPT !.secs = secs, !.outs = {}]
             c == [b EXCEPT !.cp = id, !.queue = queue]
  <2>1. /\ a \in Request(a) /\ a.pc = pc /\ a.run = reqs[p].run /\ a.force = reqs[p].force /\ a.wave = wave
        /\ a.stage = reqs[p].stage /\ a.report = reqs[p].report
    <3>1. wave \in 0..(LastWave + 1) /\ pc \in {"none", "ephemeral", "done", "dead"} \cup Working
      BY <1>5, <1>10 DEF Working
    <3> QED
      BY <1>3, <3>1 DEF Request
  <2>2. new = c
    OBVIOUS
  <2> HIDE DEF a
  <2>3. /\ b \in Request(b) /\ b.pc = pc /\ b.run = reqs[p].run /\ b.force = reqs[p].force /\ b.wave = wave
        /\ b.stage = reqs[p].stage /\ b.report = reqs[p].report /\ b.secs = secs /\ b.outs = {}
    BY <2>1 DEF Request
  <2> HIDE DEF b
  <2>4. /\ c \in Request(c) /\ c.pc = pc /\ c.run = reqs[p].run /\ c.force = reqs[p].force /\ c.wave = wave
        /\ c.stage = reqs[p].stage /\ c.report = reqs[p].report /\ c.secs = secs /\ c.outs = {}
        /\ c.cp = id /\ c.queue = queue
    BY <1>9, <2>3 DEF Request
  <2> QED
    BY <2>2, <2>4
<1> HIDE DEF new, cp
<1>15. At(new) = cp
  BY <1>14 DEF At, cp
<1>16. /\ reqs' = [q \in Requests |-> reqs'[q]] /\ reqs'[p] = new
       /\ \A q \in Requests : q # p => reqs'[q] = reqs[q]
  BY <1>2, <1>4, OneRequest
<1>17. Shaped(new)
  BY <1>5, <1>10, <1>11, <1>14 DEF Shaped, wave
<1>18. WaveOK(new)
  <2> SUFFICES ASSUME new.pc = "wave" PROVE WaveOK(new)
    BY DEF WaveOK
  <2>1. wave \in 1..LastWave /\ wave = reqs[p].wave + 1
    BY <1>5, <1>10, <1>14 DEF wave
  <2>2. \A v \in (reqs[p].wave + 1)..LastWave : \A s \in Waves[v] : reqs[p].stage[s] = "todo"
    BY <1>1, <1>3 DEF WaveOK
  <2>3. \A s \in Waves[wave] : reqs[p].stage[s] = "todo"
    BY <1>5, <2>1, <2>2
  <2>4. \A v \in (wave + 1)..LastWave : \A s \in Waves[v] : reqs[p].stage[s] = "todo"
    BY <1>5, <2>1, <2>2
  <2> QED
    BY <1>14, <2>3, <2>4 DEF WaveOK, WrittenFrom
<1>19. /\ ThreadOK' /\ thread'[run].ids = thread[run].ids + 1 /\ thread'[run].writes = thread[run].writes
       /\ thread'[run].cps = thread[run].cps
       /\ \A q \in Requests : q # run => thread'[q] = thread[q]
  <2> DEFINE grown == [thread[run] EXCEPT !.ids = id]
  <2>1. thread' = [thread EXCEPT ![run] = grown]
    BY <1>1, <1>6
  <2>2. /\ grown \in [cps : {grown.cps}, writes : {grown.writes}, ids : Nat]
        /\ grown.cps = thread[run].cps /\ grown.ids = id /\ grown.writes = thread[run].writes
    BY <1>8, <1>9
  <2> HIDE DEF grown
  <2> QED
    BY <1>3, <1>9, <2>1, <2>2, ThreadFields
<1>20. ASSUME NEW q \in Requests PROVE Trail(q)' \subseteq Trail(q) \cup (IF q = run THEN {cp} ELSE {})
  <2> DEFINE all == Trail(q) \cup (IF q = run THEN {cp} ELSE {})
  <2>1. ASSUME NEW o \in Requests, reqs'[o].run = q, reqs'[o].pc \in {"wave", "drain"}
        PROVE  At(reqs'[o]) \in all /\ Held(reqs'[o].queue) \subseteq all
    <3>1. CASE o = p
      <4>1. q = run /\ At(reqs'[o]) = cp /\ Held(reqs'[o].queue) = Held(reqs[p].queue) \cup {cp}
        BY <1>6, <1>11, <1>14, <1>15, <1>16, <2>1, <3>1
      <4> QED
        BY <1>3, <1>6, <4>1
    <3>2. CASE o # p
      BY <1>16, <2>1, <3>2, OnTrail
    <3> QED
      BY <3>1, <3>2
  <2>2. thread'[q].cps \subseteq all
    BY <1>19, OnTrail
  <2> HIDE DEF all
  <2>3. Trail(q)' \subseteq all
    BY <2>1, <2>2, TrailBound
  <2> QED
    BY <2>3 DEF all
<1>21. TrailInv' /\ WritesInv'
  <2>1. Trail(run)' \subseteq Trail(run) \cup {cp}
    BY <1>20
  <2>2. \A q \in Requests : q # run =>
            /\ thread'[q].ids = thread[q].ids /\ thread'[q].writes = thread[q].writes
            /\ Trail(q)' \subseteq Trail(q)
    BY <1>19, <1>20
  <2>3. Whole(cp.secs, cp.wave)
    BY <1>7, <1>12
  <2> QED
    BY <1>4, <1>12, <1>19, <2>1, <2>2, <2>3, TrailGrows
<1>22. HousekeepingOK
  BY <1>1, <1>4, Housekeeping DEF HousekeepingOK
<1>23. \A t \in Sections : ~Asks(reqs'[p], t)
  <2>1. ASSUME NEW t \in Sections, Asks(new, t) PROVE FALSE
    <3>1. new.pc = "wave" /\ t \in Waves[new.wave] /\ new.stage[t] = "calling" /\ new.wave \in 1..LastWave
      BY <1>17, <2>1 DEF Asks, Shaped
    <3>2. wave = reqs[p].wave + 1 /\ wave \in (reqs[p].wave + 1)..LastWave
      BY <1>5, <1>14, <3>1 DEF wave
    <3>3. reqs[p].stage[t] = "todo"
      BY <1>1, <1>3, <1>14, <3>1, <3>2 DEF WaveOK
    <3> QED
      BY <1>14, <3>1, <3>3
  <2> QED
    BY <1>16, <2>1
<1>24. /\ Shaped(reqs'[p]) /\ WaveOK(reqs'[p]) /\ reqs'[p].run = run /\ reqs[p].run = run
       /\ reqs[p].pc \in {"invoke", "wave", "drain"} /\ reqs'[p].pc \in {"wave", "drain"}
       /\ reqs'[p].report = reqs[p].report /\ reqs'[p].force = reqs[p].force
  BY <1>1, <1>6, <1>10, <1>14, <1>16, <1>17, <1>18
<1> QED
  BY <1>1, <1>16, <1>19, <1>21, <1>22, <1>23, <1>24, GraphStep

\* What a checkpoint and the writes under it restore.
LEMMA RestoredFields ==
  ASSUME NEW req, req \in Request(req), NEW c, c.wave \in 1..(LastWave + 1), c.id \in Nat, NEW outs,
         NEW new, new = Restored(req, c, outs)
  PROVE  /\ new \in Request(new)
         /\ new.pc = Stage(c.wave) /\ new.pc \in {"wave", "drain"}
         /\ new.pc = "wave" => c.wave \in 1..LastWave
         /\ new.pc = "drain" => c.wave = LastWave + 1
         /\ new.run = req.run /\ new.force = req.force /\ new.wave = c.wave /\ new.secs = c.secs
         /\ new.cp = c.id /\ new.outs = outs /\ new.queue = req.queue /\ new.report = req.report
         /\ \A s \in Sections : new.stage[s] = IF \E x \in outs : x.sec = s THEN "done" ELSE "todo"
<1> DEFINE st == [s \in Sections |-> IF \E x \in outs : x.sec = s THEN "done" ELSE "todo"]
           pc == Stage(c.wave)
           a == [req EXCEPT !.pc = pc, !.wave = c.wave, !.secs = c.secs]
           b == [a EXCEPT !.cp = c.id, !.outs = outs]
           d == [b EXCEPT !.stage = st]
<1>1. LastWave \in Nat
  BY WaveFacts
<1>2. st \in [Sections -> Stages]
  BY DEF Stages
<1>3. \A s \in Sections : st[s] = IF \E x \in outs : x.sec = s THEN "done" ELSE "todo"
  OBVIOUS
<1>4. pc \in {"none", "ephemeral", "done", "dead"} \cup Working /\ c.wave \in 0..(LastWave + 1)
  BY <1>1 DEF Stage, Working
<1>5. /\ pc \in {"wave", "drain"}
      /\ pc = "wave" => c.wave \in 1..LastWave
      /\ pc = "drain" => c.wave = LastWave + 1
  BY <1>1 DEF Stage
<1>6. new = d
  BY DEF Restored
<1> HIDE DEF st, pc
<1>7. /\ a \in Request(a) /\ a.pc = pc /\ a.run = req.run /\ a.force = req.force /\ a.wave = c.wave
      /\ a.secs = c.secs /\ a.queue = req.queue /\ a.report = req.report
  BY <1>4 DEF Request
<1> HIDE DEF a
<1>8. /\ b \in Request(b) /\ b.pc = pc /\ b.run = req.run /\ b.force = req.force /\ b.wave = c.wave
      /\ b.secs = c.secs /\ b.queue = req.queue /\ b.report = req.report /\ b.cp = c.id /\ b.outs = outs
  BY <1>7 DEF Request
<1> HIDE DEF b
<1>9. /\ d \in Request(d) /\ d.pc = pc /\ d.run = req.run /\ d.force = req.force /\ d.wave = c.wave
      /\ d.secs = c.secs /\ d.queue = req.queue /\ d.report = req.report /\ d.cp = c.id /\ d.outs = outs
      /\ d.stage = st
  BY <1>2, <1>8 DEF Request
<1> HIDE DEF d
<1> QED
  BY <1>3, <1>5, <1>6, <1>9 DEF pc

LEMMA InvokeInv ==
  ASSUME Inv, NEW p \in Requests, Invoke(p)
  PROVE  Inv'
<1>1. /\ reqs[p].pc = "invoke" /\ UNCHANGED <<runs, reports, thread, cache>>
  BY DEF Invoke
<1>2. TypeOK /\ TrailInv /\ WritesInv /\ PaidInv /\ AnswerInv
  BY DEF Inv, SectionsInv, GraphInv, RunsInv
<1>3. /\ Shaped(reqs[p]) /\ reqs[p] \in Request(reqs[p]) /\ reqs[p].queue = <<>>
  BY <1>1, <1>2, TypeParts DEF Shaped
<1>4. PICK r \in Requests : r = reqs[p].run
  <2>1. reqs[p].run # NoRun
    BY <1>1, <1>2 DEF TypeOK, Working
  <2> QED
    BY <1>3, <2>1 DEF Request
<1>5. p \in Live /\ reqs[p].pc \in Working /\ "raised" \in Working
  BY <1>1 DEF Live, Working
<1>6. ASSUME Unserved, reqs' = [reqs EXCEPT ![p].pc = "raised"]
      PROVE  Inv'
  <2>1. /\ reqs' = [q \in Requests |-> reqs'[q]]
        /\ \A q \in Requests : q # p => reqs'[q] = reqs[q]
        /\ Shaped(reqs'[p])
        /\ reqs'[p].pc = "raised" /\ reqs'[p].run = reqs[p].run /\ reqs'[p].force = reqs[p].force
        /\ reqs'[p].report = reqs[p].report
    BY <1>2, <1>6, Turned
  <2>2. reqs[p].report = NoRun
    BY <1>1, <1>2 DEF AnswerInv
  <2> QED
    BY <1>1, <1>5, <1>6, <2>1, <2>2, MovesOn
<1>7. ASSUME Served, UNCHANGED <<env, past>>,
             NEW c \in Latest(reqs[p].run), reqs' = [reqs EXCEPT ![p] = Restored(@, c, Writes(reqs[p].run, c))]
      PROVE  Inv'
  <2>1. c \in Trail(r)
    BY <1>4, OnTrail DEF Latest
  <2>2. c \in [id : 1..thread[r].ids, wave : 1..(LastWave + 1), secs : {c.secs}]
    BY <1>2, <2>1 DEF TrailInv
  <2>3. thread[r].ids \in Nat
    BY <1>2 DEF TypeOK
  <2>4. c.wave \in 1..(LastWave + 1) /\ c.id \in Nat /\ c = [id |-> c.id, wave |-> c.wave, secs |-> c.secs]
    BY <2>2, <2>3
  <2>5. PICK outs : outs = Writes(r, c)
    OBVIOUS
  <2>6. PICK new : new = Restored(reqs[p], c, outs)
    OBVIOUS
  <2>7. reqs' = [reqs EXCEPT ![p] = new]
    BY <1>4, <1>7, <2>5, <2>6
  <2>8. /\ new \in Request(new)
        /\ new.pc = Stage(c.wave) /\ new.pc \in {"wave", "drain"}
        /\ new.pc = "wave" => c.wave \in 1..LastWave
        /\ new.pc = "drain" => c.wave = LastWave + 1
        /\ new.run = reqs[p].run /\ new.force = reqs[p].force /\ new.wave = c.wave /\ new.secs = c.secs
        /\ new.cp = c.id /\ new.outs = outs /\ new.queue = reqs[p].queue /\ new.report = reqs[p].report
        /\ \A s \in Sections : new.stage[s] = IF \E x \in outs : x.sec = s THEN "done" ELSE "todo"
    BY <1>3, <2>4, <2>6, RestoredFields
  <2>9. /\ reqs' = [q \in Requests |-> reqs'[q]] /\ reqs'[p] = new
        /\ \A q \in Requests : q # p => reqs'[q] = reqs[q]
    BY <1>2, <2>7, OneRequest
  <2>10. Shaped(new)
    BY <1>3, <2>8 DEF Shaped
  <2>11. At(new) = c
    BY <2>4, <2>8 DEF At
  <2>12. Held(new.queue) = {}
    BY <1>3, <2>8 DEF Held
  <2>13. ASSUME NEW q \in Requests PROVE Trail(q)' \subseteq Trail(q)
    <3>1. ASSUME NEW o \in Requests, reqs'[o].run = q, reqs'[o].pc \in {"wave", "drain"}
          PROVE  At(reqs'[o]) \in Trail(q) /\ Held(reqs'[o].queue) \subseteq Trail(q)
      <4>1. CASE o = p
        BY <1>4, <2>1, <2>8, <2>9, <2>11, <2>12, <3>1, <4>1
      <4>2. CASE o # p
        BY <2>9, <3>1, <4>2, OnTrail
      <4> QED
        BY <4>1, <4>2
    <3>2. thread'[q].cps \subseteq Trail(q)
      BY <1>1, OnTrail
    <3> QED
      BY <3>1, <3>2, TrailBound
  <2>14. TrailInv' /\ WritesInv'
    BY <1>1, <1>2, <2>13, TrailKept
  <2>15. ASSUME NEW x \in outs
         PROVE  \E w \in thread[r].writes : w.id = c.id /\ x = w.out
    BY <2>5 DEF Writes
  <2>16. ASSUME NEW x \in outs
         PROVE  c.wave <= LastWave /\ x.sec \in Waves[c.wave] /\ x.prior = c.secs
    BY <1>2, <2>1, <2>15 DEF WritesInv
  <2>17. ASSUME NEW x \in outs, NEW y \in outs, x.sec = y.sec
         PROVE  x = y
    <3>1. PICK v \in thread[r].writes : v.id = c.id /\ x = v.out
      BY <2>15
    <3>2. PICK w \in thread[r].writes : w.id = c.id /\ y = w.out
      BY <2>15
    <3>3. v = w
      BY <1>2, <2>17, <3>1, <3>2 DEF WritesInv
    <3> QED
      BY <3>1, <3>2, <3>3
  <2>18. WaveOK(new)
    <3> SUFFICES ASSUME new.pc = "wave" PROVE WaveOK(new)
      BY DEF WaveOK
    <3>1. c.wave \in 1..LastWave
      BY <2>8
    <3>2. WrittenFrom(outs, c.wave, c.secs)
      BY <2>16, <2>17 DEF WrittenFrom
    <3>3. ASSUME NEW s \in Waves[c.wave]
          PROVE  new.stage[s] \in {"kept", "done"} <=> \E x \in outs : x.sec = s
      <4>1. s \in Sections
        BY <3>1, WaveFacts
      <4> QED
        BY <2>8, <4>1
    <3>4. ASSUME NEW v \in (c.wave + 1)..LastWave, NEW s \in Waves[v]
          PROVE  new.stage[s] = "todo"
      <4>1. v \in 1..LastWave /\ v # c.wave
        BY <3>1, WaveFacts
      <4>2. s \in Sections /\ s \notin Waves[c.wave]
        BY <3>1, <4>1, WaveFacts
      <4> QED
        BY <2>8, <2>16, <4>2
    <3> QED
      BY <2>8, <3>2, <3>3, <3>4 DEF WaveOK
  <2>19. HousekeepingOK
    BY <1>2, <1>7, Housekeeping DEF HousekeepingOK
  <2>20. ThreadOK'
    BY <1>1, <1>2 DEF ThreadOK, TypeOK
  <2>21. \A t \in Sections : ~Asks(reqs'[p], t)
    BY <2>8, <2>9 DEF Asks
  <2>22. /\ Shaped(reqs'[p]) /\ WaveOK(reqs'[p]) /\ reqs'[p].run = r /\ reqs[p].run = r
         /\ reqs[p].pc \in {"invoke", "wave", "drain"} /\ reqs'[p].pc \in {"wave", "drain"}
         /\ reqs'[p].report = reqs[p].report /\ reqs'[p].force = reqs[p].force
         /\ \A q \in Requests : q # r => thread'[q] = thread[q]
    BY <1>1, <1>4, <2>8, <2>9, <2>10, <2>18
  <2> QED
    BY <1>1, <2>9, <2>14, <2>19, <2>20, <2>21, <2>22, GraphStep
<1> QED
  BY <1>6, <1>7 DEF Invoke

-----------------------------------------------------------------------------
\* A request starts a run.

\* The checkpoint before the first wave.
FirstPoint == [id |-> 1, wave |-> 1, secs |-> {}]

\* The state of a new graph.
LEMMA GraphFields ==
  ASSUME NEW p \in Requests, NEW force \in BOOLEAN, NEW new, new = Graph(p, force)
  PROVE  /\ Shaped(new)
         /\ new.pc = "wave" /\ new.run = p /\ new.force = force /\ new.wave = 1 /\ new.secs = {}
         /\ new.outs = {} /\ new.cp = 1 /\ new.queue = <<FirstPoint>> /\ new.report = NoRun
         /\ \A s \in Sections : new.stage[s] = "todo"
<1>1. PICK no \in BOOLEAN : ~no /\ NoRequest = Blank("none", NoRun, no, NoRun, {}, "none")
  BY BlankNoRequest
<1> DEFINE st == [s \in Sections |-> "todo"]
           none == Blank("none", NoRun, no, NoRun, {}, "none")
           a == [none EXCEPT !.pc = "wave", !.run = p, !.force = force]
           b == [a EXCEPT !.wave = 1, !.cp = 1]
           first == <<FirstPoint>>
           d == [b EXCEPT !.queue = first]
<1>2. st \in [Sections -> Stages] /\ \A s \in Sections : st[s] = "todo"
  BY DEF Stages
<1>3. 1 \in 0..(LastWave + 1) /\ 1 \in 1..LastWave /\ 0 \in 0..(LastWave + 1)
  BY WaveFacts
<1>4. none = [pc |-> "none", run |-> NoRun, force |-> no, wave |-> 0, secs |-> {}, outs |-> {},
              stage |-> st, cp |-> 0, queue |-> <<>>, report |-> NoRun, said |-> "none"]
  BY DEF Blank
<1>5. new = d
  BY <1>1 DEF Graph, FirstPoint
<1>6. first \in Seq(Held(first)) /\ first # <<>>
  <2>1. <<>> \in Seq(Held(<<>>))
    OBVIOUS
  <2>2. Append(<<>>, FirstPoint) \in Seq(Held(Append(<<>>, FirstPoint)))
    BY <2>1, QueueOps
  <2>3. Append(<<>>, FirstPoint) = first
    OBVIOUS
  <2> QED
    BY <2>2, <2>3
<1> HIDE DEF st, none, first
<1>7. /\ a.pc = "wave" /\ a.run = p /\ a.force = force /\ a.secs = {} /\ a.outs = {} /\ a.report = NoRun
      /\ a.stage = st
      /\ a \in [pc : {"wave"}, run : {p}, force : {force}, wave : {0}, secs : {{}}, outs : {{}},
                stage : {st}, cp : {0}, queue : {<<>>}, report : {NoRun}, said : {"none"}]
  BY <1>4
<1> HIDE DEF a
<1>8. b \in [pc : {"wave"}, run : {p}, force : {force}, wave : {1}, secs : {{}}, outs : {{}},
             stage : {st}, cp : {1}, queue : {<<>>}, report : {NoRun}, said : {"none"}]
  BY <1>7
<1> HIDE DEF b
<1>9. d \in [pc : {"wave"}, run : {p}, force : {force}, wave : {1}, secs : {{}}, outs : {{}},
             stage : {st}, cp : {1}, queue : {first}, report : {NoRun}, said : {"none"}]
  BY <1>8
<1> HIDE DEF d
<1>10. /\ d.pc = "wave" /\ d.run = p /\ d.force = force /\ d.wave = 1 /\ d.secs = {}
       /\ d.outs = {} /\ d.cp = 1 /\ d.queue = first /\ d.report = NoRun /\ d.stage = st
  BY <1>9
<1>11. d \in Request(d)
  BY <1>2, <1>3, <1>9, <1>10 DEF Request, Working
<1>12. Shaped(d)
  BY <1>3, <1>6, <1>10, <1>11 DEF Shaped
<1> QED
  BY <1>2, <1>5, <1>10, <1>12 DEF first

\* A request answered with an earlier report.
Reuses(p, r) ==
    /\ runs' = [runs EXCEPT ![p] = [status |-> "succeeded", from |-> r]]
    /\ reqs' = [reqs EXCEPT ![p] = [NoRequest EXCEPT !.pc = "done", !.run = p, !.report = r,
                                      !.secs = reports[r].secs, !.said = "ready"]]

LEMMA StartReuses ==
  ASSUME Inv, NEW p \in Requests, NEW r \in Requests, Arrives(p), Served, past' = Noted,
         UNCHANGED <<reports, thread, cache, env>>, Reusable(r), Reuses(p, r)
  PROVE  Inv'
<1> DEFINE new == [NoRequest EXCEPT !.pc = "done", !.run = p, !.report = r,
                                    !.secs = reports[r].secs, !.said = "ready"]
           given == reports[r].secs
           settled == [status |-> "succeeded", from |-> r]
<1>1. TypeOK /\ RunsInv
  BY DEF Inv
<1>2. PICK no \in BOOLEAN : ~no /\ NoRequest = Blank("none", NoRun, no, NoRun, {}, "none")
  BY BlankNoRequest
<1> DEFINE none == Blank("none", NoRun, no, NoRun, {}, "none")
<1>3. reqs[p].pc = "none" /\ runs[p].status = "none"
  BY InLine
<1>4. new = [none EXCEPT !.pc = "done", !.run = p, !.report = r, !.secs = given, !.said = "ready"]
  BY <1>2
<1>5. reqs' = [reqs EXCEPT ![p] = new]
  BY DEF Reuses
<1>5a. runs' = [runs EXCEPT ![p] = settled]
  BY DEF Reuses
<1> HIDE DEF new, given
<1>6. new = Blank("done", p, no, r, given, "ready")
  BY <1>4 DEF Blank
<1>7. /\ Shaped(new) /\ new.pc = "done" /\ new.report = r /\ new.run = p
      /\ new.secs = reports[r].secs
  BY <1>6, NewShape DEF given
<1>8. /\ reqs' = [q \in Requests |-> reqs'[q]]
      /\ reqs'[p] = new
      /\ \A q \in Requests : q # p => reqs'[q] = reqs[q]
  BY <1>1, <1>5, OneRequest
<1>9. /\ runs' \in [Requests -> [status : Statuses \cup {"none"}, from : Requests \cup {NoRun}]]
      /\ runs'[p].status = "succeeded" /\ runs'[p].from = r
      /\ \A q \in Requests : q # p => runs'[q] = runs[q]
  <2>1. settled \in [status : Statuses \cup {"none"}, from : Requests \cup {NoRun}]
    BY DEF Statuses
  <2>2. runs \in [Requests -> [status : Statuses \cup {"none"}, from : Requests \cup {NoRun}]]
    BY <1>1 DEF TypeOK
  <2> QED
    BY <1>5a, <2>1, <2>2
<1>10. reports[r].outcome = "succeeded"
  BY DEF Reusable
<1>11. RunsInv'
  BY <1>1, <1>7, <1>8, <1>9, <1>10, RunsArrive
<1>12. \A q \in Requests : runs[q].status # "none" => runs'[q].status # "none"
  BY <1>3, <1>9
<1> QED
  BY <1>7, <1>8, <1>9, <1>11, <1>12, Comes

\* A request that starts on a graph of its own.
SetsOut(p, force) ==
    /\ runs' = [runs EXCEPT ![p].status = "running"]
    /\ reqs' = [reqs EXCEPT ![p] = Graph(p, force)]
    /\ thread' = [thread EXCEPT ![p].ids = 1]

LEMMA StartsGraph ==
  ASSUME Inv, NEW p \in Requests, NEW force \in BOOLEAN, Arrives(p), Served, past' = Noted,
         UNCHANGED <<reports, cache, env>>, SetsOut(p, force)
  PROVE  Inv'
<1>1. TypeOK /\ RunsInv /\ SectionsInv /\ PaidInv /\ LineInv /\ TrailInv /\ WritesInv /\ WaveInv /\ CacheInv
  BY DEF Inv, RunsInv, SectionsInv, GraphInv
<1>2. /\ reqs[p].pc = "none" /\ runs[p].status = "none" /\ runs[p].from = NoRun
      /\ thread[p] = NoThread /\ reports[p].outcome = "none"
      /\ \A q \in Requests : reqs[q].pc \in Working => reqs[q].run # p
  BY InLine
<1>3. PICK new : new = Graph(p, force)
  OBVIOUS
<1>4. /\ Shaped(new)
      /\ new.pc = "wave" /\ new.run = p /\ new.force = force /\ new.wave = 1 /\ new.secs = {}
      /\ new.outs = {} /\ new.cp = 1 /\ new.queue = <<FirstPoint>> /\ new.report = NoRun
      /\ \A s \in Sections : new.stage[s] = "todo"
  BY <1>3, GraphFields
<1>5. reqs' = [reqs EXCEPT ![p] = new]
  BY <1>3 DEF SetsOut
<1>6. /\ reqs' = [q \in Requests |-> reqs'[q]] /\ reqs'[p] = new
      /\ \A q \in Requests : q # p => reqs'[q] = reqs[q]
  BY <1>1, <1>5, OneRequest
<1>7. "running" \in Statuses /\ runs' = [runs EXCEPT ![p].status = "running"]
  BY DEF Statuses, SetsOut
<1>8. /\ runs' \in [Requests -> [status : Statuses \cup {"none"}, from : Requests \cup {NoRun}]]
      /\ runs'[p].status = "running" /\ runs'[p].from = runs[p].from
      /\ \A q \in Requests : q # p => runs'[q] = runs[q]
  BY <1>1, <1>7, StatusFields
<1>9. /\ ThreadOK' /\ thread'[p].ids = 1 /\ thread'[p].writes = {} /\ thread'[p].cps = {}
      /\ \A q \in Requests : q # p => thread'[q] = thread[q]
  <2> DEFINE grown == [thread[p] EXCEPT !.ids = 1]
  <2>1. thread' = [thread EXCEPT ![p] = grown]
    BY DEF SetsOut
  <2>2. thread[p] = [cps |-> {}, writes |-> {}, ids |-> 0]
    BY <1>2 DEF NoThread
  <2>3. /\ grown \in [cps : {grown.cps}, writes : {grown.writes}, ids : Nat]
        /\ grown.cps = {} /\ grown.ids = 1 /\ grown.writes = {}
    BY <2>2
  <2>4. ThreadOK
    BY <1>1 DEF TypeOK, ThreadOK
  <2> HIDE DEF grown
  <2> QED
    BY <2>1, <2>3, <2>4, ThreadFields
<1>10. /\ store' \in [refusing : BOOLEAN, status : {"ready", "unavailable"}]
       /\ env' \in [faults : Nat, skips : Nat, crashes : Nat, made : 0..MaxRequests, live : Nat]
       /\ past' \in [quiet : BOOLEAN, paid : {past'.paid}]
       /\ \/ past' = NoLongerQuiet
          \/ ~past.quiet /\ past' = past
          \/ past.quiet /\ past' = past /\ ~store'.refusing /\ Live = {}
  BY <1>1, Notes
<1>11. TypeOK'
  <2>1. reports = [r \in Requests |-> reports[r]] /\ \A r \in Requests : reports[r].outcome \in {"none", "partial", "succeeded"}
    BY <1>1 DEF TypeOK
  <2>2. RestOK'
    BY <1>1, <1>8, <1>9, <1>10, <2>1, RestStep DEF ThreadOK
  <2>3. reqs'[p].run # NoRun /\ runs'[reqs'[p].run].status # "none"
    BY <1>4, <1>6, <1>8 DEF Requests, NoRun
  <2>4. \A q \in Requests : runs[q].status # "none" => runs'[q].status # "none"
    BY <1>8
  <2>5. Shaped(reqs'[p])
    BY <1>4, <1>6
  <2> QED
    BY <1>1, <1>6, <2>2, <2>3, <2>4, <2>5, TypeStep
<1>12. RunsInv'
  BY <1>1, <1>2, <1>4, <1>6, <1>8, <1>9, RunsArrive
<1>13. thread[p].ids = 0 /\ thread[p].writes = {} /\ thread[p].cps = {}
  BY <1>2 DEF NoThread
<1>14. PICK cp : cp = FirstPoint
  OBVIOUS
<1>15. At(new) = cp
  BY <1>4, <1>14 DEF At, FirstPoint
<1>16. Held(new.queue) = {cp}
  <2>1. DOMAIN <<FirstPoint>> = {1}
    OBVIOUS
  <2> QED
    BY <1>4, <1>14, <2>1 DEF Held
<1>17. Trail(p)' \subseteq {cp}
  <2>1. ASSUME NEW o \in Requests, reqs'[o].run = p, reqs'[o].pc \in {"wave", "drain"}
        PROVE  At(reqs'[o]) \in {cp} /\ Held(reqs'[o].queue) \subseteq {cp}
    <3>1. o = p
      <4>1. o # p => reqs[o].run = p /\ reqs[o].pc \in Working
        BY <1>6, <2>1 DEF Working
      <4> QED
        BY <1>2, <4>1
    <3> QED
      BY <1>6, <1>15, <1>16, <3>1
  <2>2. thread'[p].cps \subseteq {cp}
    BY <1>9
  <2> QED
    BY <2>1, <2>2, TrailBound
<1>18. ASSUME NEW q \in Requests, q # p PROVE Trail(q)' \subseteq Trail(q)
  <2>1. ASSUME NEW o \in Requests, reqs'[o].run = q, reqs'[o].pc \in {"wave", "drain"}
        PROVE  At(reqs'[o]) \in Trail(q) /\ Held(reqs'[o].queue) \subseteq Trail(q)
    BY <1>4, <1>6, <1>18, <2>1, OnTrail
  <2>2. thread'[q].cps \subseteq Trail(q)
    BY <1>9, <1>18, OnTrail
  <2> QED
    BY <2>1, <2>2, TrailBound
<1>19. TrailInv' /\ WritesInv'
  <2>1. cp.secs = {} /\ cp.wave = 1 /\ cp.id = 1
    BY <1>14 DEF FirstPoint
  <2>2. cp \in [id : {thread[p].ids + 1}, wave : 1..(LastWave + 1), secs : {cp.secs}]
    <3>1. 1 \in 1..(LastWave + 1)
      BY WaveFacts
    <3> QED
      BY <1>13, <1>14, <2>1, <3>1 DEF FirstPoint
  <2>3. Whole(cp.secs, cp.wave)
    <3>1. 1..(1 - 1) = {}
      OBVIOUS
    <3>2. Coherent({})
      BY DEF Coherent
    <3> QED
      BY <2>1, <3>1, <3>2 DEF Whole
  <2>4. thread'[p].ids = thread[p].ids + 1 /\ thread'[p].writes = thread[p].writes
    BY <1>9, <1>13
  <2>5. Trail(p)' \subseteq Trail(p) \cup {cp}
    BY <1>17
  <2>6. \A q \in Requests : q # p =>
            /\ thread'[q].ids = thread[q].ids /\ thread'[q].writes = thread[q].writes
            /\ Trail(q)' \subseteq Trail(q)
    BY <1>9, <1>18
  <2> QED
    BY <1>1, <2>2, <2>3, <2>4, <2>5, <2>6, TrailGrows
<1>20. WaveOK(new)
  <2>1. \A v \in 1..LastWave : \A s \in Waves[v] : new.stage[s] = "todo"
    BY <1>4, WaveFacts
  <2>2. 1 \in 1..LastWave /\ \A v \in (1 + 1)..LastWave : v \in 1..LastWave
    BY WaveFacts
  <2> QED
    BY <1>4, <2>1, <2>2 DEF WaveOK, WrittenFrom
<1>21. SectionsInv'
  <2>1. WaveInv'
    BY <1>1, <1>6, <1>20, WaveStep
  <2>2. CacheInv' /\ ReportIsCoherent'
    BY <1>1 DEF CacheInv, SectionsInv, ReportIsCoherent
  <2> QED
    BY <1>19, <2>1, <2>2 DEF SectionsInv, GraphInv
<1>22. PaidInv'
  <2>1. CASE past' = NoLongerQuiet
    BY <2>1, QuietBroken
  <2>2. CASE ~past.quiet /\ past' = past
    BY <1>1, <2>2, NoQuietKept
  <2>3. CASE past.quiet /\ past' = past /\ ~store'.refusing /\ Live = {}
    <3>1. \A s \in Sections : ~Asks(reqs'[p], s)
      BY <1>4, <1>6 DEF Asks
    <3>2. reports'[reqs'[p].run].outcome = "none"
      BY <1>2, <1>4, <1>6
    <3> QED
      BY <1>1, <1>4, <1>6, <2>3, <3>1, <3>2, QuietArrival
  <2> QED
    BY <1>10, <2>1, <2>2, <2>3
<1> QED
  BY <1>11, <1>12, <1>21, <1>22 DEF Inv

LEMMA StartInv ==
  ASSUME Inv, NEW p \in Requests, NEW force \in BOOLEAN, Start(p, force)
  PROVE  Inv'
<1>1. Arrives(p) /\ Served /\ past' = Noted /\ UNCHANGED <<reports, cache, env>>
  BY DEF Start
<1>2. ASSUME NEW r \in Requests, Reusable(r), UNCHANGED thread,
             runs' = [runs EXCEPT ![p] = [status |-> "succeeded", from |-> r]],
             reqs' = [reqs EXCEPT ![p] = [NoRequest EXCEPT !.pc = "done", !.run = p, !.report = r,
                                            !.secs = reports[r].secs, !.said = "ready"]]
      PROVE  Inv'
  BY <1>1, <1>2, StartReuses DEF Reuses
<1>3. ASSUME runs' = [runs EXCEPT ![p].status = "running"],
             reqs' = [reqs EXCEPT ![p] = Graph(p, force)],
             thread' = [thread EXCEPT ![p].ids = 1]
      PROVE  Inv'
  BY <1>1, <1>3, StartsGraph DEF SetsOut
<1> QED
  BY <1>2, <1>3 DEF Start


-----------------------------------------------------------------------------
\* The end of a request.

\* What is known of a request that is at work.
LEMMA AtRun ==
  ASSUME Inv, NEW p \in Requests, reqs[p].pc \in Working
  PROVE  /\ reqs[p].run \in Requests /\ runs[reqs[p].run].status # "none"
         /\ reqs[p].report = NoRun /\ reqs[p].pc # "none" /\ p \in Live
         /\ Shaped(reqs[p])
         /\ past.quiet => reports[reqs[p].run].outcome = "none"
<1>1. TypeOK /\ AnswerInv
  BY DEF Inv, RunsInv
<1>2. Shaped(reqs[p]) /\ reqs[p].run # NoRun /\ runs[reqs[p].run].status # "none"
  BY <1>1, TypeParts
<1>3. reqs[p].run \in Requests
  BY <1>2 DEF Shaped, Request
<1>4. reqs[p].report = NoRun
  BY <1>1 DEF AnswerInv, Working
<1>5. past.quiet => reports[reqs[p].run].outcome = "none"
  BY DEF Inv, PaidInv, QuietInv
<1> QED
  BY <1>2, <1>3, <1>4, <1>5 DEF Working, Live

\* The history where a request that was at work ends.
LEMMA PaidEnds ==
  ASSUME Inv, HousekeepingOK, NEW p \in Requests, reqs[p].pc \in Working,
         \A q \in Requests : q # p => reqs'[q] = reqs[q],
         reqs'[p].pc = "done", reqs'[p].force = reqs[p].force, cache' = cache,
         \A q \in Requests : reports'[q] = reports[q] \/ q = reqs[p].run
  PROVE  PaidInv'
<1>1. TypeOK /\ PaidInv
  BY DEF Inv
<1>2. p \in Live
  BY AtRun
<1>3. CASE past' = NoLongerQuiet
  BY <1>3, QuietBroken
<1>4. CASE ~past.quiet /\ past' = past
  BY <1>1, <1>4, NoQuietKept
<1>5. CASE past.quiet /\ past' = past /\ ~store'.refusing
  <2>1. \A o \in Live, q \in Requests : o < q => reqs[q].pc = "none"
    BY <1>1, <1>5 DEF PaidInv, QuietInv
  <2>2. \A q \in Requests : q # p => reqs[q].pc \notin Working
    <3>1. ASSUME NEW q \in Requests, q # p, reqs[q].pc \in Working PROVE FALSE
      <4>1. q \in Live /\ reqs[q].pc # "none" /\ reqs[p].pc # "none"
        BY <1>2, <3>1, AtRun DEF Live
      <4>2. p < q \/ q < p
        BY <3>1 DEF Requests
      <4> QED
        BY <1>2, <2>1, <4>1, <4>2
    <3> QED
      BY <3>1
  <2>3. \A q \in Requests : reqs'[q].pc \in Working => reports'[reqs'[q].run].outcome = "none"
    BY <2>2 DEF Working
  <2>4. \A q \in Requests :
          \/ reqs'[q] = reqs[q]
          \/ /\ q \in Live /\ reqs'[q].pc # "none" /\ reqs'[q].force = reqs[q].force
             /\ \A s \in Sections : Asks(reqs'[q], s) => \A e \in cache : e.key # <<s, reqs'[q].secs>>
    BY <1>2 DEF Asks
  <2> QED
    BY <1>1, <1>5, <2>3, <2>4, QuietKept
<1> QED
  BY <1>3, <1>4, <1>5 DEF HousekeepingOK

\* The types where a request ends.
LEMMA TypeEnds ==
  ASSUME Inv, HousekeepingOK, NEW p \in Requests,
         reqs' = [q \in Requests |-> reqs'[q]],
         \A q \in Requests : q # p => reqs'[q] = reqs[q],
         Shaped(reqs'[p]), reqs'[p].pc = "done",
         runs' \in [Requests -> [status : Statuses \cup {"none"}, from : Requests \cup {NoRun}]],
         \A r \in Requests : runs[r].status # "none" => runs'[r].status # "none",
         reports' = [r \in Requests |-> reports'[r]],
         \A r \in Requests : reports'[r].outcome \in {"none", "partial", "succeeded"},
         thread' = thread
  PROVE  TypeOK'
<1>1. TypeOK
  BY DEF Inv
<1>2. RestOK'
  BY <1>1, RestStep DEF HousekeepingOK
<1>3. reqs'[p].pc \in Working => reqs'[p].run # NoRun /\ runs'[reqs'[p].run].status # "none"
  BY DEF Working
<1> QED
  BY <1>1, <1>2, <1>3, TypeStep

LEMMA SaveErrorInv ==
  ASSUME Inv, NEW p \in Requests, SaveError(p)
  PROVE  Inv'
<1> DEFINE failed == [runs EXCEPT ![reqs[p].run].status = "failed"]
<1>1. /\ reqs[p].pc = "raised" /\ reqs' = [reqs EXCEPT ![p].pc = "done"]
      /\ UNCHANGED <<reports, thread, cache>> /\ runs' \in {runs, failed}
      /\ \/ Served /\ UNCHANGED <<env, past>>
         \/ Unserved
  BY DEF SaveError, Unserved
<1>2. TypeOK /\ RunsInv /\ SectionsInv /\ PaidInv
  BY DEF Inv
<1>3. HousekeepingOK
  BY <1>1, <1>2, Housekeeping DEF HousekeepingOK
<1>4. /\ reqs' = [q \in Requests |-> reqs'[q]]
      /\ \A q \in Requests : q # p => reqs'[q] = reqs[q]
      /\ Shaped(reqs'[p])
      /\ reqs'[p].pc = "done" /\ reqs'[p].run = reqs[p].run /\ reqs'[p].force = reqs[p].force
      /\ reqs'[p].report = reqs[p].report
  BY <1>1, <1>2, Turned
<1>5. reqs[p].pc \in Working
  BY <1>1 DEF Working
<1>6. PICK r \in Requests : r = reqs[p].run
  BY <1>5, AtRun
<1>7. /\ runs' \in [Requests -> [status : Statuses \cup {"none"}, from : Requests \cup {NoRun}]]
      /\ runs'[r].from = runs[r].from
      /\ runs'[r].status = runs[r].status \/ runs'[r].status = "failed"
      /\ \A q \in Requests : q # r => runs'[q] = runs[q]
  <2>1. "failed" \in Statuses
    BY DEF Statuses
  <2>2. CASE runs' = runs
    BY <1>2, <2>2 DEF TypeOK
  <2>3. CASE runs' = [runs EXCEPT ![r].status = "failed"]
    BY <1>2, <2>1, <2>3, StatusFields
  <2> QED
    BY <1>1, <1>6, <2>2, <2>3
<1>8. runs[r].status # "none" /\ reqs[p].report = NoRun /\ reqs[p].pc # "none"
  BY <1>5, <1>6, AtRun
<1>9. \A q \in Requests :
         /\ runs'[q].from = runs[q].from
         /\ runs'[q].status = runs[q].status \/ (runs'[q].status = "failed" /\ runs[q].status # "none")
  BY <1>7, <1>8
<1>10. TypeOK'
  <2>1. reports' = [q \in Requests |-> reports'[q]] /\ \A q \in Requests : reports'[q].outcome \in {"none", "partial", "succeeded"}
    BY <1>1, <1>2 DEF TypeOK
  <2>2. \A q \in Requests : runs[q].status # "none" => runs'[q].status # "none"
    BY <1>9
  <2> QED
    BY <1>1, <1>3, <1>4, <1>7, <2>1, <2>2, TypeEnds
<1>11. RunsInv'
  <2>1. LineInv'
    BY <1>1, <1>2, <1>4, <1>8, <1>9 DEF RunsInv, LineInv
  <2>2. ReuseInv'
    BY <1>1, <1>2, <1>4, <1>9 DEF RunsInv, ReuseInv
  <2>3. AnswerInv'
    BY <1>1, <1>2, <1>4, <1>8 DEF RunsInv, AnswerInv
  <2>4. SettledRunsHaveReports'
    BY <1>1, <1>2, <1>9 DEF RunsInv, SettledRunsHaveReports
  <2>5. AnswerIsStored'
    BY <1>1, <1>2, <1>4, <1>8 DEF RunsInv, AnswerIsStored
  <2> QED
    BY <2>1, <2>2, <2>3, <2>4, <2>5 DEF RunsInv
<1>12. SectionsInv'
  <2>1. \A q \in Requests : reqs'[q] = reqs[q] \/ reqs'[q].pc \notin {"wave", "drain"}
    BY <1>4
  <2> QED
    BY <1>1, <1>2, <2>1, GraphLeft DEF SectionsInv, ReportIsCoherent
<1>13. PaidInv'
  <2>1. \A q \in Requests : reports'[q] = reports[q]
    BY <1>1
  <2> QED
    BY <1>1, <1>3, <1>4, <1>5, <2>1, PaidEnds
<1> QED
  BY <1>10, <1>11, <1>12, <1>13 DEF Inv


\* The sections a request has gathered when its waves are over.
LEMMA Gathered ==
  ASSUME Inv, NEW p \in Requests, reqs[p].pc = "drain"
  PROVE  /\ {x.sec : x \in reqs[p].secs} = Sections /\ Coherent(reqs[p].secs)
         /\ runs[reqs[p].run].from = NoRun
<1>1. TypeOK /\ TrailInv /\ ReuseInv
  BY DEF Inv, RunsInv, SectionsInv, GraphInv
<1>2. PICK r \in Requests : r = reqs[p].run
  BY AtRun DEF Working
<1>3. reqs[p].wave = LastWave + 1
  BY <1>1 DEF TypeOK
<1>4. At(reqs[p]) \in Trail(r)
  BY <1>2, OnTrail
<1>5. Whole(reqs[p].secs, LastWave + 1)
  <2>1. Whole(At(reqs[p]).secs, At(reqs[p]).wave)
    BY <1>1, <1>4 DEF TrailInv
  <2>2. At(reqs[p]).secs = reqs[p].secs /\ At(reqs[p]).wave = reqs[p].wave
    BY DEF At
  <2> QED
    BY <1>3, <2>1, <2>2
<1>6. UNION {Waves[v] : v \in 1..((LastWave + 1) - 1)} = Sections
  <2>1. DOMAIN Waves = 1..LastWave /\ (LastWave + 1) - 1 = LastWave
    BY WaveFacts
  <2> QED
    BY <2>1 DEF Sections
<1>7. runs[r].from = NoRun
  BY <1>1, <1>2 DEF ReuseInv
<1> QED
  BY <1>2, <1>5, <1>6, <1>7 DEF Whole

\* A report is stored, and the run settled with it or left as it is.
LEMMA StoredInv ==
  ASSUME Inv, HousekeepingOK, NEW p \in Requests, reqs[p].pc = "drain",
         reqs' = [q \in Requests |-> reqs'[q]],
         \A q \in Requests : q # p => reqs'[q] = reqs[q],
         Shaped(reqs'[p]), reqs'[p].pc = "done", reqs'[p].run = reqs[p].run,
         reqs'[p].force = reqs[p].force, reqs'[p].secs = reqs[p].secs,
         NEW r \in Requests, r = reqs[p].run, reqs'[p].report \in {NoRun, r},
         reports[r].outcome = "none",
         reports' = [q \in Requests |-> reports'[q]],
         \A q \in Requests : q # r => reports'[q] = reports[q],
         reports'[r].outcome = Outcome(reqs[p].secs), reports'[r].secs = reqs[p].secs,
         runs' \in [Requests -> [status : Statuses \cup {"none"}, from : Requests \cup {NoRun}]],
         \A q \in Requests : q # r => runs'[q] = runs[q],
         runs'[r].from = runs[r].from,
         \/ runs'[r].status = runs[r].status
         \/ runs'[r].status = Outcome(reqs[p].secs),
         thread' = thread, cache' = cache
  PROVE  Inv'
<1> DEFINE out == Outcome(reqs[p].secs)
<1>1. TypeOK /\ RunsInv /\ SectionsInv /\ PaidInv
  BY DEF Inv
<1>2. out \in {"partial", "succeeded"} /\ (out = "succeeded" => \A x \in reqs[p].secs : ~x.skipped)
  BY DEF Outcome
<1> HIDE DEF out
<1>3. /\ reports'[r].outcome = out
      /\ runs'[r].status = runs[r].status \/ runs'[r].status = out
  BY DEF out
<1>4. {x.sec : x \in reqs[p].secs} = Sections /\ Coherent(reqs[p].secs) /\ runs[r].from = NoRun
  BY Gathered
<1>5. reqs[p].pc \in Working /\ reqs[p].pc # "none" /\ reqs[p].report = NoRun /\ runs[r].status # "none"
  BY AtRun DEF Working
<1>6. runs \in [Requests -> [status : Statuses \cup {"none"}, from : Requests \cup {NoRun}]]
  BY <1>1 DEF TypeOK
<1>7. \A q \in Requests : reqs[q].report \in Requests \cup {NoRun}
  BY <1>1 DEF TypeOK, Request
<1>8. \A q \in Requests : reports[q].outcome # "none" => reports'[q] = reports[q]
  OBVIOUS
<1>9. \A q \in Requests : reports[q].outcome # "none" \/ q = r => reports'[q].outcome # "none"
  BY <1>2, <1>3
<1>10. TypeOK'
  <2>1. \A q \in Requests : reports'[q].outcome \in {"none", "partial", "succeeded"}
    <3>1. \A q \in Requests : reports[q].outcome \in {"none", "partial", "succeeded"}
      BY <1>1 DEF TypeOK
    <3> QED
      BY <1>2, <1>3, <3>1
  <2>2. \A q \in Requests : runs[q].status # "none" => runs'[q].status # "none"
    BY <1>2, <1>3
  <2> QED
    BY <2>1, <2>2, TypeEnds
<1>11. LineInv'
  <2>1. /\ \A q, o \in Requests : q < o /\ reqs[q].pc = "none" => reqs[o].pc = "none"
        /\ \A q \in Requests : reqs[q].pc = "none" => runs[q].status = "none"
        /\ \A q \in Requests : runs[q].status = "none" =>
              runs[q].from = NoRun /\ thread[q] = NoThread /\ reports[q].outcome = "none"
    BY <1>1 DEF RunsInv, LineInv
  <2>2. \A q \in Requests : (reqs'[q].pc = "none" <=> reqs[q].pc = "none")
    BY <1>5
  <2>3. runs'[r].status # "none"
    BY <1>2, <1>3, <1>5
  <2>4. \A q \in Requests : q # r => runs'[q] = runs[q] /\ reports'[q] = reports[q]
    OBVIOUS
  <2>5. \A q, o \in Requests : q < o /\ reqs'[q].pc = "none" => reqs'[o].pc = "none"
    BY <2>1, <2>2
  <2>6. \A q \in Requests : reqs'[q].pc = "none" => runs'[q].status = "none"
    BY <1>5, <2>1, <2>2, <2>4
  <2>7. \A q \in Requests : runs'[q].status = "none" =>
           runs'[q].from = NoRun /\ thread'[q] = NoThread /\ reports'[q].outcome = "none"
    BY <2>1, <2>3, <2>4
  <2> QED
    BY <2>5, <2>6, <2>7 DEF LineInv
<1>12. ReuseInv'
  <2> SUFFICES ASSUME NEW q \in Requests, runs'[q].from # NoRun
               PROVE  /\ reports'[runs'[q].from].outcome = "succeeded" /\ runs'[q].status # "partial"
                      /\ thread'[q].cps = {}
                      /\ \A o \in Requests : reqs'[o].pc \in {"invoke", "wave", "drain"} => reqs'[o].run # q
    BY DEF ReuseInv
  <2>1. q # r /\ runs'[q] = runs[q] /\ runs[q].from \in Requests
    BY <1>4, <1>6
  <2>2. /\ reports[runs[q].from].outcome = "succeeded" /\ runs[q].status # "partial"
        /\ thread[q].cps = {}
        /\ \A o \in Requests : reqs[o].pc \in {"invoke", "wave", "drain"} => reqs[o].run # q
    BY <1>1, <2>1 DEF RunsInv, ReuseInv
  <2>3. reports'[runs[q].from] = reports[runs[q].from]
    BY <1>8, <2>1, <2>2
  <2> QED
    BY <2>1, <2>2, <2>3
<1>13. AnswerInv'
  <2>1. ASSUME NEW q \in Requests, reqs'[q].report # NoRun
        PROVE  reqs'[q].pc = "done" /\ reports'[reqs'[q].report].outcome # "none"
    <3>1. CASE q = p
      BY <1>9, <2>1, <3>1
    <3>2. CASE q # p
      <4>1. reqs[q].pc = "done" /\ reports[reqs[q].report].outcome # "none" /\ reqs[q].report \in Requests
        BY <1>1, <1>7, <2>1, <3>2 DEF RunsInv, AnswerInv
      <4> QED
        BY <1>9, <3>2, <4>1
    <3> QED
      BY <3>1, <3>2
  <2>2. ASSUME NEW q \in Requests, reports'[q].outcome = "succeeded"
        PROVE  \A x \in reports'[q].secs : ~x.skipped
    <3>1. CASE q = r
      BY <1>2, <1>3, <2>2, <3>1
    <3>2. CASE q # r
      BY <1>1, <2>2, <3>2 DEF RunsInv, AnswerInv
    <3> QED
      BY <3>1, <3>2
  <2> QED
    BY <2>1, <2>2 DEF AnswerInv
<1>14. SettledRunsHaveReports'
  <2> SUFFICES ASSUME NEW q \in Requests, runs'[q].status \in {"succeeded", "partial"}
               PROVE  reports'[IF runs'[q].from = NoRun THEN q ELSE runs'[q].from].outcome = runs'[q].status
    BY DEF SettledRunsHaveReports
  <2>1. CASE q = r /\ runs'[r].status = out
    BY <1>3, <1>4, <2>1
  <2>2. CASE runs'[q].status = runs[q].status /\ runs'[q].from = runs[q].from
    <3> DEFINE told == IF runs[q].from = NoRun THEN q ELSE runs[q].from
    <3>1. told \in Requests
      BY <1>6
    <3>2. reports[told].outcome = runs[q].status
      BY <1>1, <2>2 DEF RunsInv, SettledRunsHaveReports
    <3>3. reports'[told] = reports[told]
      BY <1>8, <2>2, <3>1, <3>2
    <3> QED
      BY <2>2, <3>2, <3>3
  <2> QED
    BY <1>3, <2>1, <2>2
<1>15. AnswerIsStored'
  <2> SUFFICES ASSUME NEW q \in Requests, reqs'[q].report # NoRun
               PROVE  /\ reports'[reqs'[q].report].secs = reqs'[q].secs
                      /\ reqs'[q].run = q /\ reqs'[q].report # q => \A x \in reqs'[q].secs : ~x.skipped
    BY DEF AnswerIsStored
  <2>1. CASE q = p
    BY <2>1
  <2>2. CASE q # p
    <3>1. reports[reqs[q].report].outcome # "none" /\ reqs[q].report \in Requests
      BY <1>1, <1>7, <2>2 DEF RunsInv, AnswerInv
    <3>2. reports'[reqs[q].report] = reports[reqs[q].report]
      BY <1>8, <3>1
    <3> QED
      BY <1>1, <2>2, <3>2 DEF RunsInv, AnswerIsStored
  <2> QED
    BY <2>1, <2>2
<1>16. SectionsInv'
  <2>1. \A q \in Requests : reqs'[q] = reqs[q] \/ reqs'[q].pc \notin {"wave", "drain"}
    OBVIOUS
  <2>2. GraphInv'
    BY <1>1, <2>1, GraphLeft DEF SectionsInv
  <2>3. ReportIsCoherent'
    BY <1>1, <1>4 DEF SectionsInv, ReportIsCoherent
  <2> QED
    BY <2>2, <2>3 DEF SectionsInv
<1>17. PaidInv'
  BY <1>5, PaidEnds
<1> QED
  BY <1>10, <1>11, <1>12, <1>13, <1>14, <1>15, <1>16, <1>17 DEF Inv, RunsInv


\* What save does to a run.
LEMMA SettledFields ==
  ASSUME TypeOK, NEW r \in Requests, NEW out \in {"partial", "succeeded"},
         runs' = runs \/ runs' = Settled(r, out)
  PROVE  /\ runs' \in [Requests -> [status : Statuses \cup {"none"}, from : Requests \cup {NoRun}]]
         /\ \A q \in Requests : q # r => runs'[q] = runs[q]
         /\ runs'[r].from = runs[r].from
         /\ runs'[r].status = runs[r].status \/ runs'[r].status = out
<1>1. CASE runs' = runs
  BY <1>1 DEF TypeOK
<1>2. CASE runs' = [runs EXCEPT ![r].status = out]
  <2>1. out \in Statuses
    BY DEF Statuses
  <2> QED
    BY <1>2, <2>1, StatusFields
<1> QED
  BY <1>1, <1>2 DEF Settled

\* A report that is stored.
Stores(p, r) == reports' = [reports EXCEPT ![r] = [outcome |-> Outcome(reqs[p].secs), secs |-> reqs[p].secs]]

LEMMA StoresFields ==
  ASSUME TypeOK, NEW p \in Requests, NEW r \in Requests, Stores(p, r)
  PROVE  /\ reports' = [q \in Requests |-> reports'[q]]
         /\ \A q \in Requests : q # r => reports'[q] = reports[q]
         /\ reports'[r].outcome = Outcome(reqs[p].secs) /\ reports'[r].secs = reqs[p].secs
<1>1. PICK new : new = [outcome |-> Outcome(reqs[p].secs), secs |-> reqs[p].secs]
  OBVIOUS
<1>2. new.outcome = Outcome(reqs[p].secs) /\ new.secs = reqs[p].secs
  BY <1>1
<1>3. reports = [q \in Requests |-> reports[q]]
  BY DEF TypeOK
<1>4. reports' = [reports EXCEPT ![r] = new]
  BY <1>1 DEF Stores
<1> QED
  BY <1>2, <1>3, <1>4

\* A request that ends without storing a report.
LEMMA UnsavedInv ==
  ASSUME Inv, HousekeepingOK, NEW p \in Requests, reqs[p].pc = "drain",
         Answered(p, NoRun, "unavailable"), UNCHANGED <<runs, reports, thread, cache>>
  PROVE  Inv'
<1>1. TypeOK /\ RunsInv /\ SectionsInv /\ PaidInv
  BY DEF Inv
<1>2. /\ reqs' = [q \in Requests |-> reqs'[q]]
      /\ \A q \in Requests : q # p => reqs'[q] = reqs[q]
      /\ reqs'[p] \in Request(reqs'[p])
      /\ reqs'[p].pc = "done" /\ reqs'[p].force = reqs[p].force
      /\ reqs'[p].queue = reqs[p].queue /\ reqs'[p].report = NoRun
  <2>1. NoRun \in Requests \cup {NoRun} /\ "unavailable" \in {"none", "ready", "unavailable"}
    OBVIOUS
  <2> QED
    BY <1>1, <2>1, AnsweredFields
<1>3. reqs[p].pc \in Working /\ reqs[p].pc # "none" /\ Shaped(reqs[p])
  BY AtRun DEF Working
<1>4. Shaped(reqs'[p])
  BY <1>2, <1>3 DEF Shaped
<1>5. TypeOK'
  <2>1. runs' \in [Requests -> [status : Statuses \cup {"none"}, from : Requests \cup {NoRun}]]
    BY <1>1 DEF TypeOK
  <2>2. reports' = [q \in Requests |-> reports'[q]] /\ \A q \in Requests : reports'[q].outcome \in {"none", "partial", "succeeded"}
    BY <1>1 DEF TypeOK
  <2>3. \A q \in Requests : runs[q].status # "none" => runs'[q].status # "none"
    OBVIOUS
  <2> QED
    BY <1>2, <1>4, <2>1, <2>2, <2>3, TypeEnds
<1>6. RunsInv'
  <2>1. \A q \in Requests :
           \/ reqs'[q] = reqs[q]
           \/ /\ reqs[q].pc # "none" /\ reqs'[q].pc # "none" /\ reqs'[q].report = NoRun
              /\ reqs'[q].pc \in {"invoke", "wave", "drain"} => runs[reqs'[q].run].from = NoRun
    BY <1>2, <1>3
  <2> QED
    BY <1>1, <2>1, RunsKept
<1>7. SectionsInv'
  <2>1. \A q \in Requests : reqs'[q] = reqs[q] \/ reqs'[q].pc \notin {"wave", "drain"}
    BY <1>2
  <2> QED
    BY <1>1, <2>1, GraphLeft DEF SectionsInv, ReportIsCoherent
<1>8. PaidInv'
  BY <1>2, <1>3, PaidEnds
<1> QED
  BY <1>5, <1>6, <1>7, <1>8 DEF Inv

\* A request that ends after its report was stored, whatever it is told.
LEMMA SavedInv ==
  ASSUME Inv, HousekeepingOK, NEW p \in Requests, reqs[p].pc = "drain",
         NEW r \in Requests, r = reqs[p].run, reports[r].outcome = "none",
         NEW told \in {NoRun, r}, NEW status \in {"ready", "unavailable"}, Answered(p, told, status),
         Stores(p, r), runs' = runs \/ runs' = Settled(r, Outcome(reqs[p].secs)),
         UNCHANGED <<thread, cache>>
  PROVE  Inv'
<1>1. TypeOK
  BY DEF Inv
<1>2. /\ reqs' = [q \in Requests |-> reqs'[q]]
      /\ \A q \in Requests : q # p => reqs'[q] = reqs[q]
      /\ reqs'[p] \in Request(reqs'[p])
      /\ reqs'[p].pc = "done" /\ reqs'[p].run = reqs[p].run /\ reqs'[p].force = reqs[p].force
      /\ reqs'[p].secs = reqs[p].secs /\ reqs'[p].queue = reqs[p].queue /\ reqs'[p].report = told
  <2>1. told \in Requests \cup {NoRun} /\ status \in {"none", "ready", "unavailable"}
    OBVIOUS
  <2> QED
    BY <1>1, <2>1, AnsweredFields
<1>3. Shaped(reqs'[p])
  <2>1. Shaped(reqs[p])
    BY <1>1, TypeParts
  <2> QED
    BY <1>2, <2>1 DEF Shaped
<1>4. PICK out : out = Outcome(reqs[p].secs)
  OBVIOUS
<1>5. out \in {"partial", "succeeded"}
  BY <1>4 DEF Outcome
<1>6. runs' = runs \/ runs' = Settled(r, out)
  BY <1>4
<1>7. /\ runs' \in [Requests -> [status : Statuses \cup {"none"}, from : Requests \cup {NoRun}]]
      /\ \A q \in Requests : q # r => runs'[q] = runs[q]
      /\ runs'[r].from = runs[r].from
      /\ runs'[r].status = runs[r].status \/ runs'[r].status = out
  BY <1>1, <1>5, <1>6, SettledFields
<1>8. /\ reports' = [q \in Requests |-> reports'[q]]
      /\ \A q \in Requests : q # r => reports'[q] = reports[q]
      /\ reports'[r].outcome = Outcome(reqs[p].secs) /\ reports'[r].secs = reqs[p].secs
  BY <1>1, StoresFields
<1>9. \/ runs'[r].status = runs[r].status
      \/ runs'[r].status = Outcome(reqs[p].secs)
  BY <1>4, <1>7
<1>10. reqs'[p].report \in {NoRun, r}
  BY <1>2
<1> QED
  BY <1>2, <1>3, <1>7, <1>8, <1>9, <1>10, StoredInv

LEMMA SaveInv ==
  ASSUME Inv, NEW p \in Requests, Save(p)
  PROVE  Inv'
<1> DEFINE r == reqs[p].run
           out == Outcome(reqs[p].secs)
           stored == [reports EXCEPT ![r] = [outcome |-> out, secs |-> reqs[p].secs]]
<1>1. reqs[p].pc = "drain" /\ UNCHANGED <<thread, cache>>
  BY DEF Save
<1>2. r \in Requests /\ (past.quiet => reports[r].outcome = "none")
  BY <1>1, AtRun DEF Working
<1>3. TypeOK /\ PaidInv
  BY DEF Inv
<1>4. (Served /\ UNCHANGED <<env, past>>) \/ Unserved => HousekeepingOK
  BY <1>3, Housekeeping DEF HousekeepingOK
<1>5. CASE /\ reports[r].outcome = "none" /\ Served
           /\ reports' = stored
           /\ runs' = Settled(r, out)
           /\ Answered(p, r, "ready")
           /\ UNCHANGED <<env, past>>
  <2>1. Stores(p, r)
    BY <1>5 DEF Stores
  <2>2. HousekeepingOK
    BY <1>4, <1>5
  <2>3. r \in {NoRun, r} /\ "ready" \in {"ready", "unavailable"}
    OBVIOUS
  <2> QED
    BY <1>1, <1>2, <1>5, <2>1, <2>2, <2>3, SavedInv
<1>6. CASE /\ \/ Refused /\ UNCHANGED <<env, past>>
              \/ Opens /\ reports[r].outcome # "none" /\ UNCHANGED <<env, past>>
              \/ Opens /\ Fault
           /\ Answered(p, NoRun, "unavailable")
           /\ UNCHANGED <<runs, reports>>
  <2>1. HousekeepingOK
    <3>1. CASE (Refused /\ UNCHANGED <<env, past>>) \/ (Opens /\ Fault)
      BY <1>4, <3>1 DEF Unserved
    <3>2. CASE Opens /\ reports[r].outcome # "none" /\ UNCHANGED <<env, past>>
      <4>1. ~past.quiet
        BY <1>2, <3>2
      <4>2. store' \in [refusing : BOOLEAN, status : {"ready", "unavailable"}]
        BY <1>3, <3>2, StoreSteps
      <4>3. /\ env \in [faults : Nat, skips : Nat, crashes : Nat, made : 0..MaxRequests, live : Nat]
            /\ past \in [quiet : BOOLEAN, paid : {past.paid}]
        BY <1>3 DEF TypeOK
      <4> QED
        BY <3>2, <4>1, <4>2, <4>3 DEF HousekeepingOK
    <3> QED
      BY <1>6, <3>1, <3>2
  <2> QED
    BY <1>1, <1>6, <2>1, UnsavedInv
<1>7. CASE /\ reports[r].outcome = "none" /\ Opens /\ Fault
           /\ Answered(p, NoRun, "unavailable")
           /\ \E done \in SavedSoFar(r, out, stored) : reports' = done[1] /\ runs' = done[2]
  <2>1. reports' = stored /\ (runs' = runs \/ runs' = Settled(r, out))
    BY <1>7 DEF SavedSoFar
  <2>2. Stores(p, r)
    BY <2>1 DEF Stores
  <2>3. HousekeepingOK
    BY <1>4, <1>7 DEF Unserved
  <2>4. NoRun \in {NoRun, r} /\ "unavailable" \in {"ready", "unavailable"}
    OBVIOUS
  <2> QED
    BY <1>1, <1>2, <1>7, <2>1, <2>2, <2>3, <2>4, SavedInv
<1> QED
  BY <1>5, <1>6, <1>7 DEF Save


-----------------------------------------------------------------------------
\* The model answers a section.

\* The cache with an output under its key, in place of what was there.
CachedAs(key, x) == {e \in cache : e.key # key} \cup {[key |-> key, out |-> x]}

LEMMA CachedFields ==
  ASSUME NEW key, NEW x, cache' = CachedAs(key, x)
  PROVE  /\ \A e \in cache' : (e \in cache /\ e.key # key) \/ (e.key = key /\ e.out = x)
         /\ \A e \in cache : e.key # key => e \in cache'
         /\ \E e \in cache' : e.key = key
<1>1. PICK new : new = [key |-> key, out |-> x]
  OBVIOUS
<1>2. new.key = key /\ new.out = x
  BY <1>1
<1>3. cache' = {e \in cache : e.key # key} \cup {new}
  BY <1>1 DEF CachedAs
<1> QED
  BY <1>2, <1>3

\* In the quiet nobody else is at work.
LEMMA AloneAtWork ==
  ASSUME Inv, past.quiet, NEW p \in Live, NEW q \in Requests, reqs[q].pc \in Working
  PROVE  q = p
<1>1. q \in Live /\ p \in Requests /\ reqs[p].pc # "none"
  BY AtRun DEF Live
<1>2. reqs[q].pc # "none"
  BY AtRun
<1>3. \A o \in Live, n \in Requests : o < n => reqs[n].pc = "none"
  BY DEF Inv, PaidInv, QuietInv
<1>4. ~(p < q) /\ ~(q < p)
  BY <1>1, <1>2, <1>3
<1> QED
  BY <1>1, <1>4 DEF Requests

\* An answer that is paid for in the quiet.
LEMMA PaysOnce ==
  ASSUME Inv, past.quiet, NEW p \in Requests, NEW s \in Sections, InWave(p, s, "calling"), HasOutput(p, s),
         NEW x, x.sec = s, x.by = p, x.prior = reqs[p].secs,
         NEW key, key = <<s, reqs[p].secs>>, cache' = CachedAs(key, x),
         past'.quiet, past'.paid = past.paid \cup {x}, ~store'.refusing, reports' = reports
  PROVE  PaidInv'
<1>1. /\ \A q \in Requests : q # p => reqs'[q] = reqs[q]
      /\ reqs'[p].pc = reqs[p].pc /\ reqs'[p].run = reqs[p].run /\ reqs'[p].force = reqs[p].force
      /\ reqs'[p].wave = reqs[p].wave /\ reqs'[p].secs = reqs[p].secs
      /\ reqs'[p].stage[s] = "kept" /\ \A t \in Sections : t # s => reqs'[p].stage[t] = reqs[p].stage[t]
  BY DEF HasOutput
<1>2. reqs[p].pc = "wave"
  BY DEF InWave
<1>3. p \in Live
  BY <1>2 DEF Live
<1>4. /\ \A o \in Live, q \in Requests : o < q => reqs[q].pc = "none"
      /\ \A q \in Requests : reqs[q].pc \in Working => reports[reqs[q].run].outcome = "none"
      /\ \A y \in past.paid : y.by \in Requests /\ reqs[y.by].pc # "none"
      /\ \A y \in past.paid : \E e \in cache : e.key = <<y.sec, y.prior>>
      /\ \A q \in Requests, t \in Sections :
            InWave(q, t, "calling") /\ ~reqs[q].force => \A e \in cache : e.key # <<t, reqs[q].secs>>
      /\ \A y, z \in past.paid :
            y.sec = z.sec /\ y.prior = z.prior /\ y.by < z.by => reqs[z.by].force
  BY DEF Inv, PaidInv, QuietInv, PaidOnce
<1>5. /\ \A e \in cache' : (e \in cache /\ e.key # key) \/ (e.key = key /\ e.out = x)
      /\ \A e \in cache : e.key # key => e \in cache'
      /\ \E e \in cache' : e.key = key
  BY CachedFields
<1>6. \A q \in Requests : reqs'[q].pc = reqs[q].pc /\ reqs'[q].force = reqs[q].force /\ reqs'[q].run = reqs[q].run
  BY <1>1
<1>7. \A o \in Live', q \in Requests : o < q => reqs'[q].pc = "none"
  BY <1>4, <1>6 DEF Live
<1>8. \A q \in Requests : reqs'[q].pc \in Working => reports'[reqs'[q].run].outcome = "none"
  BY <1>4, <1>6
<1>9. ASSUME NEW y \in past'.paid
      PROVE  /\ y.by \in Requests /\ reqs'[y.by].pc # "none"
             /\ \E e \in cache' : e.key = <<y.sec, y.prior>>
  <2>1. CASE y = x
    BY <1>2, <1>5, <1>6, <2>1
  <2>2. CASE y \in past.paid
    <3>1. PICK e \in cache : e.key = <<y.sec, y.prior>>
      BY <1>4, <2>2
    <3>2. \E d \in cache' : d.key = <<y.sec, y.prior>>
      BY <1>5, <3>1
    <3> QED
      BY <1>4, <1>6, <2>2, <3>2
  <2> QED
    BY <2>1, <2>2
<1>10. ASSUME NEW q \in Requests, NEW t \in Sections, InWave(q, t, "calling")', ~reqs'[q].force
       PROVE  \A e \in cache' : e.key # <<t, reqs'[q].secs>>
  <2>1. reqs[q].pc \in Working
    BY <1>6, <1>10 DEF InWave, Working
  <2>2. q = p
    BY <1>3, <2>1, AloneAtWork
  <2>3. t # s /\ InWave(p, t, "calling") /\ ~reqs[p].force
    BY <1>1, <1>10, <2>2 DEF InWave
  <2>4. \A e \in cache : e.key # <<t, reqs[p].secs>>
    BY <1>4, <2>3
  <2>5. key # <<t, reqs[p].secs>>
    BY <2>3
  <2> QED
    BY <1>1, <1>5, <2>2, <2>4, <2>5
<1>11. ASSUME NEW y \in past'.paid, NEW z \in past'.paid, y.sec = z.sec, y.prior = z.prior, y.by < z.by
       PROVE  reqs'[z.by].force
  <2>1. CASE z \in past.paid
    <3>1. z.by \in Requests /\ reqs[z.by].pc # "none"
      BY <1>4, <2>1
    <3>2. y \in past.paid
      <4>1. y = x => reqs[z.by].pc = "none"
        BY <1>3, <1>4, <1>11, <3>1
      <4> QED
        BY <3>1, <4>1
    <3> QED
      BY <1>4, <1>6, <1>11, <2>1, <3>1, <3>2
  <2>2. CASE z = x
    <3>1. y # x
      BY <1>11, <2>2 DEF Requests
    <3>2. PICK e \in cache : e.key = <<y.sec, y.prior>>
      BY <1>4, <3>1
    <3>3. e.key = <<s, reqs[p].secs>>
      BY <1>11, <2>2, <3>2
    <3>4. reqs[p].force
      BY <1>4, <3>3
    <3> QED
      BY <1>6, <2>2, <3>4
  <2> QED
    BY <2>1, <2>2
<1>12. QuietInv'
  BY <1>7, <1>8, <1>9, <1>10 DEF QuietInv
<1>13. PaidOnce'
  BY <1>11 DEF PaidOnce
<1> QED
  BY <1>12, <1>13 DEF PaidInv

\* An answer that is cached.
LEMMA AnswerCached ==
  ASSUME Inv, NEW p \in Requests, NEW s \in Sections, InWave(p, s, "calling"), HasOutput(p, s),
         NEW x, x.sec = s, x.by = p, x.prior = reqs[p].secs,
         NEW key, key = <<s, reqs[p].secs>>, cache' = CachedAs(key, x),
         UNCHANGED <<runs, reports, thread>>,
         \/ Served /\ past' = Paid(x) /\ UNCHANGED env
         \/ Opens /\ Fault
  PROVE  Inv'
<1>1. /\ reqs' = [q \in Requests |-> reqs'[q]]
      /\ \A q \in Requests : q # p => reqs'[q] = reqs[q]
      /\ Shaped(reqs'[p]) /\ WaveOK(reqs'[p])
      /\ reqs'[p].pc = reqs[p].pc /\ reqs'[p].run = reqs[p].run /\ reqs'[p].force = reqs[p].force
      /\ reqs'[p].wave = reqs[p].wave /\ reqs'[p].secs = reqs[p].secs /\ reqs'[p].cp = reqs[p].cp
      /\ reqs'[p].queue = reqs[p].queue /\ reqs'[p].report = reqs[p].report
  BY DEF HasOutput
<1>2. reqs[p].pc = "wave" /\ reqs[p].pc \in Working
  BY DEF InWave, Working
<1>3. TypeOK /\ RunsInv /\ SectionsInv /\ PaidInv /\ WaveInv /\ CacheInv /\ ReuseInv
  BY DEF Inv, RunsInv, SectionsInv, GraphInv
<1>4. PICK r \in Requests : r = reqs[p].run
  BY <1>2, AtRun
<1>5. reqs[p].report = NoRun /\ runs[r].status # "none" /\ runs[r].from = NoRun
  <2>1. reqs[p].report = NoRun /\ runs[r].status # "none"
    BY <1>2, <1>4, AtRun
  <2>2. runs[r].from = NoRun
    BY <1>2, <1>3, <1>4 DEF ReuseInv
  <2> QED
    BY <2>1, <2>2
<1>6. /\ past \in [quiet : BOOLEAN, paid : {past.paid}]
      /\ env \in [faults : Nat, skips : Nat, crashes : Nat, made : 0..MaxRequests, live : Nat]
  BY <1>3 DEF TypeOK
<1>7. past' = Paid(x) =>
        /\ past' \in [quiet : BOOLEAN, paid : {past'.paid}]
        /\ ~past.quiet => past' = past
        /\ past.quiet => past'.quiet /\ past'.paid = past.paid \cup {x}
  BY <1>6 DEF Paid
<1>8. /\ store' \in [refusing : BOOLEAN, status : {"ready", "unavailable"}]
      /\ env' \in [faults : Nat, skips : Nat, crashes : Nat, made : 0..MaxRequests, live : Nat]
      /\ past' \in [quiet : BOOLEAN, paid : {past'.paid}]
  <2>1. CASE Served /\ past' = Paid(x) /\ UNCHANGED env
    BY <1>3, <1>6, <1>7, <2>1, StoreSteps
  <2>2. CASE Opens /\ Fault
    <3>1. past' = NoLongerQuiet /\ NoLongerQuiet \in [quiet : BOOLEAN, paid : {NoLongerQuiet.paid}]
      BY <1>3, <2>2, StoreSteps
    <3> QED
      BY <1>3, <2>2, <3>1, StoreSteps
  <2> QED
    BY <2>1, <2>2
<1>9. TypeOK'
  <2>1. RestOK'
    BY <1>3, <1>8, RestStep
  <2>2. reqs'[p].run # NoRun /\ runs'[reqs'[p].run].status # "none"
    BY <1>1, <1>4, <1>5 DEF Requests, NoRun
  <2>3. \A q \in Requests : runs[q].status # "none" => runs'[q].status # "none"
    OBVIOUS
  <2> QED
    BY <1>1, <1>3, <2>1, <2>2, <2>3, TypeStep
<1>10. RunsInv'
  <2>1. \A q \in Requests :
           \/ reqs'[q] = reqs[q]
           \/ /\ reqs[q].pc # "none" /\ reqs'[q].pc # "none" /\ reqs'[q].report = NoRun
              /\ reqs'[q].pc \in {"invoke", "wave", "drain"} => runs[reqs'[q].run].from = NoRun
    BY <1>1, <1>2, <1>4, <1>5
  <2> QED
    BY <1>3, <2>1, RunsKept
<1>11. SectionsInv'
  <2>1. TrailInv' /\ WritesInv'
    BY <1>1, SameTrail
  <2>2. WaveInv'
    BY <1>1, <1>3, WaveStep
  <2>3. CacheInv'
    BY <1>3, CachedFields DEF CacheInv
  <2>4. ReportIsCoherent'
    BY <1>3 DEF SectionsInv, ReportIsCoherent
  <2> QED
    BY <2>1, <2>2, <2>3, <2>4 DEF SectionsInv, GraphInv
<1>12. PaidInv'
  <2>1. CASE Opens /\ Fault
    <3>1. past' = NoLongerQuiet
      BY <2>1 DEF Fault
    <3> QED
      BY <3>1, QuietBroken
  <2>2. CASE Served /\ past' = Paid(x) /\ ~past.quiet
    BY <1>3, <1>7, <2>2, NoQuietKept
  <2>3. CASE Served /\ past' = Paid(x) /\ past.quiet
    <3>1. ~store'.refusing
      BY <1>3, <2>3, StoreSteps
    <3> QED
      BY <1>7, <2>3, <3>1, PaysOnce
  <2> QED
    BY <2>1, <2>2, <2>3
<1> QED
  BY <1>9, <1>10, <1>11, <1>12 DEF Inv

LEMMA SectionPutInv ==
  ASSUME Inv, NEW p \in Requests, NEW s \in Sections, SectionPut(p, s)
  PROVE  Inv'
<1>1. PICK x : x = Payload(s, p, FALSE, reqs[p].secs)
  OBVIOUS
<1>2. x.sec = s /\ x.by = p /\ x.prior = reqs[p].secs
  BY <1>1 DEF Payload
<1>3. PICK key : key = CacheKey(s, reqs[p].secs)
  OBVIOUS
<1>4. key = <<s, reqs[p].secs>>
  BY <1>3 DEF CacheKey
<1>5. PICK new : new = Kept(reqs[p], s, x)
  OBVIOUS
<1>6. /\ InWave(p, s, "calling") /\ UNCHANGED <<runs, reports, thread>>
      /\ reqs' = [reqs EXCEPT ![p] = Kept(@, s, x)] /\ reqs' = [reqs EXCEPT ![p] = new]
      /\ \/ Served /\ cache' = CachedAs(key, x) /\ past' = Paid(x) /\ UNCHANGED env
         \/ Refused /\ UNCHANGED <<cache, env, past>>
         \/ Opens /\ Fault /\ cache' \in {cache, CachedAs(key, x)}
  BY <1>1, <1>3, <1>5 DEF SectionPut, CachedAs
<1>7. "calling" \in {"todo", "calling"}
  OBVIOUS
<1>8. HasOutput(p, s)
  BY <1>2, <1>5, <1>6, <1>7, KeepsOutput
<1>9. CASE Served /\ cache' = CachedAs(key, x) /\ past' = Paid(x) /\ UNCHANGED env
  BY <1>2, <1>4, <1>6, <1>8, <1>9, AnswerCached
<1>10. CASE Opens /\ Fault /\ cache' = CachedAs(key, x)
  BY <1>2, <1>4, <1>6, <1>8, <1>10, AnswerCached
<1>11. CASE cache' = cache /\ ((Refused /\ UNCHANGED <<env, past>>) \/ (Opens /\ Fault))
  <2>1. HousekeepingOK
    BY <1>11, Housekeeping DEF Inv, HousekeepingOK, Unserved
  <2> QED
    BY <1>2, <1>6, <1>7, <1>11, <2>1, SectionKept
<1> QED
  BY <1>6, <1>9, <1>10, <1>11


-----------------------------------------------------------------------------
\* The theorems.

LEMMA StepInv == Inv /\ [Next]_vars => Inv'
<1> SUFFICES ASSUME Inv, [Next]_vars PROVE Inv'
  OBVIOUS
<1>1. CASE UNCHANGED vars
  BY <1>1, StutterInv
<1>2. CASE Reopen \/ Crash
  BY <1>2, ReopenInv, CrashInv
<1>3. ASSUME NEW p \in Requests, NEW force \in BOOLEAN, Start(p, force) \/ StartUnserved(p, force)
      PROVE  Inv'
  BY <1>3, StartInv, StartUnservedInv
<1>4. ASSUME NEW p \in Requests, NEW r \in Requests, Resume(p, r) \/ ResumeUnserved(p, r)
      PROVE  Inv'
  BY <1>4, ResumeInv, ResumeUnservedInv
<1>5. ASSUME NEW p \in Requests, EphemeralStep(p) \/ EphemeralEnds(p)
      PROVE  Inv'
  BY <1>5, EphemeralStepInv, EphemeralEndsInv
<1>6. ASSUME NEW p \in Requests, Load(p) \/ Invoke(p) \/ EndWave(p) \/ Put(p)
      PROVE  Inv'
  BY <1>6, LoadInv, InvokeInv, EndWaveInv, PutInv
<1>7. ASSUME NEW p \in Requests, Save(p) \/ SaveError(p)
      PROVE  Inv'
  BY <1>7, SaveInv, SaveErrorInv
<1>8. ASSUME NEW p \in Requests, NEW s \in Sections, SectionStep(p, s)
      PROVE  Inv'
  BY <1>8, SectionGetInv, SectionPutInv, SectionSkippedInv, PutWritesInv DEF SectionStep
<1> QED
  BY <1>1, <1>2, <1>3, <1>4, <1>5, <1>6, <1>7, <1>8 DEF Next

\* Every state of the runs, their graphs, the cache and the history keeps the inductive
\* invariant, through every fault, kill, retry and overlap of requests.
THEOREM Invariance == Spec => []Inv
<1>1. Init => Inv
  BY InitInv
<1>2. Inv /\ [Next]_vars => Inv'
  BY StepInv
<1> QED
  BY <1>1, <1>2, PTL DEF Spec

\* Every variable of the durable runs keeps its shape, and a request works only on a run
\* that was recorded (AnalysisHistory.start and resume).
THEOREM TypeCorrect == Spec => []TypeOK
<1>1. Inv => TypeOK
  BY DEF Inv
<1> QED
  BY <1>1, Invariance, PTL

\* A run that AnalysisHistory.save or start settled as succeeded or partial has the report
\* of that outcome, its own or the one it reused, whatever fails between the two writes.
THEOREM SettledRunsKeepReports == Spec => []SettledRunsHaveReports
<1>1. Inv => SettledRunsHaveReports
  BY DEF Inv, RunsInv
<1> QED
  BY <1>1, Invariance, PTL

\* A stored report has every section of the graph once, each written from exactly the
\* sections the report holds of the waves before, although sections may come from the
\* model, the cache or the writes of a checkpoint, and the run from several requests.
THEOREM ReportsAreCoherent == Spec => []ReportIsCoherent
<1>1. Inv => ReportIsCoherent
  BY DEF Inv, SectionsInv
<1> QED
  BY <1>1, Invariance, PTL

\* An answer that names a report carries the sections stored under that name, and the
\* report a later start reuses has no section that was skipped.
THEOREM AnswersAreStored == Spec => []AnswerIsStored
<1>1. Inv => AnswerIsStored
  BY DEF Inv, RunsInv
<1> QED
  BY <1>1, Invariance, PTL

\* As long as the database serves and requests do not overlap, the model is not asked a
\* second time for a section that was answered from the same sections, unless the request
\* forces it: across kills, resumed runs and new runs.
THEOREM AnswersArePaidOnce == Spec => []PaidOnce
<1>1. Inv => PaidOnce
  BY DEF Inv, PaidInv
<1> QED
  BY <1>1, Invariance, PTL
=============================================================================
