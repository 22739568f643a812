-------------------------- MODULE BackgroundProofs --------------------------
(***************************************************************************)
(* Proofs about the loops that run in the background, for any number of    *)
(* workers, tasks, mails, captures and any limits.                         *)
(*                                                                         *)
(* Scraper workers: each request of a task has its attempt, and only a     *)
(* worker that made none in this run may give its attempt back             *)
(* (RequestsPaid), so replies lost on the way cost no extra requests.      *)
(* Retention: a batch takes the oldest results first, so no run empties a  *)
(* capture before an older one (InOrder, OnlyFetched) and a tombstone tells *)
(* of the last fetch; a streak is no longer than the measurements were calm *)
(* (StreaksCalm).  Ingestion: a stored title never changes, so a listing   *)
(* keeps its duplicate key and its candidate (CandidatesLinked); a message *)
(* is stored with all its articles (MessagesComplete), and every label has *)
(* the row it stands for (ProcessedRecorded, QuarantineRecorded).          *)
(***************************************************************************)
EXTENDS Ingestion, ScraperLoop, Retention, Integers, FiniteSetTheorems,
        WellFoundedInduction, TLAPS

TaskRow == [state : {"none", "waiting", "running", "succeeded", "failed"},
            tries : 0..TryLimit, by : Crew \cup {NoOne}, left : Nat, life : Nat,
            wait : Nat]
Place == {"idle", "reserve", "refused", "fetching", "page", "denied", "cooldown",
          "failing", "complete", "replay"}
LoopRow == [at : Place, job : Job \cup {NoOne}, lost : BOOLEAN, sends : Int]

LoopTypes ==
    /\ tasks \in [Job -> TaskRow]
    /\ loop \in [Crew -> LoopRow]
    /\ requests \in [Job -> Nat]
    /\ \A w \in Crew : loop[w].at # "idle" => loop[w].job \in Job

(* A worker that made no request in its run so far.                        *)
Unspent(row) == row.at \in {"reserve", "refused"}

(* Every request of a task has its attempt, and the attempt of a worker    *)
(* that made no request yet may be given back.                             *)
RequestsPaid ==
    /\ \A t \in Job : /\ requests[t] <= tasks[t].tries
                      /\ tasks[t].state = "none" => requests[t] = 0
    /\ \A w \in Crew : \A t \in Job :
          /\ Unspent(loop[w]) /\ loop[w].job = t
          /\ tasks[t].state = "running" /\ tasks[t].by = w
          => requests[t] + 1 <= tasks[t].tries

LoopInductive == LoopTypes /\ RequestsPaid

LEMMA LoopConstants ==
    /\ TryLimit \in Nat \ {0} /\ WaitLen \in Nat \ {0}
    /\ LeaseLen \in Nat /\ LeaseCap \in Nat
  BY LoopAssumption

LEMMA LoopInitInductive == LoopInit => LoopInductive
  <1>1. NotQueued \in TaskRow /\ AtRest \in LoopRow /\ AtRest.at = "idle"
    BY LoopConstants DEF NotQueued, AtRest, TaskRow, LoopRow, Place
  <1>2. NotQueued.tries = 0 /\ NotQueued.state = "none"
    BY DEF NotQueued
  <1>3. QED
    BY <1>1, <1>2 DEF LoopInit, LoopInductive, LoopTypes, RequestsPaid, Unspent

(* A worker goes a step further in its run and may end the attempt of its  *)
(* task on the way.                                                        *)
RunMoves(w, row) ==
    /\ row \in LoopRow /\ loop' = [loop EXCEPT ![w] = row]
    /\ row.at # "idle" => loop[w].at # "idle" /\ row.job = loop[w].job
    /\ Unspent(row) => Unspent(loop[w])
    /\ requests' = requests

AttemptEnds(w, row) ==
    /\ row \in TaskRow /\ row.state \notin {"none", "running"}
    /\ requests[loop[w].job] <= row.tries
    /\ tasks' = [tasks EXCEPT ![loop[w].job] = row]

LEMMA RunKeeps ==
    ASSUME LoopInductive, NEW w \in Crew, NEW row, RunMoves(w, row),
           \/ tasks' = tasks
           \/ loop[w].at # "idle" /\ \E new : AttemptEnds(w, new)
    PROVE  LoopInductive'
  <1>1. LoopTypes /\ RequestsPaid
    BY DEF LoopInductive
  <1>2. LoopTypes'
    BY <1>1 DEF LoopTypes, RunMoves, AttemptEnds
  <1>3. \A v \in Crew : loop'[v] = IF v = w THEN row ELSE loop[v]
    BY <1>1 DEF LoopTypes, RunMoves
  <1>4. \A t \in Job : \/ tasks'[t] = tasks[t]
                       \/ tasks'[t].state \notin {"none", "running"} /\ requests[t] <= tasks'[t].tries
    BY <1>1 DEF LoopTypes, AttemptEnds
  <1>5. \A v \in Crew, t \in Job : Unspent(loop'[v]) /\ loop'[v].job = t
            => Unspent(loop[v]) /\ loop[v].job = t
    BY <1>1, <1>3 DEF LoopTypes, RunMoves, Unspent
  <1>6. RequestsPaid'
    BY <1>1, <1>4, <1>5 DEF RequestsPaid, RunMoves
  <1>7. QED
    BY <1>2, <1>6 DEF LoopInductive

LEMMA EndRunMoves ==
    ASSUME NEW w, EndRun(w), requests' = requests
    PROVE  RunMoves(w, AtRest)
  BY DEF EndRun, RunMoves, AtRest, LoopRow, Place, Unspent

LEMMA StepMoves ==
    ASSUME LoopInductive, NEW w \in Crew, NEW at \in Place, StepTo(w, at),
           loop[w].at # "idle", requests' = requests,
           at \in {"reserve", "refused"} => Unspent(loop[w])
    PROVE  RunMoves(w, [loop[w] EXCEPT !.at = at])
  BY DEF LoopInductive, LoopTypes, StepTo, RunMoves, LoopRow, Unspent

(* What the end of an attempt makes of its task.                           *)
LEMMA EndedRow ==
    ASSUME LoopInductive, NEW t \in Job, NEW s \in {"waiting", "succeeded", "failed"}
    PROVE  /\ Ended(t, s) \in TaskRow /\ Ended(t, s).state = s
           /\ Ended(t, s).tries = tasks[t].tries
  <1>1. tasks[t] \in TaskRow
    BY DEF LoopInductive, LoopTypes
  <1> DEFINE e1 == [tasks[t] EXCEPT !.state = s]
             e2 == [e1 EXCEPT !.by = NoOne]
             e3 == [e2 EXCEPT !.left = 0]
             e4 == [e3 EXCEPT !.life = 0]
  <1>2. e1 \in TaskRow /\ e1.state = s /\ e1.tries = tasks[t].tries
    BY <1>1 DEF TaskRow
  <1>3. e2 \in TaskRow /\ e2.state = s /\ e2.tries = tasks[t].tries
    BY <1>2 DEF TaskRow
  <1>4. e3 \in TaskRow /\ e3.state = s /\ e3.tries = tasks[t].tries
    BY <1>3 DEF TaskRow
  <1>5. e4 \in TaskRow /\ e4.state = s /\ e4.tries = tasks[t].tries
    BY <1>4 DEF TaskRow
  <1>6. Ended(t, s) = e4
    BY DEF Ended
  <1> HIDE DEF e4
  <1>7. QED
    BY <1>5, <1>6

(* The row e with n attempts, to wait for d.                               *)
PutOff(e, n, d) == [e EXCEPT !.tries = n, !.wait = d]

LEMMA PostponedRow ==
    ASSUME NEW e \in TaskRow, NEW n \in 0..TryLimit, NEW d \in Nat
    PROVE  /\ PutOff(e, n, d) \in TaskRow
           /\ PutOff(e, n, d).state = e.state
           /\ PutOff(e, n, d).tries = n
  BY DEF TaskRow, PutOff

(* The last call of a run, whose rows end the attempt if the lease is held.*)
LEMMA LastCallKeeps ==
    ASSUME LoopInductive, NEW w \in Crew, loop[w].at # "idle", NEW rows,
           LastCall(w, rows),
           Holds(w) => \A row \in rows :
              /\ row \in TaskRow /\ row.state \notin {"none", "running"}
              /\ requests[loop[w].job] <= row.tries
    PROVE  LoopInductive'
  <1>1. EndRun(w) /\ requests' = requests
    BY DEF LastCall
  <1>2. RunMoves(w, AtRest)
    BY <1>1, EndRunMoves
  <1>3. tasks' = tasks \/ \E row : AttemptEnds(w, row)
    BY DEF LastCall, Put, AttemptEnds
  <1>4. QED
    BY <1>2, <1>3, RunKeeps

LEMMA PostponedRows ==
    ASSUME LoopInductive, NEW t \in Job, NEW n \in 0..TryLimit, requests[t] <= n
    PROVE  \A row \in Postponed(t, n) :
              row \in TaskRow /\ row.state \notin {"none", "running"} /\ requests[t] <= row.tries
  <1>1. WaitLen \in Nat
    BY LoopConstants
  <1>2. Ended(t, "waiting") \in TaskRow /\ Ended(t, "waiting").state = "waiting"
    BY EndedRow
  <1> DEFINE e == Ended(t, "waiting")
  <1> HIDE DEF e
  <1>3. ASSUME NEW d \in 1..WaitLen
        PROVE  LET row == PutOff(e, n, d)
               IN  row \in TaskRow /\ row.state \notin {"none", "running"}
                   /\ requests[t] <= row.tries
    <2>1. d \in Nat /\ e \in TaskRow /\ e.state = "waiting"
      BY <1>1, <1>2 DEF e
    <2>2. /\ PutOff(e, n, d) \in TaskRow
          /\ PutOff(e, n, d).state = e.state
          /\ PutOff(e, n, d).tries = n
      BY <2>1, PostponedRow
    <2>3. QED
      BY <2>1, <2>2
  <1>4. Postponed(t, n) = {PutOff(e, n, d) : d \in 1..WaitLen}
    BY DEF Postponed, PutOff, e
  <1>5. QED
    BY <1>3, <1>4

LEMMA EndedRows ==
    ASSUME LoopInductive, NEW t \in Job, NEW s \in {"succeeded", "failed"}
    PROVE  /\ Ended(t, s) \in TaskRow /\ Ended(t, s).state \notin {"none", "running"}
           /\ requests[t] <= Ended(t, s).tries
  <1>1. /\ Ended(t, s) \in TaskRow /\ Ended(t, s).state = s
        /\ Ended(t, s).tries = tasks[t].tries
    BY EndedRow
  <1>2. QED
    BY <1>1 DEF LoopInductive, RequestsPaid

(* A job in a worker's hand is one of the tasks, and its attempts are      *)
(* counted.                                                                *)
LEMMA JobInHand ==
    ASSUME LoopInductive, NEW w \in Crew, loop[w].at # "idle"
    PROVE  /\ loop[w].job \in Job /\ tasks[loop[w].job].tries \in 0..TryLimit
           /\ requests[loop[w].job] \in Nat
           /\ requests[loop[w].job] <= tasks[loop[w].job].tries
           /\ Unspent(loop[w]) /\ Holds(w) =>
                 requests[loop[w].job] + 1 <= tasks[loop[w].job].tries
  <1>1. loop[w].job \in Job
    BY DEF LoopInductive, LoopTypes
  <1>2. tasks[loop[w].job] \in TaskRow /\ requests[loop[w].job] \in Nat
    BY <1>1 DEF LoopInductive, LoopTypes
  <1>3. tasks[loop[w].job].tries \in 0..TryLimit
    BY <1>2 DEF TaskRow
  <1>4. QED
    BY <1>1, <1>2, <1>3 DEF LoopInductive, RequestsPaid, Holds

LEMMA DeferRefusedKeeps ==
    ASSUME LoopInductive, NEW w \in Crew, DeferRefused(w)
    PROVE  LoopInductive'
  <1> DEFINE t == loop[w].job
  <1>1. loop[w].at = "refused" /\ LastCall(w, Postponed(t, tasks[t].tries - 1))
    BY DEF DeferRefused
  <1>2. ASSUME Holds(w)
        PROVE  \A row \in Postponed(t, tasks[t].tries - 1) :
                  row \in TaskRow /\ row.state \notin {"none", "running"} /\ requests[t] <= row.tries
    <2>1. /\ t \in Job /\ requests[t] \in Nat /\ tasks[t].tries \in 0..TryLimit
          /\ requests[t] + 1 <= tasks[t].tries
      BY <1>1, <1>2, JobInHand DEF Unspent
    <2>2. tasks[t].tries - 1 \in 0..TryLimit /\ requests[t] <= tasks[t].tries - 1
      BY <2>1, LoopConstants
    <2>3. QED
      BY <2>1, <2>2, PostponedRows
  <1> HIDE DEF t
  <1>3. QED
    BY <1>1, <1>2, LastCallKeeps DEF t

LEMMA CooledDownKeeps ==
    ASSUME LoopInductive, NEW w \in Crew, DeferCooldown(w) \/ FailTransport(w)
    PROVE  LoopInductive'
  <1> DEFINE t == loop[w].job
  <1>1. loop[w].at # "idle" /\ LastCall(w, CooledDown(t))
    BY DEF DeferCooldown, FailTransport
  <1>2. /\ t \in Job /\ tasks[t].tries \in 0..TryLimit
        /\ requests[t] <= tasks[t].tries
    BY <1>1, JobInHand
  <1> HIDE DEF t
  <1>3. \A row \in CooledDown(t) :
           row \in TaskRow /\ row.state \notin {"none", "running"} /\ requests[t] <= row.tries
    BY <1>2, PostponedRows, EndedRows DEF CooledDown
  <1>4. QED
    BY <1>1, <1>3, LastCallKeeps DEF t

LEMMA ReserveKeeps ==
    ASSUME LoopInductive, NEW w \in Crew, Reserve(w)
    PROVE  LoopInductive'
  <1>1. loop[w].at = "reserve" /\ tasks' = tasks
    BY DEF Reserve
  <1>2. CASE EndRun(w) /\ UNCHANGED requests
    BY <1>1, <1>2, EndRunMoves, RunKeeps
  <1>3. CASE StepTo(w, "refused") /\ UNCHANGED requests
    BY <1>1, <1>3, StepMoves, RunKeeps DEF Place, Unspent
  <1>4. CASE /\ Holds(w)
             /\ StepTo(w, "fetching")
             /\ requests' = [requests EXCEPT ![loop[w].job] = @ + 1]
    <2> DEFINE t == loop[w].job
    <2>1. /\ t \in Job /\ requests[t] \in Nat /\ requests[t] + 1 <= tasks[t].tries
          /\ tasks[t].tries \in 0..TryLimit
      BY <1>1, <1>4, JobInHand DEF Unspent
    <2>2. LoopTypes /\ RequestsPaid
      BY DEF LoopInductive
    <2>3. \A u \in Job : requests'[u] = IF u = t THEN requests[u] + 1 ELSE requests[u]
      BY <1>4, <2>2 DEF LoopTypes
    <2>4. /\ loop' \in [Crew -> LoopRow] /\ ~Unspent(loop'[w])
          /\ \A v \in Crew \ {w} : loop'[v] = loop[v]
          /\ loop'[w].job = t
      BY <1>4, <2>2 DEF LoopTypes, StepTo, LoopRow, Place, Unspent
    <2>5. LoopTypes'
      BY <1>1, <1>4, <2>1, <2>2, <2>4 DEF LoopTypes
    <2>6. \A v \in Crew : Unspent(loop'[v]) => v # w /\ loop'[v] = loop[v]
      BY <2>4
    <2>7. tasks[t].state = "running" /\ tasks[t].by = w
      BY <1>4 DEF Holds
    <2> HIDE DEF t
    <2>8. RequestsPaid'
      <3>1. \A u \in Job : /\ requests'[u] <= tasks'[u].tries
                           /\ tasks'[u].state = "none" => requests'[u] = 0
        BY <1>1, <2>1, <2>2, <2>3, <2>7 DEF RequestsPaid
      <3>2. ASSUME NEW v \in Crew, NEW u \in Job, Unspent(loop'[v]), loop'[v].job = u,
                   tasks'[u].state = "running", tasks'[u].by = v
            PROVE  requests'[u] + 1 <= tasks'[u].tries
        <4>1. v # w /\ loop'[v] = loop[v]
          BY <2>6, <3>2
        <4>2. u # t
          BY <1>1, <2>7, <3>2, <4>1
        <4>3. QED
          BY <1>1, <2>2, <2>3, <3>2, <4>1, <4>2 DEF RequestsPaid
      <3>3. QED
        BY <3>1, <3>2 DEF RequestsPaid
    <2>9. QED
      BY <2>5, <2>8 DEF LoopInductive
  <1>5. QED
    BY <1>2, <1>3, <1>4 DEF Reserve

LEMMA FetchKeeps ==
    ASSUME LoopInductive, NEW w \in Crew, FetchEnds(w) \/ RecordFailure(w)
    PROVE  LoopInductive'
  <1>1. loop[w].at \in {"fetching", "denied"} /\ tasks' = tasks /\ requests' = requests
    BY DEF FetchEnds, RecordFailure
  <1>2. CASE EndRun(w)
    BY <1>1, <1>2, EndRunMoves, RunKeeps
  <1>3. CASE \E at \in {"page", "denied", "cooldown", "failing"} : StepTo(w, at)
    <2>1. PICK at \in {"page", "denied", "cooldown", "failing"} : StepTo(w, at)
      BY <1>3
    <2>2. RunMoves(w, [loop[w] EXCEPT !.at = at])
      BY <1>1, <2>1, StepMoves DEF Place
    <2>3. QED
      BY <1>1, <2>2, RunKeeps
  <1>4. QED
    BY <1>2, <1>3 DEF FetchEnds, RecordFailure

LEMMA ParsePageKeeps ==
    ASSUME LoopInductive, NEW w \in Crew, ParsePage(w)
    PROVE  LoopInductive'
  <1>1. loop[w].at = "page" /\ requests' = requests
    BY DEF ParsePage
  <1>2. CASE EndRun(w) /\ UNCHANGED tasks
    BY <1>1, <1>2, EndRunMoves, RunKeeps
  <1>3. CASE LastCall(w, {Ended(loop[w].job, "failed")})
    BY <1>1, <1>3, JobInHand, EndedRows, LastCallKeeps
  <1>4. CASE /\ loop' = [loop EXCEPT ![w].at = "complete", ![w].sends = 3]
             /\ UNCHANGED tasks
    <2> DEFINE r1 == [loop[w] EXCEPT !.at = "complete"]
               r2 == [r1 EXCEPT !.sends = 3]
    <2>1. loop \in [Crew -> LoopRow] /\ loop[w] \in LoopRow
      BY DEF LoopInductive, LoopTypes
    <2>2. loop' = [loop EXCEPT ![w] = r2]
      BY <1>4, <2>1
    <2>3. r1 \in LoopRow /\ r1.at = "complete" /\ r1.job = loop[w].job
      BY <2>1 DEF LoopRow, Place
    <2> HIDE DEF r1
    <2>4. r2 \in LoopRow /\ r2.at = "complete" /\ r2.job = loop[w].job
      BY <2>3 DEF LoopRow
    <2> HIDE DEF r2
    <2>5. RunMoves(w, r2)
      BY <1>1, <2>2, <2>4 DEF RunMoves, Unspent
    <2>6. QED
      BY <1>4, <2>5, RunKeeps
  <1>5. QED
    BY <1>2, <1>3, <1>4 DEF ParsePage

LEMMA SendCompleteKeeps ==
    ASSUME LoopInductive, NEW w \in Crew, SendComplete(w)
    PROVE  LoopInductive'
  <1> DEFINE t == loop[w].job
             again == IF loop[w].sends = 1 THEN AtRest
                                           ELSE [loop[w] EXCEPT !.sends = @ - 1]
  <1>1. loop[w].at = "complete" /\ requests' = requests
    BY DEF SendComplete
  <1>2. tasks' = tasks \/ AttemptEnds(w, Ended(t, "succeeded"))
    <2>1. CASE Put(t, Ended(t, "succeeded"))
      BY <1>1, <2>1, JobInHand, EndedRows DEF Put, AttemptEnds
    <2>2. QED
      BY <2>1 DEF SendComplete
  <1>3. RunMoves(w, AtRest) \/ RunMoves(w, again)
    <2>1. CASE loop' = [loop EXCEPT ![w] = AtRest]
      BY <1>1, <2>1, EndRunMoves DEF EndRun
    <2>2. CASE loop' = [loop EXCEPT ![w] = again]
      <3>1. CASE loop[w].sends = 1
        BY <2>1, <2>2, <3>1
      <3>2. CASE loop[w].sends # 1
        <4>1. loop[w] \in LoopRow
          BY DEF LoopInductive, LoopTypes
        <4>2. again \in LoopRow /\ again.at = loop[w].at /\ again.job = loop[w].job
          BY <3>2, <4>1 DEF LoopRow
        <4> HIDE DEF again
        <4>3. QED
          BY <1>1, <2>2, <4>2 DEF RunMoves, Unspent
      <3>3. QED
        BY <3>1, <3>2
    <2>3. QED
      BY <2>1, <2>2 DEF SendComplete, EndRun
  <1> HIDE DEF again
  <1>4. QED
    BY <1>1, <1>2, <1>3, RunKeeps

LEMMA ReplayKeeps ==
    ASSUME LoopInductive, NEW w \in Crew, Replay(w)
    PROVE  LoopInductive'
  <1>1. loop[w].at = "replay"
    BY DEF Replay
  <1>2. CASE EndRun(w) /\ UNCHANGED <<tasks, requests>>
    BY <1>2, EndRunMoves, RunKeeps
  <1>3. CASE LastCall(w, {Ended(loop[w].job, s) : s \in {"succeeded", "failed"}})
    BY <1>1, <1>3, JobInHand, EndedRows, LastCallKeeps
  <1>4. QED
    BY <1>2, <1>3 DEF Replay

LEMMA WorkerDiesKeeps ==
    ASSUME LoopInductive, NEW w \in Crew, WorkerDies(w)
    PROVE  LoopInductive'
  BY EndRunMoves, RunKeeps DEF WorkerDies

(* A renewal changes the length of a lease, or is the last of its run.     *)
LEMMA RenewKeeps ==
    ASSUME LoopInductive, NEW w \in Crew, RenewLease(w)
    PROVE  LoopInductive'
  <1>1. loop[w].at # "idle" /\ requests' = requests
    BY DEF RenewLease
  <1>2. LoopTypes /\ RequestsPaid
    BY DEF LoopInductive
  <1>3. CASE loop' = [loop EXCEPT ![w].lost = TRUE] /\ UNCHANGED tasks
    <2>1. RunMoves(w, [loop[w] EXCEPT !.lost = TRUE])
      BY <1>1, <1>2, <1>3 DEF LoopTypes, RunMoves, LoopRow, Place, Unspent
    <2>2. QED
      BY <1>3, <2>1, RunKeeps
  <1>4. CASE /\ UNCHANGED loop
             /\ Put(loop[w].job, [tasks[loop[w].job] EXCEPT
                                     !.left = Lesser(LeaseLen, tasks[loop[w].job].life)])
    <2> DEFINE t == loop[w].job
               row == [tasks[t] EXCEPT !.left = Lesser(LeaseLen, tasks[t].life)]
    <2>1. t \in Job /\ tasks[t] \in TaskRow
      BY <1>1, <1>2 DEF LoopTypes
    <2>2. Lesser(LeaseLen, tasks[t].life) \in Nat
      BY <2>1, LoopConstants DEF Lesser, TaskRow
    <2>3. /\ row \in TaskRow /\ row.tries = tasks[t].tries
          /\ row.state = tasks[t].state /\ row.by = tasks[t].by
      BY <2>1, <2>2 DEF TaskRow
    <2>4. tasks' = [tasks EXCEPT ![t] = row]
      BY <1>4 DEF Put
    <2> HIDE DEF row, t
    <2>5. /\ tasks' \in [Job -> TaskRow]
          /\ \A u \in Job : /\ tasks'[u].tries = tasks[u].tries
                            /\ tasks'[u].state = tasks[u].state
                            /\ tasks'[u].by = tasks[u].by
      BY <1>2, <2>1, <2>3, <2>4 DEF LoopTypes
    <2>6. QED
      BY <1>1, <1>2, <1>4, <2>5 DEF LoopInductive, LoopTypes, RequestsPaid
  <1>5. QED
    BY <1>3, <1>4 DEF RenewLease

LEMMA QueueTaskKeeps ==
    ASSUME LoopInductive, NEW t \in Job, QueueTask(t)
    PROVE  LoopInductive'
  <1>1. LoopTypes /\ RequestsPaid
    BY DEF LoopInductive
  <1>2. Waiting \in TaskRow /\ Waiting.tries = 0 /\ Waiting.state = "waiting"
    BY LoopConstants DEF Waiting, TaskRow
  <1>3. tasks' = [tasks EXCEPT ![t] = Waiting] /\ UNCHANGED <<loop, requests>>
    BY DEF QueueTask, Put
  <1>4. requests[t] = 0
    BY <1>1 DEF QueueTask, RequestsPaid
  <1>5. QED
    BY <1>1, <1>2, <1>3, <1>4 DEF LoopInductive, LoopTypes, RequestsPaid

(* reap_expired keeps the attempts of the tasks whose leases lapsed.       *)
LEMMA ReapedRows ==
    ASSUME LoopInductive
    PROVE  /\ Reaped \in [Job -> TaskRow]
           /\ \A t \in Job :
                 /\ Reaped[t].tries = tasks[t].tries
                 /\ Reaped[t].state = "none" => tasks[t].state = "none"
                 /\ Reaped[t].state = "running" =>
                       tasks[t].state = "running" /\ Reaped[t].by = tasks[t].by
  <1>1. \A t \in Job : tasks[t] \in TaskRow
    BY DEF LoopInductive, LoopTypes
  <1>2. ASSUME NEW t \in Job
        PROVE  /\ Reaped[t] \in TaskRow
               /\ Reaped[t].tries = tasks[t].tries
               /\ Reaped[t].state = "none" => tasks[t].state = "none"
               /\ Reaped[t].state = "running" =>
                     tasks[t].state = "running" /\ Reaped[t].by = tasks[t].by
    <2>1. CASE ~Lapsed(t)
      BY <1>1, <2>1 DEF Reaped
    <2>2. CASE Lapsed(t)
      <3>1. PICK s \in {"failed", "waiting"} : Reaped[t] = Ended(t, s)
        BY <2>2 DEF Reaped
      <3>2. Ended(t, s) \in TaskRow /\ Ended(t, s).state = s
              /\ Ended(t, s).tries = tasks[t].tries
        BY EndedRow
      <3>3. QED
        BY <3>1, <3>2
    <2>3. QED
      BY <2>1, <2>2
  <1>3. Reaped \in [Job -> TaskRow]
    BY <1>2 DEF Reaped
  <1>4. QED
    BY <1>2, <1>3

LEMMA ReapKeeps ==
    ASSUME LoopInductive, tasks' = Reaped, UNCHANGED <<loop, requests>>
    PROVE  LoopInductive'
  <1>1. LoopTypes /\ RequestsPaid
    BY DEF LoopInductive
  <1>2. LoopTypes'
    BY <1>1, ReapedRows DEF LoopTypes
  <1>3. RequestsPaid'
    <2>1. \A t \in Job :
             /\ tasks'[t].tries = tasks[t].tries
             /\ tasks'[t].state = "none" => tasks[t].state = "none"
             /\ tasks'[t].state = "running" =>
                   tasks[t].state = "running" /\ tasks'[t].by = tasks[t].by
      BY ReapedRows
    <2>2. QED
      BY <1>1, <2>1 DEF RequestsPaid
  <1>4. QED
    BY <1>2, <1>3 DEF LoopInductive

(* A claim counts the attempt before any request is made under it.         *)
LEMMA ClaimKeeps ==
    ASSUME LoopInductive, NEW w \in Crew, NEW t \in Job, Claim(w, t)
    PROVE  LoopInductive'
  <1>1. CASE tasks' = Reaped /\ UNCHANGED <<loop, requests>>
    BY <1>1, ReapKeeps
  <1>2. CASE Needs[t] \in Packs[w]
    <2> DEFINE r0 == Reaped[t]
               r1 == [r0 EXCEPT !.state = "running"]
               r2 == [r1 EXCEPT !.by = w]
               r3 == [r2 EXCEPT !.tries = @ + 1]
               r4 == [r3 EXCEPT !.left = LeaseLen]
               r5 == [r4 EXCEPT !.life = LeaseCap]
               run == [at |-> IF t \in Replays THEN "replay" ELSE "reserve",
                       job |-> t, lost |-> FALSE, sends |-> 0]
    <2>1. /\ loop[w].at = "idle" /\ r0.tries < TryLimit /\ r0.state = "waiting"
          /\ requests' = requests
      BY DEF Claim, Claimable
    <2>2. r0 \in TaskRow /\ r0.tries = tasks[t].tries
      BY ReapedRows
    <2>3. tasks' = [Reaped EXCEPT ![t] = r5]
      <3>1. tasks' = [Reaped EXCEPT ![t].state = "running", ![t].by = w,
                                    ![t].tries = @ + 1, ![t].left = LeaseLen,
                                    ![t].life = LeaseCap]
        BY <1>2 DEF Claim
      <3>2. Reaped \in [Job -> TaskRow]
        BY ReapedRows
      <3>3. QED
        BY <3>1, <3>2
    <2> HIDE DEF r0
    <2>4. r1 \in TaskRow /\ r1.state = "running" /\ r1.tries = r0.tries
      BY <2>2 DEF TaskRow
    <2> HIDE DEF r1
    <2>5. r2 \in TaskRow /\ r2.state = "running" /\ r2.tries = r0.tries /\ r2.by = w
      BY <2>4 DEF TaskRow
    <2> HIDE DEF r2
    <2>6. r3 \in TaskRow /\ r3.state = "running" /\ r3.tries = r0.tries + 1 /\ r3.by = w
      <3>1. r0.tries + 1 \in 0..TryLimit
        BY <2>1, <2>2, LoopConstants DEF TaskRow
      <3>2. QED
        BY <2>5, <3>1 DEF TaskRow
    <2> HIDE DEF r3
    <2>7. r4 \in TaskRow /\ r4.state = "running" /\ r4.tries = r0.tries + 1 /\ r4.by = w
      BY <2>6, LoopConstants DEF TaskRow
    <2> HIDE DEF r4
    <2>8. r5 \in TaskRow /\ r5.state = "running" /\ r5.tries = r0.tries + 1 /\ r5.by = w
      BY <2>7, LoopConstants DEF TaskRow
    <2> HIDE DEF r5
    <2>9. loop' = [loop EXCEPT ![w] = run] \/ loop' = loop
      BY <1>2 DEF Claim
    <2>10. run \in LoopRow /\ run.job = t
      BY DEF LoopRow, Place
    <2> HIDE DEF run
    <2>11. LoopTypes /\ RequestsPaid
      BY DEF LoopInductive
    <2>12. LoopTypes'
      BY <2>1, <2>3, <2>8, <2>9, <2>10, <2>11, ReapedRows DEF LoopTypes
    <2>13. \A u \in Job : tasks'[u] = IF u = t THEN r5 ELSE Reaped[u]
      BY <2>3, ReapedRows
    <2>14. \A v \in Crew : loop'[v] = loop[v] \/ (v = w /\ loop'[v].job = t)
      BY <2>9, <2>10, <2>11 DEF LoopTypes
    <2>15. requests[t] \in Nat /\ requests[t] <= r0.tries /\ r0.tries \in 0..TryLimit
      BY <2>2, <2>11 DEF RequestsPaid, LoopTypes, TaskRow
    <2>16. ASSUME NEW u \in Job
           PROVE  /\ requests'[u] <= tasks'[u].tries
                  /\ tasks'[u].state = "none" => requests'[u] = 0
      <3>1. CASE u = t
        BY <2>1, <2>8, <2>13, <2>15, <3>1
      <3>2. CASE u # t
        BY <2>1, <2>11, <2>13, <3>2, ReapedRows DEF RequestsPaid
      <3>3. QED
        BY <3>1, <3>2
    <2>17. ASSUME NEW v \in Crew, NEW u \in Job, Unspent(loop'[v]), loop'[v].job = u,
                  tasks'[u].state = "running", tasks'[u].by = v
           PROVE  requests'[u] + 1 <= tasks'[u].tries
      <3>1. CASE u = t
        BY <2>1, <2>8, <2>13, <2>15, <3>1
      <3>2. CASE u # t
        <4>1. loop'[v] = loop[v]
          BY <2>14, <2>17, <3>2
        <4>2. /\ tasks[u].state = "running" /\ tasks[u].by = v
              /\ tasks'[u].tries = tasks[u].tries
          BY <2>13, <2>17, <3>2, ReapedRows
        <4>3. QED
          BY <2>1, <2>11, <2>17, <4>1, <4>2 DEF RequestsPaid
      <3>3. QED
        BY <3>1, <3>2
    <2>18. RequestsPaid'
      BY <2>16, <2>17 DEF RequestsPaid
    <2>19. QED
      BY <2>12, <2>18 DEF LoopInductive
  <1>3. QED
    BY <1>1, <1>2 DEF Claim

LEMMA TimeKeeps ==
    ASSUME LoopInductive, TimePasses
    PROVE  LoopInductive'
  <1>1. LoopTypes /\ RequestsPaid
    BY DEF LoopInductive
  <1>2. ASSUME NEW t \in Job
        PROVE  /\ tasks'[t] \in TaskRow /\ tasks'[t].tries = tasks[t].tries
               /\ tasks'[t].state = tasks[t].state /\ tasks'[t].by = tasks[t].by
    <2> DEFINE r1 == [tasks[t] EXCEPT !.left = Less(@)]
               r2 == [r1 EXCEPT !.life = Less(@)]
               r3 == [r2 EXCEPT !.wait = Less(@)]
    <2>1. tasks'[t] = r3
      BY DEF TimePasses
    <2>2. tasks[t] \in TaskRow
      BY <1>1 DEF LoopTypes
    <2>3. /\ r1 \in TaskRow /\ r1.tries = tasks[t].tries
          /\ r1.state = tasks[t].state /\ r1.by = tasks[t].by
      BY <2>2 DEF TaskRow, Less
    <2> HIDE DEF r1
    <2>4. /\ r2 \in TaskRow /\ r2.tries = tasks[t].tries
          /\ r2.state = tasks[t].state /\ r2.by = tasks[t].by
      BY <2>3 DEF TaskRow, Less
    <2> HIDE DEF r2
    <2>5. /\ r3 \in TaskRow /\ r3.tries = tasks[t].tries
          /\ r3.state = tasks[t].state /\ r3.by = tasks[t].by
      BY <2>4 DEF TaskRow, Less
    <2> HIDE DEF r3
    <2>6. QED
      BY <2>1, <2>5
  <1>3. tasks' \in [Job -> TaskRow]
    BY <1>2 DEF TimePasses
  <1>4. UNCHANGED <<loop, requests>>
    BY DEF TimePasses
  <1>5. QED
    BY <1>1, <1>2, <1>3, <1>4 DEF LoopInductive, LoopTypes, RequestsPaid

LEMMA LoopStepInductive == LoopInductive /\ [LoopNext]_loopVars => LoopInductive'
  <1> SUFFICES ASSUME LoopInductive, [LoopNext]_loopVars PROVE LoopInductive'
    OBVIOUS
  <1>1. CASE UNCHANGED loopVars
    BY <1>1 DEF loopVars, LoopInductive, LoopTypes, RequestsPaid
  <1>2. ASSUME NEW w \in Crew, ClaimWork(w) PROVE LoopInductive'
    BY <1>2, ClaimKeeps, ReapKeeps DEF ClaimWork, ClaimNone
  <1>3. ASSUME NEW w \in Crew, RunWork(w) PROVE LoopInductive'
    BY <1>3, ReserveKeeps, DeferRefusedKeeps, FetchKeeps, CooledDownKeeps,
       ParsePageKeeps, SendCompleteKeeps, ReplayKeeps DEF RunWork
  <1>4. QED
    BY <1>1, <1>2, <1>3, TimeKeeps, QueueTaskKeeps, RenewKeeps, WorkerDiesKeeps
    DEF LoopNext

(* The portal sees at most max_attempts requests for a page, for any       *)
(* number of workers and tasks, however leases are lost, workers die and   *)
(* refused starts give attempts back (ScrapeWorker.run_once).              *)
THEOREM RequestsBoundedAlways == LoopSpec => []RequestsBounded
  <1>1. LoopInductive => RequestsBounded
    <2> SUFFICES ASSUME LoopInductive, NEW t \in Job PROVE requests[t] <= TryLimit
      BY DEF RequestsBounded
    <2>1. /\ requests[t] \in Nat /\ tasks[t].tries \in 0..TryLimit
          /\ requests[t] <= tasks[t].tries
      BY DEF LoopInductive, LoopTypes, RequestsPaid, TaskRow
    <2>2. QED
      BY <2>1, LoopConstants
  <1>2. QED
    BY <1>1, LoopInitInductive, LoopStepInductive, PTL DEF LoopSpec

-----------------------------------------------------------------------------
(* The retention run.                                                      *)

BoundaryRow == [armed : BOOLEAN, streak : Nat]

CapturesTyped ==
    /\ age \in [Capture -> Nat]
    /\ fetched \in SUBSET Capture /\ IsFiniteSet(fetched)
    /\ results \in [Capture -> SUBSET (0..MaxReplays)]
    /\ lastSeen \in [RetentionListing -> Nat]

(* Only fetched pages have an age and results, and a tombstone names one.  *)
OnlyFetched ==
    /\ \A c \in Capture : c \notin fetched => age[c] = 0 /\ results[c] = {}
    /\ \A l \in RetentionListing :
          lastSeen[l] # 0 => lastSeen[l] \in fetched /\ ListingOf[lastSeen[l]] = l

(* Pages are fetched in order, grow old in order and lose the last of      *)
(* their results in order: no run empties a capture before an older one.   *)
InOrder ==
    \A d \in fetched : \A c \in Capture :
        c < d => /\ c \in fetched
                 /\ age[c] >= age[d]
                 /\ results[d] = {} => results[c] = {}

(* A boundary is armed only by a full streak, and no streak is longer than *)
(* the calm measurements since its last alert.                             *)
StreaksCalm ==
    /\ calm \in [Boundaries -> 0..RearmAfter]
    /\ DOMAIN sizeAlerts \in SUBSET Boundaries
    /\ sizeAlerts \in [DOMAIN sizeAlerts -> BoundaryRow]
    /\ \A b \in Boundaries \ DOMAIN sizeAlerts : calm[b] = RearmAfter
    /\ \A b \in DOMAIN sizeAlerts :
          /\ sizeAlerts[b].armed => calm[b] = RearmAfter
          /\ sizeAlerts[b].streak <= calm[b]

CapturesRight == CapturesTyped /\ OnlyFetched /\ InOrder /\ TombstoneTellsLast
RetentionInductive == CapturesRight /\ StreaksCalm

LEMMA RetentionConstants ==
    /\ Capture \subseteq Nat
    /\ TwoYears \in Nat /\ BatchSize \in Nat /\ RearmAfter \in Nat /\ MaxReplays \in Nat
    /\ \A size \in DatabaseSize : size \in Nat
    /\ Boundaries \subseteq Nat
  BY RetentionAssumption DEF Boundaries

LEMMA MaxIs ==
    ASSUME NEW S \in SUBSET Nat, NEW m \in S, \A x \in S : x <= m
    PROVE  Max(S) = m
  <1>1. \A x \in S : m >= x
    OBVIOUS
  <1>2. Max(S) \in S /\ \A x \in S : Max(S) >= x
    BY <1>1 DEF Max
  <1>3. \A k \in S : (\A x \in S : k >= x) => k = m
    OBVIOUS
  <1>4. QED
    BY <1>2, <1>3

(* The member of a finite set with the fewest members above it has none.   *)
LEMMA FiniteHasGreatest ==
    ASSUME NEW S \in SUBSET Nat, IsFiniteSet(S), S # {}
    PROVE  \E m \in S : \A x \in S : x <= m
  <1> DEFINE Above(x) == {y \in S : y > x}
             Sizes == {Cardinality(Above(x)) : x \in S}
  <1>1. \A x \in S : IsFiniteSet(Above(x)) /\ Cardinality(Above(x)) \in Nat
    BY FS_Subset, FS_CardinalityType
  <1>2. Sizes \in SUBSET Nat /\ Sizes # {}
    BY <1>1
  <1>3. PICK n \in Sizes : \A k \in Sizes : n <= k
    <2> HIDE DEF Sizes
    <2>1. \E n \in Sizes : \A k \in Sizes : <<k, n>> \notin OpToRel(<, Nat)
      BY <1>2, WFMin, NatLessThanWellFounded, Zenon
    <2>2. PICK n \in Sizes : \A k \in Sizes : <<k, n>> \notin OpToRel(<, Nat)
      BY <2>1
    <2>3. \A k \in Sizes : ~(k < n)
      BY <1>2, <2>2, Zenon DEF OpToRel
    <2>4. \A k \in Sizes : n <= k
      BY <1>2, <2>3
    <2>5. QED
      BY <2>4
  <1>4. PICK m \in S : n = Cardinality(Above(m))
    BY <1>3
  <1>5. ASSUME NEW x \in S, x > m
        PROVE  FALSE
    <2>1. Above(x) \in SUBSET Above(m) /\ x \in Above(m) /\ x \notin Above(x)
      <3>1. \A y \in S : y > x => y > m
        BY <1>5
      <3>2. x \in Nat /\ ~(x > x)
        OBVIOUS
      <3>3. Above(x) \in SUBSET Above(m)
        BY <3>1
      <3>4. QED
        BY <1>5, <3>2, <3>3
    <2>2. Cardinality(Above(m)) <= Cardinality(Above(x))
      BY <1>3, <1>4
    <2> HIDE DEF Above
    <2>3. Cardinality(Above(x)) = Cardinality(Above(m))
      BY <1>1, <2>1, <2>2, FS_Subset
    <2>4. Above(x) = Above(m)
      BY <1>1, <2>1, <2>3, FS_Subset
    <2>5. QED
      BY <2>1, <2>4
  <1>6. QED
    BY <1>5

LEMMA MinOfTwo ==
    ASSUME NEW a \in Nat, NEW b \in Nat
    PROVE  Min({a, b}) = IF a <= b THEN a ELSE b
  <1>1. CASE a <= b
    BY <1>1 DEF Min
  <1>2. CASE ~(a <= b)
    BY <1>2 DEF Min
  <1>3. QED
    BY <1>1, <1>2

LEMMA RetentionInitInductive == RetentionInit => RetentionInductive
  <1> SUFFICES ASSUME RetentionInit PROVE RetentionInductive
    OBVIOUS
  <1>1. CapturesTyped /\ OnlyFetched /\ InOrder
    BY FS_EmptySet DEF RetentionInit, CapturesTyped, OnlyFetched, InOrder
  <1>2. TombstoneTellsLast
    BY DEF RetentionInit, TombstoneTellsLast
  <1>3. StreaksCalm
    BY RetentionConstants DEF RetentionInit, StreaksCalm
  <1>4. QED
    BY <1>1, <1>2, <1>3 DEF RetentionInductive, CapturesRight

(* Steps that change nothing of the captures, and nothing of the alerts.   *)
LEMMA CapturesUntouched ==
    ASSUME CapturesRight, UNCHANGED <<age, fetched, results, lastSeen>>
    PROVE  CapturesRight'
  BY DEF CapturesRight, CapturesTyped, OnlyFetched, InOrder, TombstoneTellsLast,
         RetentionListing

LEMMA StreaksUntouched ==
    ASSUME StreaksCalm, UNCHANGED <<sizeAlerts, calm>>
    PROVE  StreaksCalm'
  BY DEF StreaksCalm

LEMMA FetchPageKeeps ==
    ASSUME CapturesRight, NEW c \in Capture, FetchPage(c)
    PROVE  CapturesRight'
  <1>1. /\ CapturesTyped /\ OnlyFetched /\ InOrder /\ TombstoneTellsLast
        /\ c \notin fetched /\ fetched' = fetched \cup {c}
        /\ \A d \in Capture : d < c => d \in fetched
        /\ results' = [results EXCEPT ![c] = {0}]
        /\ UNCHANGED <<age, lastSeen>>
    BY DEF CapturesRight, FetchPage
  <1>2. /\ results' \in [Capture -> SUBSET (0..MaxReplays)]
        /\ results'[c] = {0} /\ \A d \in Capture \ {c} : results'[d] = results[d]
    BY <1>1, RetentionConstants DEF CapturesTyped
  <1>3. CapturesTyped'
    BY <1>1, <1>2, FS_AddElement DEF CapturesTyped, RetentionListing
  <1>4. OnlyFetched'
    BY <1>1, <1>2 DEF OnlyFetched, RetentionListing
  <1>5. InOrder'
    <2> SUFFICES ASSUME NEW d \in fetched', NEW b \in Capture, b < d
                 PROVE  b \in fetched' /\ age'[b] >= age'[d]
                        /\ (results'[d] = {} => results'[b] = {})
      BY DEF InOrder
    <2>1. CASE d = c
      BY <1>1, <1>2, <2>1 DEF OnlyFetched, CapturesTyped
    <2>2. CASE d # c
      <3>1. d \in fetched /\ d \in Capture
        BY <1>1, <2>2 DEF CapturesTyped
      <3>2. b \in fetched /\ b # c
        BY <1>1, <3>1 DEF InOrder
      <3>3. QED
        BY <1>1, <1>2, <2>2, <3>1, <3>2 DEF InOrder
    <2>3. QED
      BY <2>1, <2>2
  <1>6. TombstoneTellsLast'
    <2> SUFFICES ASSUME NEW l \in RetentionListing,
                        {d \in fetched' : ListingOf[d] = l} # {},
                        \A b \in {d \in fetched' : ListingOf[d] = l} : results'[b] = {}
                 PROVE  lastSeen'[l] = Max({d \in fetched' : ListingOf[d] = l})
      BY <1>1 DEF TombstoneTellsLast, RetentionListing
    <2>1. ListingOf[c] # l
      BY <1>1, <1>2
    <2>2. {d \in fetched' : ListingOf[d] = l} = {d \in fetched : ListingOf[d] = l}
      BY <1>1, <2>1
    <2>3. \A b \in {d \in fetched : ListingOf[d] = l} : results[b] = {}
      BY <1>1, <1>2, <2>1, <2>2 DEF CapturesTyped
    <2>4. QED
      BY <1>1, <2>2, <2>3 DEF TombstoneTellsLast
  <1>7. QED
    BY <1>3, <1>4, <1>5, <1>6 DEF CapturesRight

LEMMA ReplayPageKeeps ==
    ASSUME CapturesRight, NEW c \in Capture, ReplayPage(c)
    PROVE  CapturesRight'
  <1>1. /\ CapturesTyped /\ OnlyFetched /\ InOrder /\ TombstoneTellsLast
        /\ results[c] # {} /\ Max(results[c]) < MaxReplays
        /\ results' = [results EXCEPT ![c] = results[c] \cup {Max(results[c]) + 1}]
        /\ UNCHANGED <<age, fetched, lastSeen>>
    BY DEF CapturesRight, ReplayPage
  <1>2. Max(results[c]) \in Nat
    <2>1. results[c] \in SUBSET (0..MaxReplays) /\ MaxReplays \in Int /\ 0 \in Int
      BY <1>1, RetentionConstants DEF CapturesTyped
    <2>4. IsFiniteSet(results[c])
      BY <2>1, FS_Interval, FS_Subset
    <2>5. results[c] \in SUBSET Nat
      BY <2>1
    <2>2. PICK m \in results[c] : \A x \in results[c] : x <= m
      BY <1>1, <2>4, <2>5, FiniteHasGreatest
    <2>3. QED
      BY <2>2, <2>5, MaxIs
  <1>3. /\ results' \in [Capture -> SUBSET (0..MaxReplays)]
        /\ \A d \in Capture : results'[d] = {} <=> results[d] = {}
    BY <1>1, <1>2, RetentionConstants DEF CapturesTyped
  <1>4. CapturesTyped'
    BY <1>1, <1>3 DEF CapturesTyped, RetentionListing
  <1>5. OnlyFetched' /\ InOrder'
    BY <1>1, <1>3 DEF CapturesTyped, OnlyFetched, InOrder, RetentionListing
  <1>6. TombstoneTellsLast'
    BY <1>1, <1>3 DEF CapturesTyped, TombstoneTellsLast, RetentionListing
  <1>7. QED
    BY <1>4, <1>5, <1>6 DEF CapturesRight

LEMMA DayKeeps ==
    ASSUME CapturesRight, DayPasses
    PROVE  CapturesRight'
  <1>1. /\ CapturesTyped /\ OnlyFetched /\ InOrder /\ TombstoneTellsLast
        /\ age' = [c \in Capture |-> IF c \in fetched THEN Min({age[c] + 1, TwoYears + 1})
                                                      ELSE 0]
        /\ UNCHANGED <<fetched, results, lastSeen>>
    BY DEF CapturesRight, DayPasses
  <1>2. \A c \in fetched :
            /\ c \in Capture /\ age[c] \in Nat
            /\ age'[c] = IF age[c] <= TwoYears THEN age[c] + 1 ELSE TwoYears + 1
    <2> SUFFICES ASSUME NEW c \in fetched
                 PROVE  /\ c \in Capture /\ age[c] \in Nat
                        /\ age'[c] = IF age[c] <= TwoYears THEN age[c] + 1 ELSE TwoYears + 1
      OBVIOUS
    <2>1. c \in Capture /\ age[c] \in Nat /\ age[c] + 1 \in Nat /\ TwoYears + 1 \in Nat
      BY <1>1, RetentionConstants DEF CapturesTyped
    <2>2. age'[c] = Min({age[c] + 1, TwoYears + 1})
      BY <1>1, <2>1
    <2>3. QED
      BY <2>1, <2>2, MinOfTwo, RetentionConstants
  <1>3. \A c \in Capture : c \notin fetched => age'[c] = 0
    BY <1>1
  <1>4. CapturesTyped'
    <2>1. \A c \in Capture : age'[c] \in Nat
      BY <1>2, <1>3, RetentionConstants
    <2>2. age' \in [Capture -> Nat]
      BY <1>1, <2>1
    <2>3. QED
      BY <1>1, <2>2 DEF CapturesTyped, RetentionListing
  <1>5. OnlyFetched'
    BY <1>1, <1>3 DEF OnlyFetched, RetentionListing
  <1>6. InOrder'
    <2> SUFFICES ASSUME NEW d \in fetched, NEW b \in Capture, b < d
                 PROVE  b \in fetched /\ age'[b] >= age'[d]
                        /\ (results[d] = {} => results[b] = {})
      BY <1>1 DEF InOrder
    <2>1. b \in fetched /\ age[b] >= age[d] /\ (results[d] = {} => results[b] = {})
      BY <1>1 DEF InOrder
    <2>2. QED
      BY <1>2, <2>1, RetentionConstants
  <1>7. TombstoneTellsLast'
    BY <1>1 DEF TombstoneTellsLast, RetentionListing
  <1>8. QED
    BY <1>4, <1>5, <1>6, <1>7 DEF CapturesRight

(* The results the run selects from.                                       *)
OldRows == {r \in ResultRows : Outdated(r)}

LEMMA OldRowsFacts ==
    ASSUME CapturesRight
    PROVE  /\ IsFiniteSet(OldRows)
           /\ \A r \in OldRows : /\ r[1] \in fetched /\ r[1] \in Capture /\ r[1] \in Nat
                                 /\ r[2] \in results[r[1]] /\ r[2] \in Nat
                                 /\ r = <<r[1], r[2]>> /\ age[r[1]] > TwoYears
           /\ \A c \in Capture : \A n \in results[c] :
                  age[c] > TwoYears => <<c, n>> \in OldRows
           /\ Purged = {r \in OldRows :
                           Cardinality({s \in OldRows : OlderRow(s, r)}) < BatchSize}
  <1>1. CapturesTyped /\ OnlyFetched
    BY DEF CapturesRight
  <1>2. \A r \in OldRows :
            /\ r[1] \in fetched /\ r[1] \in Capture /\ r[1] \in Nat
            /\ r[2] \in results[r[1]] /\ r[2] \in Nat
            /\ r = <<r[1], r[2]>> /\ age[r[1]] > TwoYears
    <2>1. \A r \in OldRows : /\ r \in Capture \X (0..MaxReplays)
                             /\ r[2] \in results[r[1]] /\ age[r[1]] > TwoYears
      BY DEF OldRows, ResultRows, Outdated
    <2>2. \A r \in OldRows : /\ r = <<r[1], r[2]>> /\ r[1] \in Capture
                             /\ r[2] \in 0..MaxReplays
      BY <2>1
    <2>3. \A r \in OldRows : r[1] \in fetched
      BY <1>1, <2>1, <2>2 DEF OnlyFetched
    <2>4. QED
      BY <2>1, <2>2, <2>3, RetentionConstants
  <1>3. IsFiniteSet(OldRows)
    <2>1. IsFiniteSet(fetched) /\ IsFiniteSet(0..MaxReplays)
      BY <1>1, RetentionConstants, FS_Interval DEF CapturesTyped
    <2>2. IsFiniteSet(fetched \X (0..MaxReplays))
      BY <2>1, FS_Product
    <2>3. OldRows \in SUBSET (fetched \X (0..MaxReplays))
      BY <1>2 DEF OldRows, ResultRows
    <2>4. QED
      BY <2>2, <2>3, FS_Subset
  <1>4. \A c \in Capture : \A n \in results[c] : age[c] > TwoYears => <<c, n>> \in OldRows
    BY <1>1 DEF OldRows, ResultRows, Outdated, CapturesTyped
  <1>5. Purged = {r \in OldRows :
                     Cardinality({s \in OldRows : OlderRow(s, r)}) < BatchSize}
    BY DEF Purged, OldestFirst, OldRows
  <1>6. QED
    BY <1>2, <1>3, <1>4, <1>5

(* When a run deletes the last results of a capture, it or an earlier one  *)
(* deletes all those of every older capture.                               *)
LEMMA OlderEmptiedFirst ==
    ASSUME CapturesRight, NEW d \in fetched, NEW c \in Capture, c < d, Kept(d) = {}
    PROVE  Kept(c) = {}
  <1>1. d \in Capture /\ c \in Nat /\ d \in Nat /\ CapturesTyped
        /\ c \in fetched /\ age[c] >= age[d] /\ (results[d] = {} => results[c] = {})
    BY RetentionConstants DEF CapturesRight, CapturesTyped, InOrder
  <1>2. CASE results[d] = {}
    BY <1>1, <1>2 DEF Kept
  <1>3. CASE results[d] # {}
    <2>1. PICK m \in results[d] : <<d, m>> \in Purged
      BY <1>3 DEF Kept
    <2> DEFINE Before(r) == {s \in OldRows : OlderRow(s, r)}
    <2>2. <<d, m>> \in OldRows /\ Cardinality(Before(<<d, m>>)) < BatchSize
      BY <2>1, OldRowsFacts
    <2>3. age[d] > TwoYears
      BY <2>2, OldRowsFacts
    <2>4. age[c] \in Nat /\ age[d] \in Nat /\ TwoYears \in Nat /\ BatchSize \in Nat
      BY <1>1, RetentionConstants DEF CapturesTyped
    <2>5. age[c] > TwoYears
      BY <1>1, <2>3, <2>4
    <2>6. ASSUME NEW n \in results[c]
          PROVE  <<c, n>> \in Purged
      <3>1. <<c, n>> \in OldRows
        BY <2>5, OldRowsFacts
      <3>2. ASSUME NEW s \in Before(<<c, n>>)
            PROVE  s \in Before(<<d, m>>)
        <4>1. s \in OldRows /\ s[1] \in Nat /\ s[1] <= c
          BY <1>1, <3>2, OldRowsFacts DEF OlderRow
        <4>2. s[1] < d
          BY <1>1, <4>1
        <4>3. QED
          BY <4>1, <4>2 DEF OlderRow
      <3>3. IsFiniteSet(Before(<<d, m>>))
        BY OldRowsFacts, FS_Subset
      <3> HIDE DEF Before
      <3>4. Before(<<c, n>>) \in SUBSET Before(<<d, m>>)
        BY <3>2
      <3>5. /\ IsFiniteSet(Before(<<c, n>>))
            /\ Cardinality(Before(<<c, n>>)) <= Cardinality(Before(<<d, m>>))
        BY <3>3, <3>4, FS_Subset
      <3>6. /\ Cardinality(Before(<<c, n>>)) \in Nat
            /\ Cardinality(Before(<<d, m>>)) \in Nat
        BY <3>3, <3>5, FS_CardinalityType
      <3>7. Cardinality(Before(<<c, n>>)) < BatchSize
        BY <2>2, <2>4, <3>5, <3>6
      <3>8. QED
        BY <3>1, <3>7, OldRowsFacts DEF Before
    <2>7. QED
      BY <2>6 DEF Kept
  <1>4. QED
    BY <1>2, <1>3

(* The tombstone a run leaves for a listing it empties.                    *)
LEMMA TombstoneOfLast ==
    ASSUME CapturesRight, NEW l \in RetentionListing,
           NEW m \in fetched, ListingOf[m] = l,
           \A c \in fetched : ListingOf[c] = l => c <= m /\ Kept(c) = {}
    PROVE  Tombstoned(l) = m
  <1> DEFINE gone == {r \in Purged : ListingOf[r[1]] = l}
             left == {c \in Capture : ListingOf[c] = l /\ Kept(c) # {}}
             marks == {lastSeen[l]} \cup {r[1] : r \in gone}
  <1>1. CapturesTyped /\ OnlyFetched /\ InOrder /\ TombstoneTellsLast /\ m \in Capture
        /\ m \in Nat /\ lastSeen[l] \in Nat
    BY RetentionConstants DEF CapturesRight, CapturesTyped
  <1>2. left = {}
    BY <1>1 DEF OnlyFetched, Kept
  <1>3. Tombstoned(l) = IF gone # {} THEN Max(marks) ELSE lastSeen[l]
    BY <1>2 DEF Tombstoned
  <1>4. \A r \in gone : r[1] \in fetched /\ ListingOf[r[1]] = l /\ r[1] \in Nat
                        /\ r[1] <= m /\ r[2] \in results[r[1]]
    BY OldRowsFacts
  <1>5. lastSeen[l] <= m
    BY <1>1 DEF OnlyFetched
  <1>6. CASE results[m] = {}
    <2>1. \A c \in fetched : ListingOf[c] = l => results[c] = {}
      BY <1>1, <1>6, RetentionConstants DEF InOrder, CapturesTyped
    <2>2. gone = {}
      BY <1>4, <2>1
    <2>3. lastSeen[l] = Max({c \in fetched : ListingOf[c] = l})
      BY <1>1, <2>1 DEF TombstoneTellsLast
    <2>4. Max({c \in fetched : ListingOf[c] = l}) = m
      BY <1>1, RetentionConstants, MaxIs DEF CapturesTyped
    <2>5. QED
      BY <1>3, <2>2, <2>3, <2>4
  <1>7. CASE results[m] # {}
    <2>1. PICK n \in results[m] : <<m, n>> \in Purged
      BY <1>7 DEF Kept
    <2>2. <<m, n>> \in gone
      BY <2>1
    <2>3. m \in marks
      BY <2>2
    <2>4. marks \in SUBSET Nat /\ \A x \in marks : x <= m
      BY <1>1, <1>4, <1>5
    <2> HIDE DEF marks
    <2>5. Max(marks) = m
      BY <2>3, <2>4, MaxIs
    <2>6. QED
      BY <1>3, <2>2, <2>5
  <1>8. QED
    BY <1>6, <1>7

(* A tombstone that is left names a capture of its listing.                *)
LEMMA TombstoneNames ==
    ASSUME CapturesRight, NEW l \in RetentionListing
    PROVE  /\ Tombstoned(l) \in Nat
           /\ Tombstoned(l) # 0 =>
                 Tombstoned(l) \in fetched /\ ListingOf[Tombstoned(l)] = l
  <1> DEFINE gone == {r \in Purged : ListingOf[r[1]] = l}
             marks == {lastSeen[l]} \cup {r[1] : r \in gone}
  <1>1. /\ lastSeen[l] \in Nat
        /\ lastSeen[l] # 0 => lastSeen[l] \in fetched /\ ListingOf[lastSeen[l]] = l
    BY DEF CapturesRight, CapturesTyped, OnlyFetched
  <1>2. \A r \in gone : r[1] \in fetched /\ ListingOf[r[1]] = l /\ r[1] \in Nat
    BY OldRowsFacts
  <1>3. \A x \in marks : x \in Nat /\ (x # 0 => x \in fetched /\ ListingOf[x] = l)
    BY <1>1, <1>2
  <1>4. IsFiniteSet(marks)
    <2>1. IsFiniteSet(fetched)
      BY DEF CapturesRight, CapturesTyped
    <2>2. IsFiniteSet(fetched \cup {lastSeen[l]})
      BY <2>1, FS_AddElement
    <2>3. marks \in SUBSET (fetched \cup {lastSeen[l]})
      BY <1>2
    <2> HIDE DEF marks
    <2>4. QED
      BY <2>2, <2>3, FS_Subset
  <1>5. Tombstoned(l) \in marks
    <2>1. Tombstoned(l) = Max(marks) \/ Tombstoned(l) = lastSeen[l]
      BY DEF Tombstoned
    <2>2. lastSeen[l] \in marks
      OBVIOUS
    <2> HIDE DEF marks
    <2>3. PICK m \in marks : \A x \in marks : x <= m
      BY <1>3, <1>4, <2>2, FiniteHasGreatest
    <2>4. Max(marks) = m
      BY <1>3, <2>3, MaxIs
    <2>5. QED
      BY <2>1, <2>2, <2>3, <2>4
  <1> HIDE DEF marks
  <1>6. QED
    BY <1>3, <1>5

LEMMA PurgeKeeps ==
    ASSUME CapturesRight, Purge
    PROVE  CapturesRight'
  <1>1. /\ CapturesTyped /\ OnlyFetched /\ InOrder /\ TombstoneTellsLast
        /\ results' = [c \in Capture |-> Kept(c)]
        /\ lastSeen' = [l \in RetentionListing |-> Tombstoned(l)]
        /\ UNCHANGED <<age, fetched>>
    BY DEF CapturesRight, Purge
  <1>2. /\ \A c \in Capture : results'[c] = Kept(c) /\ Kept(c) \subseteq results[c]
        /\ \A l \in RetentionListing : lastSeen'[l] = Tombstoned(l)
    BY <1>1 DEF Kept
  <1>3. CapturesTyped'
    <2>1. results' \in [Capture -> SUBSET (0..MaxReplays)]
      BY <1>1, <1>2 DEF CapturesTyped
    <2>2. lastSeen' \in [RetentionListing -> Nat]
      BY <1>1, TombstoneNames
    <2>3. QED
      BY <1>1, <2>1, <2>2 DEF CapturesTyped, RetentionListing
  <1>4. OnlyFetched'
    <2>1. \A c \in Capture : c \notin fetched => age[c] = 0 /\ Kept(c) = {}
      BY <1>1, <1>2 DEF OnlyFetched
    <2>2. QED
      BY <1>1, <1>2, <2>1, TombstoneNames DEF OnlyFetched, RetentionListing
  <1>5. InOrder'
    <2> SUFFICES ASSUME NEW d \in fetched, NEW b \in Capture, b < d
                 PROVE  b \in fetched /\ age[b] >= age[d]
                        /\ (Kept(d) = {} => Kept(b) = {})
      BY <1>1, <1>2 DEF InOrder, CapturesTyped
    <2>1. QED
      BY <1>1, OlderEmptiedFirst DEF InOrder
  <1>6. TombstoneTellsLast'
    <2> SUFFICES ASSUME NEW l \in RetentionListing,
                        {c \in fetched : ListingOf[c] = l} # {},
                        \A b \in {c \in fetched : ListingOf[c] = l} : Kept(b) = {}
                 PROVE  Tombstoned(l) = Max({c \in fetched : ListingOf[c] = l})
      BY <1>1, <1>2 DEF TombstoneTellsLast, RetentionListing, CapturesTyped
    <2> DEFINE seen == {c \in fetched : ListingOf[c] = l}
    <2>1. seen \in SUBSET Nat /\ seen # {}
      BY <1>1, RetentionConstants DEF CapturesTyped
    <2>2. IsFiniteSet(seen)
      BY <1>1, FS_Subset DEF CapturesTyped
    <2>3. PICK m \in seen : \A x \in seen : x <= m
      <3> HIDE DEF seen
      <3>1. QED
        BY <2>1, <2>2, FiniteHasGreatest
    <2>4. Tombstoned(l) = m
      BY <2>3, TombstoneOfLast
    <2>5. Max(seen) = m
      <3> HIDE DEF seen
      <3>1. QED
        BY <2>1, <2>3, MaxIs
    <2>6. QED
      BY <2>4, <2>5
  <1>7. QED
    BY <1>3, <1>4, <1>5, <1>6 DEF CapturesRight

-----------------------------------------------------------------------------
(* The alerts of the database size.                                        *)

LEMMA StreaksFacts ==
    ASSUME StreaksCalm
    PROVE  /\ RearmAfter \in Nat
           /\ \A b \in Boundaries : b \in Nat /\ calm[b] \in Nat /\ calm[b] <= RearmAfter
           /\ \A b \in DOMAIN sizeAlerts :
                 /\ b \in Boundaries /\ sizeAlerts[b] \in BoundaryRow
                 /\ sizeAlerts[b].streak \in Nat /\ sizeAlerts[b].armed \in BOOLEAN
  BY RetentionConstants DEF StreaksCalm, BoundaryRow

LEMMA PurgeFailsKeeps ==
    ASSUME StreaksCalm, PurgeFails
    PROVE  StreaksCalm'
  <1>1. /\ sizeAlerts' = [b \in DOMAIN sizeAlerts |-> [sizeAlerts[b] EXCEPT !.streak = 0]]
        /\ calm' = [b \in Boundaries |-> IF calm[b] = RearmAfter THEN calm[b] ELSE 0]
    BY DEF PurgeFails, StreaksEnded
  <1>2. \A b \in DOMAIN sizeAlerts :
            /\ sizeAlerts'[b] \in BoundaryRow /\ sizeAlerts'[b].streak = 0
            /\ sizeAlerts'[b].armed = sizeAlerts[b].armed
    BY <1>1, StreaksFacts DEF BoundaryRow
  <1>3. DOMAIN sizeAlerts' = DOMAIN sizeAlerts
    BY <1>1
  <1>4. sizeAlerts' \in [DOMAIN sizeAlerts' -> BoundaryRow]
    BY <1>1, <1>2
  <1>5. \A b \in Boundaries : calm'[b] \in 0..RearmAfter
                              /\ (calm[b] = RearmAfter => calm'[b] = RearmAfter)
    BY <1>1, StreaksFacts
  <1>6. calm' \in [Boundaries -> 0..RearmAfter]
    BY <1>1, <1>5
  <1>7. QED
    BY <1>2, <1>3, <1>4, <1>5, <1>6 DEF StreaksCalm

LEMMA RecordSizeKeeps ==
    ASSUME StreaksCalm, NEW size \in DatabaseSize, RecordSize(size)
    PROVE  StreaksCalm'
  <1>1. /\ sizeAlerts' = [b \in DOMAIN sizeAlerts \cup (1..size) |-> Measured(size, b)]
        /\ calm' = [b \in Boundaries |-> IF b <= size THEN 0
                                         ELSE Min({calm[b] + 1, RearmAfter})]
    BY DEF RecordSize
  <1>2. size \in Nat /\ 1..size \subseteq Boundaries
    BY RetentionConstants DEF Boundaries
  <1>3. DOMAIN sizeAlerts' = DOMAIN sizeAlerts \cup (1..size)
    BY <1>1
  <1>4. \A b \in Boundaries :
            /\ b <= size => calm'[b] = 0
            /\ ~(b <= size) => calm'[b] = IF calm[b] + 1 <= RearmAfter
                                            THEN calm[b] + 1 ELSE RearmAfter
    <2> SUFFICES ASSUME NEW b \in Boundaries
                 PROVE  /\ b <= size => calm'[b] = 0
                        /\ ~(b <= size) => calm'[b] = IF calm[b] + 1 <= RearmAfter
                                                        THEN calm[b] + 1 ELSE RearmAfter
      OBVIOUS
    <2>1. calm[b] + 1 \in Nat /\ RearmAfter \in Nat
      BY StreaksFacts
    <2>2. calm'[b] = IF b <= size THEN 0 ELSE Min({calm[b] + 1, RearmAfter})
      BY <1>1
    <2>3. QED
      BY <2>1, <2>2, MinOfTwo
  <1>5. \A b \in DOMAIN sizeAlerts' :
            /\ b \in Boundaries /\ sizeAlerts'[b] \in BoundaryRow
            /\ sizeAlerts'[b].armed => calm'[b] = RearmAfter
            /\ sizeAlerts'[b].streak <= calm'[b]
    <2> SUFFICES ASSUME NEW b \in DOMAIN sizeAlerts'
                 PROVE  /\ b \in Boundaries /\ sizeAlerts'[b] \in BoundaryRow
                        /\ sizeAlerts'[b].armed => calm'[b] = RearmAfter
                        /\ sizeAlerts'[b].streak <= calm'[b]
      OBVIOUS
    <2>1. b \in Boundaries /\ b \in Nat /\ sizeAlerts'[b] = Measured(size, b)
      BY <1>1, <1>2, <1>3, StreaksFacts
    <2>2. CASE b <= size
      <3>1. sizeAlerts'[b] = [armed |-> FALSE, streak |-> 0]
        BY <2>1, <2>2 DEF Measured
      <3>2. QED
        BY <1>4, <2>1, <2>2, <3>1 DEF BoundaryRow
    <2>3. CASE ~(b <= size)
      <3>1. b \in DOMAIN sizeAlerts
        BY <1>2, <1>3, <2>1, <2>3
      <3>2. /\ sizeAlerts[b].streak \in Nat /\ sizeAlerts[b].streak + 1 \in Nat
            /\ sizeAlerts[b].armed \in BOOLEAN /\ RearmAfter \in Nat
            /\ sizeAlerts[b].armed => calm[b] = RearmAfter
            /\ sizeAlerts[b].streak <= calm[b] /\ calm[b] \in Nat /\ calm[b] <= RearmAfter
        BY <2>1, <3>1, StreaksFacts DEF StreaksCalm
      <3> DEFINE longer == IF sizeAlerts[b].streak + 1 <= RearmAfter
                             THEN sizeAlerts[b].streak + 1 ELSE RearmAfter
      <3>3. Min({sizeAlerts[b].streak + 1, RearmAfter}) = longer
        BY <3>2, MinOfTwo
      <3>4. sizeAlerts'[b] = [armed  |-> sizeAlerts[b].armed \/ longer >= RearmAfter,
                              streak |-> longer]
        BY <2>1, <2>3, <3>3 DEF Measured
      <3>5. /\ longer \in Nat /\ longer <= calm'[b]
            /\ longer >= RearmAfter => calm'[b] = RearmAfter
            /\ calm[b] = RearmAfter => calm'[b] = RearmAfter
        BY <1>4, <2>1, <2>3, <3>2
      <3> HIDE DEF longer
      <3>6. sizeAlerts'[b] \in BoundaryRow /\ sizeAlerts'[b].streak = longer
        BY <3>4, <3>5 DEF BoundaryRow
      <3>7. sizeAlerts'[b].armed => sizeAlerts[b].armed \/ longer >= RearmAfter
        <4> DEFINE rearmed == sizeAlerts[b].armed \/ longer >= RearmAfter
        <4>1. sizeAlerts'[b] = [armed |-> rearmed, streak |-> longer]
          BY <3>4
        <4> HIDE DEF rearmed
        <4>2. sizeAlerts'[b].armed = rearmed
          BY <4>1
        <4>3. QED
          BY <4>2, Zenon DEF rearmed
      <3>8. QED
        BY <2>1, <3>2, <3>5, <3>6, <3>7
    <2>4. QED
      BY <2>2, <2>3
  <1>6. calm' \in [Boundaries -> 0..RearmAfter]
    <2>1. \A b \in Boundaries : calm'[b] \in 0..RearmAfter
      BY <1>4, StreaksFacts
    <2>2. QED
      BY <1>1, <2>1
  <1>7. \A b \in Boundaries \ DOMAIN sizeAlerts' : calm'[b] = RearmAfter
    <2> SUFFICES ASSUME NEW b \in Boundaries \ DOMAIN sizeAlerts'
                 PROVE  calm'[b] = RearmAfter
      OBVIOUS
    <2>1. b \in Boundaries \ DOMAIN sizeAlerts /\ b \notin 1..size
      BY <1>3
    <2>2. b \in Nat /\ b >= 1
      BY RetentionConstants DEF Boundaries
    <2>3. ~(b <= size) /\ calm[b] = RearmAfter /\ RearmAfter \in Nat
      BY <1>2, <2>1, <2>2, RetentionConstants DEF StreaksCalm
    <2>4. QED
      BY <1>4, <2>3
  <1>8. sizeAlerts' \in [DOMAIN sizeAlerts' -> BoundaryRow]
    BY <1>1, <1>5
  <1>9. QED
    BY <1>5, <1>6, <1>7, <1>8 DEF StreaksCalm

LEMMA RetentionStepInductive ==
    RetentionInductive /\ [RetentionNext]_retentionVars => RetentionInductive'
  <1> SUFFICES ASSUME CapturesRight, StreaksCalm, [RetentionNext]_retentionVars
               PROVE  CapturesRight' /\ StreaksCalm'
    BY DEF RetentionInductive
  <1>1. ASSUME NEW c \in Capture, FetchPage(c)
        PROVE  CapturesRight' /\ StreaksCalm'
    BY <1>1, FetchPageKeeps, StreaksUntouched DEF FetchPage
  <1>2. ASSUME NEW c \in Capture, ReplayPage(c)
        PROVE  CapturesRight' /\ StreaksCalm'
    BY <1>2, ReplayPageKeeps, StreaksUntouched DEF ReplayPage
  <1>3. CASE DayPasses
    BY <1>3, DayKeeps, StreaksUntouched DEF DayPasses
  <1>4. CASE Purge
    BY <1>4, PurgeKeeps, StreaksUntouched DEF Purge
  <1>5. CASE PurgeFails
    BY <1>5, PurgeFailsKeeps, CapturesUntouched DEF PurgeFails, dataVars
  <1>6. CASE RecordHealth
    BY <1>6, StreaksUntouched, CapturesUntouched DEF RecordHealth, dataVars
  <1>7. CASE MailHealth \/ MailHealthFails
    BY <1>7, StreaksUntouched, CapturesUntouched DEF MailHealth, MailHealthFails, dataVars
  <1>8. ASSUME NEW size \in DatabaseSize, RecordSize(size)
        PROVE  CapturesRight' /\ StreaksCalm'
    <2>1. CapturesRight'
      BY <1>8, CapturesUntouched DEF RecordSize, dataVars
    <2>2. QED
      BY <1>8, <2>1, RecordSizeKeeps
  <1>9. CASE RunStops
    BY <1>9, StreaksUntouched, CapturesUntouched DEF RunStops, dataVars
  <1>10. CASE UNCHANGED retentionVars
    BY <1>10, StreaksUntouched, CapturesUntouched DEF retentionVars
  <1>11. QED
    BY <1>1, <1>2, <1>3, <1>4, <1>5, <1>6, <1>7, <1>8, <1>9, <1>10
    DEF RetentionNext, RunGoesOn

(* What a measurement may mail about was calm since its last alert.        *)
LEMMA AlertsAreDue ==
    ASSUME StreaksCalm
    PROVE  \A size \in DatabaseSize : \A b \in Alerting(size) : calm[b] = RearmAfter
  <1> SUFFICES ASSUME NEW size \in DatabaseSize, NEW b \in Alerting(size)
               PROVE  calm[b] = RearmAfter
    OBVIOUS
  <1>1. b \in Boundaries /\ (b \in DOMAIN sizeAlerts => sizeAlerts[b].armed)
    BY DEF Alerting, Boundaries
  <1>2. QED
    BY <1>1 DEF StreaksCalm

(* For any captures, listings, batch and database sizes: the tombstone of  *)
(* a listing without results tells of its last fetch, whatever batches,    *)
(* replays, failed and stopped runs there were, and no boundary alerts     *)
(* again before RearmAfter calm measurements in a row.                     *)
THEOREM RetentionTellsTruthAlways == RetentionSpec => RetentionTellsTruth
  <1>1. RetentionSpec => []RetentionInductive
    BY RetentionInitInductive, RetentionStepInductive, PTL DEF RetentionSpec
  <1>2. RetentionInductive => TombstoneTellsLast
    BY DEF RetentionInductive, CapturesRight
  <1>3. StreaksCalm
        => [\A size \in DatabaseSize :
               RecordSize(size) => \A b \in Alerting(size) : calm[b] = RearmAfter]_retentionVars
    BY AlertsAreDue
  <1>4. RetentionInductive => StreaksCalm
    BY DEF RetentionInductive
  <1>5. QED
    BY <1>1, <1>2, <1>3, <1>4, PTL DEF RetentionTellsTruth, SizeAlertsRearm

-----------------------------------------------------------------------------
(* Ingestion.  What a mail leaves in the catalog.                          *)
RowOf(m) == [id |-> MailOf[m].id, raw |-> MailOf[m].raw]

PollRow == [step : {"idle", "message", "processed", "quarantine", "retry"},
            rest : Seq(Mail), failed : {0, 1}, rejected : {0, 1}]

IngestTyped ==
    /\ labels \in [Mail -> SUBSET (Role \cup {"inbox"})]
    /\ quarantined \subseteq Mail
    /\ polling \in PollRow
    /\ health \in [status : {"unknown", "healthy", "degraded"}, failing : BOOLEAN]
    /\ inTransaction \in BOOLEAN /\ parserFixed \in BOOLEAN
    /\ faults \in 0..MaxFaults
    /\ AwaitingLabels => polling.rest # <<>>

(* Every snapshot is linked to the candidate that its key names today: a   *)
(* stored title never changes, so neither does the key.                    *)
CandidatesLinked ==
    \A a \in catalog.snapshots :
        /\ FactsOf[a].listing \in DOMAIN catalog.titles
        /\ <<DuplicateKey(catalog.titles, a), FactsOf[a].listing>> \in catalog.links

(* A message row stands for all its snapshots, the processed label for its *)
(* message row.                                                            *)
MessagesComplete ==
    /\ \A row \in catalog.messages : row = [id |-> row.id, raw |-> row.raw]
    /\ \A m \in Mail : RowOf(m) \in catalog.messages
                            => ToSet(MailOf[m].articles) \subseteq catalog.snapshots

ProcessedRecorded ==
    /\ \A m \in Mail : "processed" \in labels[m] => RowOf(m) \in catalog.messages
    /\ At("processed") => RowOf(Current) \in catalog.messages

QuarantineRecorded ==
    /\ QuarantineKeepsOriginal
    /\ At("quarantine") => Current \in quarantined

IngestInductive ==
    /\ IngestTyped
    /\ CandidatesLinked
    /\ MessagesComplete
    /\ ProcessedRecorded
    /\ QuarantineRecorded

LEMMA IngestConstants ==
    /\ Mail \subseteq Nat /\ IsFiniteSet(Mail)
    /\ PollLimit \in Nat /\ MaxFaults \in Nat
    /\ \A m \in Mail : MailOf[m].articles \in Seq(DOMAIN FactsOf)
    /\ \A m, n \in Mail : MailOf[m].raw = MailOf[n].raw => MailOf[m].articles = MailOf[n].articles
  BY IngestAssumption

(* In a finite set of numbers there is one with exactly k greater ones: no *)
(* two have as many, so the counts take every value below the size.        *)
LEMMA RankedMember ==
    ASSUME NEW S \in SUBSET Nat, IsFiniteSet(S),
           NEW k \in Nat, k < Cardinality(S)
    PROVE  \E m \in S : Cardinality({n \in S : n > m}) = k
  <1> DEFINE above(m) == {n \in S : n > m}
             T == 0..(Cardinality(S) - 1)
             rank == [m \in S |-> Cardinality(above(m))]
  <1>1. Cardinality(S) \in Nat
    BY FS_CardinalityType
  <1>2. IsFiniteSet(T) /\ Cardinality(T) = Cardinality(S) /\ k \in T
    <2>1. 0 \in Int /\ Cardinality(S) - 1 \in Int /\ Cardinality(S) > 0
      BY <1>1
    <2>2. /\ IsFiniteSet(T)
          /\ Cardinality(T) = IF 0 > Cardinality(S) - 1 THEN 0 ELSE Cardinality(S) - 1 - 0 + 1
      BY <2>1, FS_Interval
    <2>3. k \in T
      BY <1>1
    <2> HIDE DEF T
    <2>4. QED
      BY <1>1, <2>1, <2>2, <2>3
  <1>3. \A m \in S : IsFiniteSet(above(m)) /\ Cardinality(above(m)) \in T
    <2> SUFFICES ASSUME NEW m \in S
                 PROVE  IsFiniteSet(above(m)) /\ Cardinality(above(m)) \in T
      OBVIOUS
    <2>1. above(m) \in SUBSET S /\ m \in S /\ m \notin above(m)
      OBVIOUS
    <2> HIDE DEF above
    <2>2. /\ IsFiniteSet(above(m)) /\ Cardinality(above(m)) <= Cardinality(S)
          /\ Cardinality(S) = Cardinality(above(m)) => S = above(m)
      BY <2>1, FS_Subset
    <2>3. Cardinality(above(m)) \in Nat
      BY <2>2, FS_CardinalityType
    <2>4. QED
      BY <2>1, <2>2, <2>3, <1>1
  <1>4. \A m, n \in S : m < n => Cardinality(above(n)) < Cardinality(above(m))
    <2> SUFFICES ASSUME NEW m \in S, NEW n \in S, m < n
                 PROVE  Cardinality(above(n)) < Cardinality(above(m))
      OBVIOUS
    <2>1. above(n) \in SUBSET above(m) /\ n \in above(m) /\ n \notin above(n)
      <3>1. m \in Nat /\ n \in Nat /\ \A o \in S : o \in Nat
        OBVIOUS
      <3>2. \A o \in S : o > n => o > m
        BY <3>1
      <3>3. n > m /\ ~(n > n)
        BY <3>1
      <3>4. QED
        BY <3>2, <3>3
    <2>2. IsFiniteSet(above(m)) /\ IsFiniteSet(above(n))
      BY <1>3
    <2> HIDE DEF above
    <2>3. /\ Cardinality(above(n)) <= Cardinality(above(m))
          /\ Cardinality(above(m)) = Cardinality(above(n)) => above(m) = above(n)
      BY <2>1, <2>2, FS_Subset
    <2>4. Cardinality(above(m)) \in Nat /\ Cardinality(above(n)) \in Nat
      BY <2>2, FS_CardinalityType
    <2>5. QED
      BY <2>1, <2>3, <2>4
  <1>5. rank \in Injection(S, T)
    <2>1. rank \in [S -> T]
      BY <1>3
    <2>2. \A m, n \in S : rank[m] = rank[n] => m = n
      <3> SUFFICES ASSUME NEW m \in S, NEW n \in S, m # n
                   PROVE  Cardinality(above(m)) # Cardinality(above(n))
        OBVIOUS
      <3>1. m < n \/ n < m
        OBVIOUS
      <3>2. Cardinality(above(m)) \in Nat /\ Cardinality(above(n)) \in Nat
        BY <1>3, FS_CardinalityType
      <3> HIDE DEF above
      <3>3. QED
        BY <1>4, <3>1, <3>2
    <2> HIDE DEF rank, T
    <2>3. QED
      BY <2>1, <2>2 DEF Injection, IsInjective
  <1> HIDE DEF T
  <1>6. rank \in Surjection(S, T)
    BY <1>2, <1>5, FS_Injection
  <1>7. PICK m \in S : rank[m] = k
    BY <1>2, <1>6 DEF Surjection
  <1>8. QED
    BY <1>7

(* list_messages is a sequence of labelled messages.                       *)
LEMMA AlertListTyped == AlertList \in Seq(Mail)
  <1> DEFINE all == {m \in Mail : "alert" \in labels[m]}
             listed == IF Cardinality(all) < PollLimit THEN Cardinality(all) ELSE PollLimit
             nth(i) == CHOOSE m \in all : Cardinality({newer \in all : newer > m}) = i - 1
  <1>1. all \in SUBSET Mail /\ all \in SUBSET Nat
    BY IngestConstants
  <1> HIDE DEF all
  <1>2. IsFiniteSet(all) /\ Cardinality(all) \in Nat
    BY <1>1, IngestConstants, FS_Subset, FS_CardinalityType
  <1>3. listed \in Nat /\ listed <= Cardinality(all)
    BY <1>2, IngestConstants
  <1>4. \A i \in 1..listed : nth(i) \in Mail
    <2> SUFFICES ASSUME NEW i \in 1..listed
                 PROVE  nth(i) \in Mail
      OBVIOUS
    <2>1. i - 1 \in Nat /\ i - 1 < Cardinality(all)
      BY <1>2, <1>3
    <2>2. \E m \in all : Cardinality({newer \in all : newer > m}) = i - 1
      BY <1>1, <1>2, <2>1, RankedMember
    <2>3. nth(i) \in all
      BY <2>2
    <2>4. QED
      BY <1>1, <2>3
  <1>5. AlertList = [i \in 1..listed |-> nth(i)]
    BY DEF AlertList, all
  <1> HIDE DEF listed, nth
  <1>6. QED
    BY <1>3, <1>4, <1>5

LEMMA IngestInitInductive == IngestInit => IngestInductive
  <1> SUFFICES ASSUME IngestInit PROVE IngestInductive
    OBVIOUS
  <1>1. IngestTyped
    <2>1. polling = [step |-> "idle", rest |-> <<>>, failed |-> 0, rejected |-> 0]
      BY DEF IngestInit, Idle
    <2>2. polling \in PollRow /\ ~AwaitingLabels
      BY <2>1 DEF PollRow, AwaitingLabels
    <2>3. labels \in [Mail -> SUBSET (Role \cup {"inbox"})] /\ quarantined \subseteq Mail
      BY DEF IngestInit
    <2>4. health \in [status : {"unknown", "healthy", "degraded"}, failing : BOOLEAN]
      BY DEF IngestInit
    <2>5. /\ inTransaction \in BOOLEAN /\ parserFixed \in BOOLEAN
          /\ faults \in 0..MaxFaults
      <3>1. inTransaction = FALSE /\ parserFixed = FALSE /\ faults = 0
        BY DEF IngestInit
      <3>2. faults \in 0..MaxFaults
        BY <3>1, IngestConstants
      <3>3. QED
        BY <3>1, <3>2
    <2>6. QED
      BY <2>2, <2>3, <2>4, <2>5 DEF IngestTyped
  <1>2. catalog.snapshots = {} /\ catalog.messages = {}
    BY DEF IngestInit
  <1>3. CandidatesLinked /\ MessagesComplete
    BY <1>2 DEF CandidatesLinked, MessagesComplete
  <1>4. ProcessedRecorded /\ QuarantineRecorded
    BY DEF IngestInit, Idle, At, ProcessedRecorded, QuarantineRecorded, QuarantineKeepsOriginal
  <1>5. QED
    BY <1>1, <1>3, <1>4 DEF IngestInductive

(* add_alert keeps what is there: snapshots, rows and stored titles.       *)
LEMMA StoringKeeps ==
    ASSUME CandidatesLinked, NEW m \in Mail, NEW db, db = StoreItems(catalog, MailOf[m].articles)
    PROVE  /\ db.messages = catalog.messages
           /\ db.snapshots = catalog.snapshots \cup ToSet(MailOf[m].articles)
           /\ \A a \in db.snapshots :
                 /\ FactsOf[a].listing \in DOMAIN db.titles
                 /\ <<DuplicateKey(db.titles, a), FactsOf[a].listing>> \in db.links
  <1> DEFINE articles == MailOf[m].articles
             Found == {FactsOf[articles[i]].listing : i \in 1..Len(articles)}
             Title(l) == IF l \in DOMAIN catalog.titles THEN catalog.titles[l]
                         ELSE FactsOf[CHOOSE a \in ToSet(articles) : FactsOf[a].listing = l].title
             titles == [l \in DOMAIN catalog.titles \cup Found |-> Title(l)]
  <1>1. /\ db.messages = catalog.messages
        /\ db.titles = titles
        /\ db.snapshots = catalog.snapshots \cup {articles[i] : i \in 1..Len(articles)}
        /\ db.links = catalog.links \cup
              {<<DuplicateKey(titles, a), FactsOf[a].listing>> : a \in ToSet(articles)}
    BY DEF StoreItems
  <1>2. /\ ToSet(articles) = {articles[i] : i \in 1..Len(articles)}
        /\ \A a \in ToSet(articles) : FactsOf[a].listing \in Found
    <2>1. DOMAIN articles = 1..Len(articles)
      BY IngestConstants
    <2>2. QED
      BY <2>1 DEF ToSet
  <1>3. ASSUME NEW a \in catalog.snapshots
        PROVE  /\ FactsOf[a].listing \in DOMAIN titles
               /\ DuplicateKey(titles, a) = DuplicateKey(catalog.titles, a)
    <2>1. FactsOf[a].listing \in DOMAIN catalog.titles
      BY <1>3 DEF CandidatesLinked
    <2>2. titles[FactsOf[a].listing] = catalog.titles[FactsOf[a].listing]
      BY <2>1
    <2>3. QED
      BY <2>1, <2>2 DEF DuplicateKey
  <1>4. ASSUME NEW a \in ToSet(articles)
        PROVE  FactsOf[a].listing \in DOMAIN titles
    BY <1>2, <1>4
  <1> HIDE DEF titles, Found, Title, articles
  <1>5. ASSUME NEW a \in db.snapshots
        PROVE  /\ FactsOf[a].listing \in DOMAIN db.titles
               /\ <<DuplicateKey(db.titles, a), FactsOf[a].listing>> \in db.links
    <2>1. CASE a \in catalog.snapshots
      <3>1. <<DuplicateKey(catalog.titles, a), FactsOf[a].listing>> \in catalog.links
        BY <2>1 DEF CandidatesLinked
      <3>2. QED
        BY <1>1, <1>3, <2>1, <3>1
    <2>2. CASE a \in ToSet(articles)
      BY <1>1, <1>4, <2>2
    <2>3. QED
      BY <1>1, <1>2, <1>5, <2>1, <2>2
  <1>6. QED
    BY <1>1, <1>2, <1>5 DEF articles

LEMMA IngestKeeps ==
    ASSUME IngestInductive, NEW m \in Mail, Ingest(m)
    PROVE  CandidatesLinked' /\ MessagesComplete' /\ RowOf(m) \in catalog'.messages
           /\ catalog.messages \subseteq catalog'.messages
  <1>1. CandidatesLinked /\ MessagesComplete
        /\ catalog' = AddAlert(m) /\ ~Conflicting(m)
    BY DEF IngestInductive, Ingest
  <1>2. CASE SameId(m) # {}
    <2>1. catalog' = catalog
      BY <1>1, <1>2 DEF AddAlert
    <2>2. RowOf(m) \in catalog.messages
      <3>1. PICK row \in catalog.messages : row.id = MailOf[m].id
        BY <1>2 DEF SameId
      <3>2. row.raw = MailOf[m].raw
        BY <1>1, <3>1 DEF Conflicting, SameId
      <3>3. row = [id |-> row.id, raw |-> row.raw]
        BY <1>1, <3>1 DEF MessagesComplete
      <3>4. QED
        BY <3>1, <3>2, <3>3 DEF RowOf
    <2>3. QED
      BY <1>1, <2>1, <2>2 DEF CandidatesLinked, MessagesComplete
  <1>3. CASE SameId(m) = {}
    <2> DEFINE db == StoreItems(catalog, MailOf[m].articles)
    <2>1. /\ catalog'.messages = db.messages \cup {RowOf(m)}
          /\ catalog'.titles = db.titles /\ catalog'.snapshots = db.snapshots
          /\ catalog'.links = db.links
      BY <1>1, <1>3 DEF AddAlert, RowOf, StoreItems
    <2> HIDE DEF db
    <2>2. /\ db.messages = catalog.messages
          /\ db.snapshots = catalog.snapshots \cup ToSet(MailOf[m].articles)
          /\ \A a \in db.snapshots :
                 /\ FactsOf[a].listing \in DOMAIN db.titles
                 /\ <<DuplicateKey(db.titles, a), FactsOf[a].listing>> \in db.links
      BY <1>1, StoringKeeps DEF db
    <2>3. CandidatesLinked'
      BY <2>1, <2>2 DEF CandidatesLinked
    <2>4. ASSUME NEW n \in Mail, RowOf(n) \in catalog'.messages
          PROVE  ToSet(MailOf[n].articles) \subseteq catalog'.snapshots
      <3>1. CASE RowOf(n) \in catalog.messages
        BY <1>1, <2>1, <2>2, <3>1 DEF MessagesComplete
      <3>2. CASE RowOf(n) = RowOf(m)
        <4>1. MailOf[n].articles = MailOf[m].articles
          BY <3>2, IngestConstants DEF RowOf
        <4>2. QED
          BY <2>1, <2>2, <4>1
      <3>3. QED
        BY <2>1, <2>2, <2>4, <3>1, <3>2
    <2>5. \A row \in catalog'.messages : row = [id |-> row.id, raw |-> row.raw]
      BY <1>1, <2>1, <2>2 DEF MessagesComplete, RowOf
    <2>6. QED
      BY <2>1, <2>2, <2>3, <2>4, <2>5 DEF MessagesComplete
  <1>4. QED
    BY <1>2, <1>3

(* Steps that touch neither labels nor catalog, and end in no state in     *)
(* which a processed or quarantine label is still to be set.               *)
LEMMA RecordsUntouched ==
    ASSUME IngestInductive, UNCHANGED <<labels, catalog>>,
           quarantined \subseteq quarantined',
           polling'.step \notin {"processed", "quarantine"}
    PROVE  /\ CandidatesLinked' /\ MessagesComplete'
           /\ ProcessedRecorded' /\ QuarantineRecorded'
  <1>1. CandidatesLinked' /\ MessagesComplete'
    BY DEF IngestInductive, CandidatesLinked, MessagesComplete
  <1>2. ProcessedRecorded'
    BY DEF IngestInductive, ProcessedRecorded, At
  <1>3. QuarantineRecorded'
    BY DEF IngestInductive, QuarantineRecorded, QuarantineKeepsOriginal, At
  <1>4. QED
    BY <1>1, <1>2, <1>3

LEMMA CatalogUntouched ==
    ASSUME IngestInductive, UNCHANGED catalog
    PROVE  CandidatesLinked' /\ MessagesComplete'
  BY DEF IngestInductive, CandidatesLinked, MessagesComplete

(* The next message, and a message that awaits its labels.                 *)
LEMMA ProceedTyped ==
    ASSUME NEW row \in PollRow, row.rest # <<>>,
           polling' = [row EXCEPT !.step = "message", !.rest = Tail(@)]
    PROVE  polling' \in PollRow /\ polling'.step = "message" /\ ~AwaitingLabels'
  <1>1. Tail(row.rest) \in Seq(Mail)
    BY DEF PollRow
  <1>2. polling' = [step |-> "message", rest |-> Tail(row.rest), failed |-> row.failed,
                    rejected |-> row.rejected]
    BY DEF PollRow
  <1>3. polling'.step = "message"
    BY <1>2
  <1>4. polling' \in PollRow
    BY <1>1, <1>2 DEF PollRow
  <1>5. QED
    BY <1>3, <1>4 DEF AwaitingLabels

LEMMA AwaitTyped ==
    ASSUME IngestTyped, At("message"), polling.rest # <<>>,
           NEW kind \in {"processed", "quarantine", "retry"},
           AwaitLabels(kind)
    PROVE  /\ polling' \in PollRow /\ polling'.step = kind
           /\ polling'.rest = polling.rest /\ polling'.rest # <<>>
  <1>1. polling \in PollRow
    BY DEF IngestTyped
  <1>2. polling' = [step |-> kind, rest |-> polling.rest, failed |-> polling.failed,
                    rejected |-> polling.rejected]
    BY <1>1 DEF PollRow, AwaitLabels
  <1>3. QED
    BY <1>1, <1>2 DEF PollRow

LEMMA IdleTyped ==
    ASSUME polling' = Idle
    PROVE  polling' \in PollRow /\ ~AwaitingLabels' /\ polling'.step = "idle"
  <1>1. Idle \in PollRow /\ Idle.step = "idle"
    BY DEF Idle, PollRow
  <1>2. QED
    BY <1>1 DEF AwaitingLabels

LEMMA HealthTyped ==
    ASSUME IngestTyped
    PROVE  RecordError \/ RecordSuccess \/ UNCHANGED health
              => health' \in [status : {"unknown", "healthy", "degraded"}, failing : BOOLEAN]
  <1> DEFINE Health == [status : {"unknown", "healthy", "degraded"}, failing : BOOLEAN]
  <1>1. [status |-> "healthy", failing |-> FALSE] \in Health
    OBVIOUS
  <1>2. /\ [status |-> "degraded", failing |-> FALSE] \in Health
        /\ [status |-> "degraded", failing |-> TRUE] \in Health
    OBVIOUS
  <1>3. health \in Health
    BY DEF IngestTyped
  <1> HIDE DEF Health
  <1>4. RecordError => health' \in Health
    BY <1>2 DEF RecordError
  <1>5. RecordSuccess => health' \in Health
    BY <1>1, <1>2 DEF RecordSuccess
  <1>6. QED
    BY <1>3, <1>4, <1>5 DEF Health

LEMMA FaultTyped ==
    ASSUME IngestTyped
    PROVE  (faults < MaxFaults /\ faults' = faults + 1) \/ faults' = faults
              => faults' \in 0..MaxFaults
  BY IngestConstants DEF IngestTyped

(* What the three endings leave on a message.                              *)
LEMMA RelabelledHas ==
    ASSUME IngestTyped, AwaitingLabels, NEW m \in Mail
    PROVE  /\ "processed" \in Relabelled(m) => At("processed")
           /\ "quarantine" \in Relabelled(m) => At("quarantine")
           /\ Relabelled(m) \subseteq Role \cup {"inbox"}
  <1>1. labels[m] \subseteq Role \cup {"inbox"}
    BY DEF IngestTyped
  <1>2. QED
    BY <1>1 DEF Relabelled, AwaitingLabels, At, Role

LEMMA LabelStep ==
    ASSUME IngestInductive, UNCHANGED catalog, AwaitingLabels,
           polling'.step \notin {"processed", "quarantine"},
           \/ labels' = [labels EXCEPT ![Current] = Relabelled(Current)]
           \/ UNCHANGED labels,
           quarantined' = quarantined
              \/ (labels' = [labels EXCEPT ![Current] = Relabelled(Current)]
                  /\ DropStaleRow(Current))
    PROVE  /\ labels' \in [Mail -> SUBSET (Role \cup {"inbox"})]
           /\ ProcessedRecorded' /\ QuarantineRecorded'
  <1>1. IngestTyped /\ ProcessedRecorded /\ QuarantineRecorded
    BY DEF IngestInductive
  <1>2. \A m \in Mail : labels'[m] = IF m = Current /\ labels' # labels
                                       THEN Relabelled(m) ELSE labels[m]
    BY <1>1 DEF IngestTyped
  <1>3. labels' \in [Mail -> SUBSET (Role \cup {"inbox"})]
    <2>1. \A m \in Mail : Relabelled(m) \subseteq Role \cup {"inbox"}
      BY <1>1, RelabelledHas
    <2>2. CASE Current \in Mail
      BY <1>1, <2>1, <2>2 DEF IngestTyped
    <2>3. CASE Current \notin Mail
      <3>1. labels' = labels
        BY <1>1, <2>3 DEF IngestTyped
      <3>2. QED
        BY <1>1, <3>1 DEF IngestTyped
    <2>4. QED
      BY <2>2, <2>3
  <1>4. ProcessedRecorded'
    <2>1. ASSUME NEW m \in Mail, "processed" \in labels'[m]
          PROVE  RowOf(m) \in catalog'.messages
      BY <1>1, <1>2, <2>1, RelabelledHas DEF ProcessedRecorded
    <2>2. QED
      BY <2>1 DEF ProcessedRecorded, At, RowOf
  <1>5. ASSUME NEW m \in Mail, "quarantine" \in labels'[m]
        PROVE  m \in quarantined'
    <2>1. CASE labels' = labels /\ quarantined' = quarantined
      BY <1>1, <1>5, <2>1 DEF QuarantineRecorded, QuarantineKeepsOriginal
    <2>2. CASE labels' = [labels EXCEPT ![Current] = Relabelled(Current)]
      <3>1. labels'[m] = IF m = Current THEN Relabelled(m) ELSE labels[m]
        BY <1>1, <2>2 DEF IngestTyped
      <3>2. CASE m = Current
        <4>1. At("quarantine")
          BY <1>1, <1>5, <3>1, <3>2, RelabelledHas
        <4>2. quarantined' = quarantined
          BY <4>1 DEF DropStaleRow, At
        <4>3. QED
          BY <1>1, <3>2, <4>1, <4>2 DEF QuarantineRecorded
      <3>3. CASE m # Current
        <4>1. m \in quarantined
          BY <1>1, <1>5, <3>1, <3>3 DEF QuarantineRecorded, QuarantineKeepsOriginal
        <4>2. QED
          BY <3>3, <4>1 DEF DropStaleRow
      <3>4. QED
        BY <3>2, <3>3
    <2>3. QED
      BY <2>1, <2>2
  <1>6. QuarantineRecorded'
    BY <1>5 DEF QuarantineRecorded, QuarantineKeepsOriginal, At
  <1>7. QED
    BY <1>3, <1>4, <1>6

Records == CandidatesLinked /\ MessagesComplete /\ ProcessedRecorded /\ QuarantineRecorded

LEMMA IngestStepInductive ==
    IngestInductive /\ [IngestNext]_ingestVars => IngestInductive'
  <1> SUFFICES ASSUME IngestInductive, [IngestNext]_ingestVars
               PROVE  IngestTyped' /\ Records'
    BY DEF IngestInductive, Records
  <1>1. IngestTyped /\ Records
    BY DEF IngestInductive, Records
  <1>2. /\ labels \in [Mail -> SUBSET (Role \cup {"inbox"})] /\ quarantined \subseteq Mail
        /\ polling \in PollRow /\ inTransaction \in BOOLEAN /\ parserFixed \in BOOLEAN
        /\ (At("processed") \/ At("quarantine") \/ At("retry")) => polling.rest # <<>>
    BY <1>1 DEF IngestTyped, AwaitingLabels, At
  <1>3. CASE StartPoll
    <2>1. polling' = [step |-> "message", rest |-> AlertList, failed |-> 0, rejected |-> 0]
      BY <1>3 DEF StartPoll, Idle
    <2>2. polling' \in PollRow /\ polling'.step = "message"
      BY <2>1, AlertListTyped DEF PollRow
    <2>3. Records'
      BY <1>3, <2>2, RecordsUntouched DEF StartPoll, Records
    <2>4. health' = health /\ faults' = faults /\ inTransaction' = FALSE
          /\ parserFixed' = parserFixed /\ labels' = labels /\ quarantined' = quarantined
      BY <1>3 DEF StartPoll
    <2>5. QED
      BY <1>1, <1>2, <2>2, <2>3, <2>4, HealthTyped, FaultTyped
      DEF IngestTyped, AwaitingLabels
  <1>4. ASSUME NEW m \in Mail, ReadFails(m) \/ BeginRefused(m)
        PROVE  IngestTyped' /\ Records'
    <2>1. /\ At("message") /\ polling.rest # <<>> /\ AwaitLabels("retry")
          /\ RecordError /\ inTransaction' = FALSE
          /\ UNCHANGED <<labels, quarantined, catalog, parserFixed>>
          /\ (faults < MaxFaults /\ faults' = faults + 1) \/ faults' = faults
      BY <1>4 DEF ReadFails, BeginRefused, Admitted, InHand
    <2>2. polling' \in PollRow /\ polling'.step = "retry" /\ polling'.rest # <<>>
      BY <1>1, <2>1, AwaitTyped
    <2>3. Records'
      BY <2>1, <2>2, RecordsUntouched DEF Records
    <2>4. QED
      BY <1>1, <1>2, <2>1, <2>2, <2>3, HealthTyped, FaultTyped DEF IngestTyped
  <1>5. ASSUME NEW m \in Mail, SkipUnlabelled(m)
        PROVE  IngestTyped' /\ Records'
    <2> DEFINE row == [polling EXCEPT !.failed = 1]
    <2>1. row \in PollRow /\ row.rest = polling.rest
      BY <1>2 DEF PollRow
    <2>2. polling.rest # <<>> /\ polling' = [row EXCEPT !.step = "message", !.rest = Tail(@)]
      BY <1>5 DEF SkipUnlabelled, InHand, Proceed
    <2> HIDE DEF row
    <2>3. polling' \in PollRow /\ polling'.step = "message" /\ ~AwaitingLabels'
      BY <2>1, <2>2, ProceedTyped
    <2>4. /\ UNCHANGED <<labels, quarantined, catalog, parserFixed, faults>>
          /\ RecordError /\ inTransaction' = FALSE
      BY <1>5 DEF SkipUnlabelled
    <2>5. Records'
      BY <2>3, <2>4, RecordsUntouched DEF Records
    <2>6. QED
      BY <1>1, <1>2, <2>3, <2>4, <2>5, HealthTyped, FaultTyped DEF IngestTyped
  <1>6. ASSUME NEW m \in Mail, RejectByPolicy(m)
        PROVE  IngestTyped' /\ Records'
    <2> DEFINE row == [polling EXCEPT !.rejected = 1]
    <2>1. row \in PollRow /\ row.rest = polling.rest
      BY <1>2 DEF PollRow
    <2>2. polling.rest # <<>> /\ polling' = [row EXCEPT !.step = "message", !.rest = Tail(@)]
      BY <1>6 DEF RejectByPolicy, InHand, Proceed
    <2> HIDE DEF row
    <2>3. polling' \in PollRow /\ polling'.step = "message" /\ ~AwaitingLabels'
      BY <2>1, <2>2, ProceedTyped
    <2>4. /\ UNCHANGED <<labels, catalog, health, parserFixed, faults>>
          /\ quarantined' = quarantined \cup {m} /\ inTransaction' = (m \in quarantined)
      BY <1>6 DEF RejectByPolicy, Quarantine
    <2>5. Records'
      BY <2>3, <2>4, RecordsUntouched DEF Records
    <2>6. inTransaction' \in BOOLEAN
      BY <2>4
    <2>7. quarantined' \subseteq Mail
      BY <1>2, <2>4
    <2>8. QED
      BY <1>1, <1>2, <2>3, <2>4, <2>5, <2>6, <2>7, HealthTyped, FaultTyped DEF IngestTyped
  <1>7. ASSUME NEW m \in Mail, RejectByParser(m)
        PROVE  IngestTyped' /\ Records'
    <2>1. /\ At("message") /\ polling.rest # <<>> /\ m = Current
          /\ AwaitLabels("quarantine")
          /\ UNCHANGED <<labels, catalog, health, parserFixed, faults>>
          /\ quarantined' = quarantined \cup {m} /\ inTransaction' = (m \in quarantined)
      BY <1>7 DEF RejectByParser, Quarantine, Admitted, InHand
    <2>2. /\ polling' \in PollRow /\ polling'.step = "quarantine"
          /\ polling'.rest = polling.rest /\ polling'.rest # <<>>
      BY <1>1, <2>1, AwaitTyped
    <2>3. CandidatesLinked' /\ MessagesComplete'
      BY <2>1, CatalogUntouched
    <2>4. ProcessedRecorded'
      BY <1>1, <2>1, <2>2 DEF Records, ProcessedRecorded, At
    <2>5. m \in quarantined' /\ Head(polling'.rest) = m
      BY <2>1, <2>2 DEF Current
    <2>6. QuarantineRecorded'
      BY <1>1, <2>1, <2>5
      DEF Records, QuarantineRecorded, QuarantineKeepsOriginal, Current
    <2>7. inTransaction' \in BOOLEAN
      BY <2>1
    <2>8. quarantined' \subseteq Mail
      BY <1>2, <2>1
    <2>9. QED
      BY <1>1, <1>2, <2>1, <2>2, <2>3, <2>4, <2>6, <2>7, <2>8, HealthTyped, FaultTyped
      DEF IngestTyped, Records
  <1>8. ASSUME NEW m \in Mail, Ingest(m)
        PROVE  IngestTyped' /\ Records'
    <2>1. /\ At("message") /\ polling.rest # <<>> /\ m = Current
          /\ AwaitLabels("processed")
          /\ UNCHANGED <<labels, quarantined, health, inTransaction, parserFixed, faults>>
      BY <1>8 DEF Ingest, Admitted, InHand
    <2>2. /\ polling' \in PollRow /\ polling'.step = "processed"
          /\ polling'.rest = polling.rest /\ polling'.rest # <<>>
      BY <1>1, <2>1, AwaitTyped
    <2>3. /\ CandidatesLinked' /\ MessagesComplete' /\ RowOf(m) \in catalog'.messages
          /\ catalog.messages \subseteq catalog'.messages
      BY <1>8, IngestKeeps
    <2>4. Head(polling'.rest) = m
      BY <2>1, <2>2 DEF Current
    <2>5. ProcessedRecorded'
      BY <1>1, <2>1, <2>3, <2>4 DEF Records, ProcessedRecorded, Current, RowOf
    <2>6. QuarantineRecorded'
      BY <1>1, <2>1, <2>2 DEF Records, QuarantineRecorded, QuarantineKeepsOriginal, At
    <2>7. QED
      BY <1>1, <1>2, <2>1, <2>2, <2>3, <2>5, <2>6, HealthTyped, FaultTyped
      DEF IngestTyped, Records
  <1>9. CASE ApplyLabels
    <2> DEFINE row == [polling EXCEPT !.failed = IF At("retry") THEN 1 ELSE @,
                                      !.rejected = IF At("quarantine") THEN 1 ELSE @]
    <2>1. AwaitingLabels /\ polling.rest # <<>>
      BY <1>1, <1>9 DEF ApplyLabels, IngestTyped
    <2>2. row \in PollRow /\ row.rest = polling.rest
      BY <1>2 DEF PollRow
    <2>3. polling' = [row EXCEPT !.step = "message", !.rest = Tail(@)]
      BY <1>9 DEF ApplyLabels, Proceed
    <2> HIDE DEF row
    <2>4. polling' \in PollRow /\ polling'.step = "message" /\ ~AwaitingLabels'
      BY <2>1, <2>2, <2>3, ProceedTyped
    <2>5. /\ labels' = [labels EXCEPT ![Current] = Relabelled(Current)]
          /\ DropStaleRow(Current)
          /\ UNCHANGED <<catalog, health, parserFixed, faults>>
          /\ inTransaction' = IF At("processed") THEN Current \notin quarantined
                                                 ELSE inTransaction
      BY <1>9 DEF ApplyLabels
    <2>6. labels' \in [Mail -> SUBSET (Role \cup {"inbox"})]
          /\ ProcessedRecorded' /\ QuarantineRecorded'
      BY <2>1, <2>4, <2>5, LabelStep
    <2>7. CandidatesLinked' /\ MessagesComplete'
      BY <2>5, CatalogUntouched
    <2>8. inTransaction' \in BOOLEAN
      BY <1>2, <2>5
    <2>9. quarantined' \subseteq Mail
      BY <1>2, <2>5 DEF DropStaleRow
    <2>10. QED
      BY <1>1, <1>2, <2>4, <2>5, <2>6, <2>7, <2>8, <2>9, HealthTyped, FaultTyped
      DEF IngestTyped, Records
  <1>10. CASE LabelsFail
    <2>1. /\ AwaitingLabels /\ polling' = Idle /\ inTransaction' = FALSE
          /\ UNCHANGED <<quarantined, catalog, health, parserFixed>>
          /\ faults < MaxFaults /\ faults' = faults + 1
          /\ \/ labels' = [labels EXCEPT ![Current] = Relabelled(Current)]
             \/ UNCHANGED labels
      BY <1>10 DEF LabelsFail
    <2>2. polling' \in PollRow /\ ~AwaitingLabels' /\ polling'.step = "idle"
      BY <2>1, IdleTyped
    <2>3. labels' \in [Mail -> SUBSET (Role \cup {"inbox"})]
          /\ ProcessedRecorded' /\ QuarantineRecorded'
      BY <2>1, <2>2, LabelStep
    <2>4. CandidatesLinked' /\ MessagesComplete'
      BY <2>1, CatalogUntouched
    <2>5. QED
      BY <1>1, <1>2, <2>1, <2>2, <2>3, <2>4, HealthTyped, FaultTyped DEF IngestTyped, Records
  <1>11. CASE FinishPoll \/ StopPoll
    <2>1. /\ polling' = Idle /\ inTransaction' = FALSE
          /\ UNCHANGED <<labels, quarantined, catalog, parserFixed>>
          /\ RecordSuccess \/ UNCHANGED health
          /\ (faults < MaxFaults /\ faults' = faults + 1) \/ faults' = faults
      BY <1>11 DEF FinishPoll, StopPoll
    <2>2. polling' \in PollRow /\ ~AwaitingLabels' /\ polling'.step = "idle"
      BY <2>1, IdleTyped
    <2>3. Records'
      BY <2>1, <2>2, RecordsUntouched DEF Records
    <2>4. QED
      BY <1>1, <1>2, <2>1, <2>2, <2>3, HealthTyped, FaultTyped DEF IngestTyped
  <1>12. ASSUME NEW m \in Mail, Arrive(m) \/ Operate(m)
         PROVE  IngestTyped' /\ Records'
    <2>1. /\ UNCHANGED <<quarantined, catalog, health, polling, inTransaction>>
          /\ (faults < MaxFaults /\ faults' = faults + 1) \/ faults' = faults
          /\ parserFixed' \in BOOLEAN
      BY <1>2, <1>12 DEF Arrive, Operate
    <2>2. /\ labels' \in [Mail -> SUBSET (Role \cup {"inbox"})]
          /\ \A n \in Mail : labels'[n] \subseteq labels[n] \cup {"inbox", "alert"}
      BY <1>2, <1>12 DEF Arrive, Operate, Role
    <2>3. CandidatesLinked' /\ MessagesComplete'
      BY <2>1, CatalogUntouched
    <2>4. ProcessedRecorded'
      BY <1>1, <2>1, <2>2 DEF Records, ProcessedRecorded, At, Current
    <2>5. QuarantineRecorded'
      BY <1>1, <2>1, <2>2 DEF Records, QuarantineRecorded, QuarantineKeepsOriginal, At, Current
    <2>6. AwaitingLabels' => polling'.rest # <<>>
      BY <1>1, <2>1 DEF IngestTyped, AwaitingLabels
    <2>7. QED
      BY <1>1, <1>2, <2>1, <2>2, <2>3, <2>4, <2>5, <2>6, HealthTyped, FaultTyped
      DEF IngestTyped, Records
  <1>13. CASE UNCHANGED ingestVars
    BY <1>1, <1>13 DEF ingestVars, IngestTyped, Records, CandidatesLinked, MessagesComplete,
       ProcessedRecorded, QuarantineRecorded, QuarantineKeepsOriginal, AwaitingLabels, At, Current
  <1>14. QED
    BY <1>3, <1>4, <1>5, <1>6, <1>7, <1>8, <1>9, <1>10, <1>11, <1>12, <1>13
    DEF IngestNext, PollStep

(* For any mailbox, articles, limits and number of failures: what carries  *)
(* the processed label is stored with every listing it named, what carries *)
(* the quarantine label has its row, and snapshots that state one flat     *)
(* share a candidate.  (add_alert, _quarantine, poll; a stored title never *)
(* changes, so the key a snapshot was linked under stays its key.)         *)
THEOREM IngestInvariantAlways == IngestSpec => []IngestInvariant
  <1>1. IngestSpec => []IngestInductive
    BY IngestInitInductive, IngestStepInductive, PTL DEF IngestSpec
  <1>2. IngestInductive => IngestInvariant
    <2> SUFFICES ASSUME IngestInductive PROVE IngestInvariant
      OBVIOUS
    <2>1. IngestTyped /\ CandidatesLinked /\ MessagesComplete
          /\ ProcessedRecorded /\ QuarantineRecorded
      BY DEF IngestInductive
    <2>2. IngestTypeOK
      <3>1. polling.rest \in Seq(Mail) /\ {polling.failed, polling.rejected} \subseteq {0, 1}
        BY <2>1 DEF IngestTyped, PollRow
      <3>2. health.status \in {"unknown", "healthy", "degraded"} /\ health.failing \in BOOLEAN
        BY <2>1 DEF IngestTyped
      <3>3. QED
        BY <2>1, <3>1, <3>2 DEF IngestTyped, IngestTypeOK
    <2>3. ProcessedIsStored
      BY <2>1 DEF MessagesComplete, ProcessedRecorded, ProcessedIsStored, RowOf
    <2>4. SameFlatSameCandidate
      <3> SUFFICES ASSUME NEW a \in catalog.snapshots, NEW b \in catalog.snapshots,
                          <<FactsOf[a].location, FactsOf[a].rooms, FactsOf[a].area>>
                            = <<FactsOf[b].location, FactsOf[b].rooms, FactsOf[b].area>>,
                          Missing \notin {FactsOf[a].location, FactsOf[a].rooms, FactsOf[a].area},
                          catalog.titles[FactsOf[a].listing] = catalog.titles[FactsOf[b].listing]
                   PROVE  \E c \in {link[1] : link \in catalog.links} :
                             {<<c, FactsOf[a].listing>>, <<c, FactsOf[b].listing>>}
                                \subseteq catalog.links
        BY DEF SameFlatSameCandidate
      <3> DEFINE c == DuplicateKey(catalog.titles, a)
      <3>1. DuplicateKey(catalog.titles, b) = c
        BY DEF DuplicateKey
      <3>2. <<c, FactsOf[a].listing>> \in catalog.links /\ <<c, FactsOf[b].listing>> \in catalog.links
        BY <2>1, <3>1 DEF CandidatesLinked
      <3>3. c = (<<c, FactsOf[a].listing>>)[1]
        OBVIOUS
      <3> HIDE DEF c
      <3>4. c \in {link[1] : link \in catalog.links}
        BY <3>2, <3>3
      <3>5. QED
        BY <3>2, <3>4
    <2>5. QED
      BY <2>1, <2>2, <2>3, <2>4 DEF IngestInvariant, QuarantineRecorded
  <1>3. QED
    BY <1>1, <1>2, PTL

=============================================================================
