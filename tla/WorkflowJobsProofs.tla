------------------------- MODULE WorkflowJobsProofs -------------------------
(***************************************************************************)
(* Safety of the workflow jobs and of what their stages write, for any set *)
(* of jobs, items, profiles and periods, any number of workers and any     *)
(* number of crashes, deferrals and lost leases.                           *)
(*                                                                         *)
(* Jobs: a worker past its stage has the next one enqueued (StageRan).     *)
(* Stages: facts are written once, and what a worker read before its write *)
(* follows from facts that are still there (StagesTrue), so evaluations and *)
(* drafts stay true however two workers of one stage interleave            *)
(* (EvaluationsTrue, DraftsTrue, HandedOver).                              *)
(***************************************************************************)
EXTENDS WorkflowJobs, WorkflowStages, FiniteSetTheorems, WellFoundedInduction,
        TLAPS

(* A worker that has run its stage has the next stage enqueued, although   *)
(* its own job is not acknowledged yet.                                    *)
StageRan(w) ==
    /\ phase[w] # "idle" => held[w] \in Job
    /\ (phase[w] = "done" /\ Child[held[w]] # NoJob)
          => jobState[Child[held[w]]] # "none"

(* A running job has an attempt number.                                    *)
Counted == \A j \in Job : jobState[j] = "running" => attemptCount[j] > 0

JobsInv ==
    /\ TypeOK
    /\ Counted
    /\ ChainUnbroken
    /\ \A w \in Worker : StageRan(w)

(* No step takes a job back to before its enqueueing.                      *)
StaysEnqueued == \A j \in Job : jobState[j] # "none" => jobState'[j] # "none"

(* No step settles a job as succeeded.                                     *)
NoneSucceeds == \A j \in Job : jobState'[j] = "succeeded" => jobState[j] = "succeeded"

LEMMA LessIsNat ==
    ASSUME NEW m \in Nat, NEW n \in Nat
    PROVE  Less(m, n) \in Nat
  BY DEF Less

LEMMA JobsInit == Init => JobsInv
  BY JobsAssumption DEF Init, JobsInv, TypeOK, JobState, Counted, ChainUnbroken, StageRan

(* A step that keeps every job enqueued and acknowledges none.             *)
LEMMA ChainKept ==
    ASSUME JobsInv, StaysEnqueued, NoneSucceeds
    PROVE  ChainUnbroken'
  BY JobsAssumption DEF JobsInv, ChainUnbroken, StaysEnqueued, NoneSucceeds

(* Workers that a step does not move keep what they know.                  *)
LEMMA OtherWorker ==
    ASSUME JobsInv, StaysEnqueued, NEW v \in Worker,
           held'[v] = held[v], phase'[v] = phase[v]
    PROVE  StageRan(v)'
  <1>1. StageRan(v) /\ TypeOK
    BY DEF JobsInv
  <1>2. phase[v] # "idle" => held[v] \in Job
    BY <1>1 DEF StageRan
  <1>3. CASE phase[v] = "done" /\ Child[held[v]] # NoJob
    <2>1. Child[held[v]] \in Job /\ jobState[Child[held[v]]] # "none"
      BY <1>1, <1>2, <1>3, JobsAssumption DEF StageRan
    <2>2. QED
      BY <1>2, <2>1 DEF StageRan, StaysEnqueued
  <1>4. CASE ~(phase[v] = "done" /\ Child[held[v]] # NoJob)
    BY <1>2, <1>4 DEF StageRan
  <1>5. QED
    BY <1>3, <1>4

LEMMA EnqueueInv ==
    ASSUME JobsInv, NEW j \in Job, Enqueue(j)
    PROVE  JobsInv'
  <1>1. TypeOK /\ UNCHANGED <<held, phase>>
    BY DEF JobsInv, Enqueue
  <1>2. TypeOK'
    BY <1>1 DEF Enqueue, TypeOK, JobState
  <1>3. StaysEnqueued /\ NoneSucceeds
    BY <1>1 DEF Enqueue, TypeOK, StaysEnqueued, NoneSucceeds
  <1>4. \A v \in Worker : StageRan(v)'
    BY <1>1, <1>3, OtherWorker
  <1>5. Counted'
    BY <1>1 DEF Enqueue, TypeOK, JobsInv, Counted
  <1>6. QED
    BY <1>2, <1>3, <1>4, <1>5, ChainKept DEF JobsInv

LEMMA ClaimInv ==
    ASSUME JobsInv, NEW w \in Worker, NEW j \in Job, NEW lag \in 0..MaxLag,
           Claim(w, j, lag)
    PROVE  JobsInv'
  <1>1. TypeOK /\ held[w] = NoJob
    BY DEF JobsInv, Claim
  <1>2. Less(LeaseTime, lag) \in Nat
    <2>1. LeaseTime \in Nat /\ lag \in Nat
      BY JobsAssumption
    <2>2. QED
      BY <2>1, LessIsNat
  <1>3. Smaller(attemptCount[j] + 1, MaxAttempts) \in 1..MaxAttempts
    <2>1. attemptCount[j] \in 0..MaxAttempts /\ MaxAttempts \in Nat \ {0}
      BY <1>1, JobsAssumption DEF TypeOK
    <2>2. QED
      BY <2>1 DEF Smaller
  <1>4. /\ jobState' = [jobState EXCEPT ![j] = "running"]
        /\ owner' = [owner EXCEPT ![j] = w]
        /\ held' = [held EXCEPT ![w] = j]
        /\ phase' = [phase EXCEPT ![w] = "working"]
    BY DEF Claim
  <1>5. TypeOK'
    <2>1. attemptCount' \in [Job -> 0..MaxAttempts] /\ leaseLeft' \in [Job -> Nat]
            /\ wait' \in [Job -> Nat]
      BY <1>1, <1>2, <1>3 DEF Claim, TypeOK
    <2>2. QED
      BY <1>1, <1>4, <2>1, JobsAssumption DEF TypeOK, JobState
  <1>6. StaysEnqueued /\ NoneSucceeds
    BY <1>1, <1>4 DEF TypeOK, StaysEnqueued, NoneSucceeds
  <1>7. ASSUME NEW v \in Worker PROVE StageRan(v)'
    <2>1. CASE v = w
      BY <1>1, <1>4, <2>1 DEF TypeOK, StageRan
    <2>2. CASE v # w
      BY <1>1, <1>4, <1>6, <2>2, OtherWorker DEF TypeOK
    <2>3. QED
      BY <2>1, <2>2
  <1>8. Counted'
    <2>1. attemptCount' = [attemptCount EXCEPT ![j] = Smaller(attemptCount[j] + 1, MaxAttempts)]
      BY DEF Claim
    <2>2. Smaller(attemptCount[j] + 1, MaxAttempts) > 0
      BY <1>3, JobsAssumption
    <2>3. QED
      BY <1>1, <1>4, <2>1, <2>2 DEF TypeOK, JobsInv, Counted
  <1>9. QED
    BY <1>5, <1>6, <1>7, <1>8, ChainKept DEF JobsInv

(* The stage enqueues its successor before it is done.                     *)
LEMMA RunStageInv ==
    ASSUME JobsInv, NEW w \in Worker, RunStage(w)
    PROVE  JobsInv'
  <1>1. TypeOK /\ held[w] \in Job /\ phase[w] = "working"
    BY DEF JobsInv, StageRan, RunStage
  <1>2. /\ held' = held /\ owner' = owner /\ wait' = wait
        /\ attemptCount' = attemptCount /\ leaseLeft' = leaseLeft
        /\ phase' = [phase EXCEPT ![w] = "done"]
    BY DEF RunStage
  <1>3. \A j \in Job : jobState'[j] = IF j = Child[held[w]] /\ jobState[j] = "none"
                                        THEN "pending" ELSE jobState[j]
    BY DEF RunStage
  <1>4. jobState' \in [Job -> JobState]
    <2>1. \A j \in Job : jobState[j] \in JobState
      BY <1>1 DEF TypeOK
    <2>2. QED
      BY <2>1 DEF RunStage, JobState
  <1>5. TypeOK'
    BY <1>1, <1>2, <1>3, <1>4 DEF TypeOK
  <1>6. StaysEnqueued /\ NoneSucceeds
    BY <1>3 DEF StaysEnqueued, NoneSucceeds
  <1>7. ASSUME NEW v \in Worker PROVE StageRan(v)'
    <2>1. CASE v = w
      <3>1. Child[held[w]] # NoJob => jobState'[Child[held[w]]] # "none"
        BY <1>1, <1>3, JobsAssumption
      <3>2. QED
        BY <1>1, <1>2, <2>1, <3>1 DEF StageRan
    <2>2. CASE v # w
      BY <1>1, <1>2, <1>6, <2>2, OtherWorker DEF TypeOK
    <2>3. QED
      BY <2>1, <2>2
  <1>8. Counted'
    BY <1>1, <1>2, <1>3 DEF JobsInv, Counted
  <1>9. QED
    BY <1>5, <1>6, <1>7, <1>8, ChainKept DEF JobsInv

(* A worker whose claim is over knows nothing any more.                    *)
LEMMA ReleaseWorkers ==
    ASSUME JobsInv, StaysEnqueued, NEW w \in Worker, Release(w)
    PROVE  \A v \in Worker : StageRan(v)'
  <1>1. TypeOK
    BY DEF JobsInv
  <1> SUFFICES ASSUME NEW v \in Worker PROVE StageRan(v)'
    OBVIOUS
  <1>2. CASE v = w
    BY <1>1, <1>2 DEF TypeOK, Release, StageRan
  <1>3. CASE v # w
    BY <1>1, <1>3, OtherWorker DEF TypeOK, Release
  <1>4. QED
    BY <1>2, <1>3

(* The end of an attempt; a success only after the stage ran.              *)
LEMMA FinishInv ==
    ASSUME JobsInv, NEW w \in Worker, NEW j \in Job, NEW s \in JobState \ {"none", "running"},
           Finish(w, j, s), wait' \in [Job -> Nat],
           s = "succeeded" => phase[w] = "done"
    PROVE  JobsInv'
  <1>1. TypeOK /\ held[w] = j /\ jobState[j] = "running"
    BY DEF JobsInv, Finish, Leased
  <1>2. /\ jobState' = [jobState EXCEPT ![j] = s]
        /\ owner' = [owner EXCEPT ![j] = NoWorker]
        /\ leaseLeft' = [leaseLeft EXCEPT ![j] = 0]
        /\ held' = [held EXCEPT ![w] = NoJob]
        /\ phase' = [phase EXCEPT ![w] = "idle"]
        /\ attemptCount' = attemptCount
    BY DEF Finish, Release
  <1>3. TypeOK'
    BY <1>1, <1>2 DEF TypeOK
  <1>4. StaysEnqueued
    BY <1>1, <1>2 DEF TypeOK, StaysEnqueued
  <1>5. ChainUnbroken'
    <2>1. s = "succeeded" /\ Child[j] # NoJob => jobState[Child[j]] # "none"
      BY <1>1 DEF JobsInv, StageRan
    <2>2. ASSUME NEW k \in Job, jobState'[k] = "succeeded", Child[k] # NoJob
          PROVE  jobState'[Child[k]] # "none"
      <3>1. Child[k] \in Job
        BY <2>2, JobsAssumption
      <3>2. jobState[Child[k]] # "none"
        <4>1. CASE k = j
          BY <1>1, <1>2, <2>1, <2>2, <4>1 DEF TypeOK
        <4>2. CASE k # j
          BY <1>1, <1>2, <2>2, <4>2 DEF TypeOK, JobsInv, ChainUnbroken
        <4>3. QED
          BY <4>1, <4>2
      <3>3. QED
        BY <1>4, <3>1, <3>2 DEF StaysEnqueued
    <2>3. QED
      BY <2>2 DEF ChainUnbroken
  <1>6. Release(w)
    BY DEF Finish
  <1>7. Counted'
    BY <1>1, <1>2 DEF TypeOK, JobsInv, Counted
  <1>8. QED
    BY <1>3, <1>4, <1>5, <1>6, <1>7, ReleaseWorkers DEF JobsInv

(* Everything a worker does with its claim but run the stage.              *)
LEMMA LetGoInv ==
    ASSUME JobsInv, NEW w \in Worker, Release(w), UNCHANGED jobVars
    PROVE  JobsInv'
  <1>1. TypeOK /\ UNCHANGED <<jobState, wait, attemptCount, owner, leaseLeft>>
    BY DEF JobsInv, jobVars
  <1>2. TypeOK'
    BY <1>1 DEF TypeOK, Release
  <1>3. StaysEnqueued /\ NoneSucceeds
    BY <1>1 DEF StaysEnqueued, NoneSucceeds
  <1>4. Counted'
    BY <1>1 DEF JobsInv, Counted
  <1>5. QED
    BY <1>2, <1>3, <1>4, ChainKept, ReleaseWorkers DEF JobsInv

LEMMA ContinueInv ==
    ASSUME JobsInv, NEW w \in Worker, Continue(w)
    PROVE  JobsInv'
  <1>1. TypeOK
    BY DEF JobsInv
  <1>2. CASE RunStage(w)
    BY <1>2, RunStageInv
  <1>3. CASE LoseLease(w)
    BY <1>3, LetGoInv DEF LoseLease
  <1>4. ASSUME NEW j \in Job, Succeed(w, j) PROVE JobsInv'
    <2>1. Finish(w, j, "succeeded") /\ phase[w] = "done" /\ wait' = wait
      BY <1>4 DEF Succeed
    <2>2. "succeeded" \in JobState \ {"none", "running"} /\ wait' \in [Job -> Nat]
      BY <1>1, <2>1 DEF JobState, TypeOK
    <2>3. QED
      BY <2>1, <2>2, FinishInv
  <1>5. ASSUME NEW j \in Job, NEW s \in {"dead_letter", "manual_review"},
               Finish(w, j, s), wait' = wait
        PROVE JobsInv'
    <2>1. s \in JobState \ {"none", "running"} /\ wait' \in [Job -> Nat]
      BY <1>1, <1>5 DEF JobState, TypeOK
    <2>2. s # "succeeded"
      BY <1>5
    <2>3. QED
      BY <1>5, <2>1, <2>2, FinishInv
  <1>6. ASSUME NEW j \in Job, NEW delay \in Nat, NEW lag \in 0..MaxLag,
               Finish(w, j, "retry_wait"),
               wait' = [wait EXCEPT ![j] = Less(delay, lag)]
        PROVE JobsInv'
    <2>1. Less(delay, lag) \in Nat
      <3>1. lag \in Nat
        BY JobsAssumption
      <3>2. QED
        BY <3>1, LessIsNat
    <2>2. "retry_wait" \in JobState \ {"none", "running"} /\ wait' \in [Job -> Nat]
      BY <1>1, <1>6, <2>1 DEF JobState, TypeOK
    <2>3. QED
      BY <1>6, <2>2, FinishInv
  <1>7. ASSUME NEW j \in Job, NEW lag \in 0..MaxLag, FailRetry(w, j, lag) PROVE JobsInv'
    <2>1. attemptCount[j] \in 1..MaxAttempts
      <3>1. attemptCount[j] \in 0..MaxAttempts /\ attemptCount[j] > 0
        BY <1>1, <1>7 DEF FailRetry, Finish, Leased, TypeOK, JobsInv, Counted
      <3>2. QED
        BY <3>1, JobsAssumption
    <2>2. RetryDelay[attemptCount[j]] \in Nat
      BY <2>1, JobsAssumption
    <2>3. QED
      BY <1>6, <1>7, <2>2 DEF FailRetry
  <1>8. ASSUME NEW j \in Job, NEW lag \in 0..MaxLag, Defer(w, j, lag) PROVE JobsInv'
    <2>1. DeferDelay \in Nat
      BY JobsAssumption
    <2>2. QED
      BY <1>6, <1>8, <2>1 DEF Defer
  <1>9. QED
    BY <1>2, <1>3, <1>4, <1>5, <1>7, <1>8 DEF Continue, FailDead, FailPermanent

(* reap_expired: expired jobs wait again, their workers are not told.      *)
LEMMA ReapInv ==
    ASSUME JobsInv, ReapExpired
    PROVE  JobsInv'
  <1>1. TypeOK /\ UNCHANGED <<attemptCount, leaseLeft, held, phase>>
    BY DEF JobsInv, ReapExpired
  <1>2. \A j \in Job : /\ jobState'[j] = IF j \in ExpiredJobs THEN "retry_wait" ELSE jobState[j]
                       /\ owner'[j] = IF j \in ExpiredJobs THEN NoWorker ELSE owner[j]
                       /\ wait'[j] = IF j \in ExpiredJobs THEN 0 ELSE wait[j]
    BY DEF ReapExpired
  <1>3. /\ jobState' \in [Job -> JobState] /\ owner' \in [Job -> Worker \cup {NoWorker}]
        /\ wait' \in [Job -> Nat]
    <2>1. \A j \in Job : /\ jobState[j] \in JobState /\ owner[j] \in Worker \cup {NoWorker}
                         /\ wait[j] \in Nat
      BY <1>1 DEF TypeOK
    <2>2. QED
      BY <2>1 DEF ReapExpired, JobState
  <1>4. \A j \in Job : jobState'[j] = "running" <=> owner'[j] # NoWorker
    BY <1>1, <1>2 DEF TypeOK
  <1>5. TypeOK'
    BY <1>1, <1>3, <1>4 DEF TypeOK
  <1>6. ExpiredJobs \subseteq {j \in Job : jobState[j] = "running"}
    BY DEF ExpiredJobs
  <1>7. StaysEnqueued /\ NoneSucceeds
    BY <1>2, <1>6 DEF StaysEnqueued, NoneSucceeds
  <1>8. Counted'
    BY <1>1, <1>2 DEF JobsInv, Counted
  <1>9. \A v \in Worker : StageRan(v)'
    BY <1>1, <1>7, OtherWorker
  <1>10. QED
    BY <1>5, <1>7, <1>8, <1>9, ChainKept DEF JobsInv

LEMMA TickInv ==
    ASSUME JobsInv, Tick
    PROVE  JobsInv'
  <1>1. TypeOK /\ UNCHANGED <<jobState, attemptCount, owner, held, phase>>
    BY DEF JobsInv, Tick
  <1>2. wait' \in [Job -> Nat] /\ leaseLeft' \in [Job -> Nat]
    <2>1. \A j \in Job : wait[j] \in Nat /\ leaseLeft[j] \in Nat
      BY <1>1 DEF TypeOK
    <2>2. \A j \in Job : Less(wait[j], 1) \in Nat /\ Less(leaseLeft[j], 1) \in Nat
      BY <2>1, LessIsNat
    <2>3. QED
      BY <2>2 DEF Tick
  <1>3. TypeOK'
    BY <1>1, <1>2 DEF TypeOK
  <1>4. QED
    BY <1>1, <1>3 DEF JobsInv, Counted, ChainUnbroken, StageRan

LEMMA JobsNextInv == JobsInv /\ [Next]_vars => JobsInv'
  <1> SUFFICES ASSUME JobsInv, [Next]_vars PROVE JobsInv'
    OBVIOUS
  <1>1. ASSUME NEW w \in Worker, Crash(w) PROVE JobsInv'
    BY <1>1, LetGoInv DEF Crash
  <1>2. CASE UNCHANGED vars
    BY <1>2 DEF vars, jobVars, JobsInv, TypeOK, Counted, ChainUnbroken, StageRan
  <1>3. QED
    BY <1>1, <1>2, EnqueueInv, ClaimInv, ContinueInv, ReapInv, TickInv
    DEF Next, ClaimSome

(* The inductive invariant of the workflow jobs.                           *)
THEOREM JobsInvariant == Spec => []JobsInv
  BY JobsInit, JobsNextInv, PTL DEF Spec

(* No stage is lost: an acknowledged job has its successor enqueued, for   *)
(* any graph of stages and whatever crashes and lost leases.               *)
THEOREM ChainUnbrokenAlways == Spec => []ChainUnbroken
  <1>1. JobsInv => ChainUnbroken
    BY DEF JobsInv
  <1>2. QED
    BY <1>1, JobsInvariant, PTL

(* No late acknowledgement, reaping or claim moves a settled job.          *)
THEOREM SettledIsFinalAlways == Spec => SettledIsFinal
  <1> DEFINE Kept == \A j \in Job : jobState[j] \in Settled => jobState'[j] = jobState[j]
  <1>1. ASSUME JobsInv, [Next]_vars PROVE Kept
    <2> SUFFICES ASSUME NEW k \in Job, jobState[k] \in Settled
                 PROVE  jobState'[k] = jobState[k]
      OBVIOUS
    <2>0. TypeOK /\ jobState[k] \notin {"none", "pending", "running", "retry_wait"}
      BY <1>1 DEF JobsInv, Settled
    <2>1. ASSUME NEW j \in Job, Enqueue(j) PROVE jobState'[k] = jobState[k]
      BY <2>0, <2>1 DEF Enqueue, TypeOK
    <2>2. ASSUME NEW w \in Worker, NEW j \in Job, NEW lag \in 0..MaxLag, Claim(w, j, lag)
          PROVE  jobState'[k] = jobState[k]
      BY <2>0, <2>2 DEF Claim, Claimable, TypeOK
    <2>3. ASSUME NEW w \in Worker, NEW j \in Job, NEW s, Finish(w, j, s)
          PROVE  jobState'[k] = jobState[k]
      BY <2>0, <2>3 DEF Finish, Leased, TypeOK
    <2>4. ASSUME NEW w \in Worker, Continue(w) PROVE jobState'[k] = jobState[k]
      <3>1. CASE RunStage(w)
        BY <2>0, <3>1 DEF RunStage
      <3>2. CASE LoseLease(w)
        BY <3>2 DEF LoseLease, jobVars
      <3>3. ASSUME NEW j \in Job, NEW lag, NEW s,
                   \/ Succeed(w, j) \/ FailDead(w, j) \/ FailRetry(w, j, lag)
                   \/ Defer(w, j, lag) \/ FailPermanent(w, j, s)
            PROVE  jobState'[k] = jobState[k]
        BY <2>3, <3>3 DEF Succeed, FailDead, FailRetry, Defer, FailPermanent
      <3>4. QED
        BY <2>4, <3>1, <3>2, <3>3 DEF Continue
    <2>5. ASSUME NEW w \in Worker, Crash(w) PROVE jobState'[k] = jobState[k]
      BY <2>5 DEF Crash, jobVars
    <2>6. CASE ReapExpired
      BY <2>0, <2>6 DEF ReapExpired, ExpiredJobs
    <2>7. CASE Tick \/ UNCHANGED vars
      BY <2>7 DEF Tick, vars, jobVars
    <2>8. QED
      BY <1>1, <2>1, <2>2, <2>4, <2>5, <2>6, <2>7 DEF Next, ClaimSome
  <1>2. JobsInv /\ [Next]_vars => Kept
    BY <1>1
  <1>3. QED
    BY <1>2, JobsInvariant, PTL DEF Spec, SettledIsFinal

-----------------------------------------------------------------------------
(* The abstract status of one job.                                         *)
LEMMA StatusOf ==
    ASSUME NEW j \in Job
    PROVE  WorkStatus[j] = CASE jobState[j] = "none" -> "absent"
                             [] jobState[j] \in {"pending", "retry_wait"} -> "waiting"
                             [] jobState[j] = "running" -> "held"
                             [] OTHER -> "done"
  BY DEF WorkStatus

(* A step that moves one job moves its abstract status only.               *)
LEMMA StatusMoves ==
    ASSUME TypeOK, NEW j \in Job, NEW s \in JobState,
           jobState' = [jobState EXCEPT ![j] = s],
           NEW a, a = CASE s = "none" -> "absent"
                        [] s \in {"pending", "retry_wait"} -> "waiting"
                        [] s = "running" -> "held"
                        [] OTHER -> "done"
    PROVE  WorkStatus' = [WorkStatus EXCEPT ![j] = a]
  <1>1. jobState'[j] = s /\ \A k \in Job \ {j} : jobState'[k] = jobState[k]
    BY DEF TypeOK
  <1>2. QED
    BY <1>1 DEF WorkStatus

(* The end of an attempt: the holder lets its job go.                      *)
LEMMA FinishLetsGo ==
    ASSUME JobsInv, NEW w \in Worker, NEW j \in Job,
           NEW s \in {"retry_wait", "succeeded", "dead_letter", "manual_review"},
           Finish(w, j, s)
    PROVE  Work!WorkNext
  <1> DEFINE a == IF s = "retry_wait" THEN "waiting" ELSE "done"
  <1>1. TypeOK /\ s \in JobState
    BY DEF JobsInv, JobState
  <1>2. WorkStatus' = [WorkStatus EXCEPT ![j] = a]
    BY <1>1, StatusMoves DEF Finish
  <1>3. WorkStatus[j] = "held"
    BY StatusOf DEF Finish, Leased
  <1>4. Work!LetGo(w, j, a)
    BY <1>2, <1>3 DEF Work!LetGo, Finish, Leased, Release
  <1>5. a \in {"waiting", "done"}
    OBVIOUS
  <1>6. QED
    BY <1>4, <1>5 DEF Work!WorkNext

(* The job queue implements leased work, for any jobs, stages and workers  *)
(* and any number of crashes, deferrals and leases that run out: the       *)
(* abstract specification knows only who holds what.                       *)
THEOREM JobsImplementLeasedWork == Spec => JobsAreLeasedWork
  <1>1. Init => Work!WorkInit
    BY DEF Init, Work!WorkInit, WorkStatus
  <1>2. ASSUME JobsInv, [Next]_vars PROVE [Work!WorkNext]_(Work!workVars)
    <2>0. TypeOK
      BY <1>2 DEF JobsInv
    <2>1. ASSUME NEW j \in Job, Enqueue(j) PROVE Work!WorkNext
      <3>1. WorkStatus' = [WorkStatus EXCEPT ![j] = "waiting"]
        BY <2>0, <2>1, StatusMoves DEF Enqueue, JobState
      <3>2. WorkStatus[j] = "absent"
        BY <2>1, StatusOf DEF Enqueue
      <3>3. QED
        BY <2>1, <3>1, <3>2 DEF Work!WorkNext, Work!Offer, Enqueue
    <2>2. ASSUME NEW w \in Worker, NEW j \in Job, NEW lag \in 0..MaxLag, Claim(w, j, lag)
          PROVE  Work!WorkNext
      <3>1. WorkStatus' = [WorkStatus EXCEPT ![j] = "held"]
        BY <2>0, <2>2, StatusMoves DEF Claim, JobState
      <3>2. WorkStatus[j] = "waiting"
        BY <2>2, StatusOf DEF Claim, Claimable
      <3>3. Work!Take(w, j)
        BY <2>2, <3>1, <3>2 DEF Work!Take, Claim
      <3>4. QED
        BY <3>3 DEF Work!WorkNext
    <2>3. ASSUME NEW w \in Worker, RunStage(w) PROVE [Work!WorkNext]_(Work!workVars)
      <3>1. held[w] \in Job
        BY <1>2, <2>3 DEF RunStage, JobsInv, StageRan
      <3> DEFINE c == Child[held[w]]
      <3>2. CASE c \in Job /\ jobState[c] = "none"
        <4>1. jobState' = [jobState EXCEPT ![c] = "pending"]
          BY <2>0, <2>3, <3>2 DEF RunStage, TypeOK
        <4>2. WorkStatus' = [WorkStatus EXCEPT ![c] = "waiting"]
          BY <2>0, <3>2, <4>1, StatusMoves DEF JobState
        <4>3. WorkStatus[c] = "absent"
          BY <3>2, StatusOf
        <4>4. Work!Offer(c)
          BY <2>3, <4>2, <4>3 DEF Work!Offer, RunStage
        <4>5. QED
          BY <3>2, <4>4 DEF Work!WorkNext
      <3>3. CASE ~(c \in Job /\ jobState[c] = "none")
        <4>1. jobState' = jobState
          BY <2>0, <2>3, <3>3 DEF RunStage, TypeOK
        <4>2. QED
          BY <2>3, <4>1 DEF RunStage, WorkStatus, Work!workVars
      <3>4. QED
        BY <3>2, <3>3
    <2>4. ASSUME NEW w \in Worker, LoseLease(w) \/ Crash(w) PROVE Work!WorkNext
      <3>1. Work!Forget(w)
        BY <2>4 DEF LoseLease, Crash, Release, jobVars, Work!Forget, WorkStatus
      <3>2. QED
        BY <3>1 DEF Work!WorkNext
    <2>5. ASSUME NEW w \in Worker, Continue(w) PROVE [Work!WorkNext]_(Work!workVars)
      <3>1. ASSUME NEW j \in Job, NEW lag, NEW s \in {"dead_letter", "manual_review"},
                   \/ Succeed(w, j) \/ FailDead(w, j) \/ FailRetry(w, j, lag)
                   \/ Defer(w, j, lag) \/ FailPermanent(w, j, s)
            PROVE  Work!WorkNext
        BY <1>2, <3>1, FinishLetsGo
        DEF Succeed, FailDead, FailRetry, Defer, FailPermanent
      <3>2. QED
        BY <2>3, <2>4, <2>5, <3>1 DEF Continue
    <2>6. CASE ReapExpired
      <3>1. \A j \in ExpiredJobs : WorkStatus[j] = "held"
        BY StatusOf DEF ExpiredJobs
      <3>2. WorkStatus' = [j \in Job |-> IF j \in ExpiredJobs THEN "waiting"
                                                           ELSE WorkStatus[j]]
        BY <2>0, <2>6 DEF ReapExpired, WorkStatus, TypeOK
      <3>3. Work!Reclaim(ExpiredJobs)
        BY <2>6, <3>1, <3>2 DEF Work!Reclaim, ReapExpired
      <3>4. ExpiredJobs \in SUBSET Job
        BY DEF ExpiredJobs
      <3>5. QED
        BY <3>3, <3>4 DEF Work!WorkNext
    <2>7. CASE Tick \/ UNCHANGED vars
      BY <2>7 DEF Tick, vars, jobVars, Work!workVars, WorkStatus
    <2>8. QED
      BY <1>2, <2>1, <2>2, <2>4, <2>5, <2>6, <2>7 DEF Next, ClaimSome
  <1>3. QED
    BY <1>1, <1>2, JobsInvariant, PTL DEF Spec, JobsAreLeasedWork, Work!WorkSpec

-----------------------------------------------------------------------------
(* The stages.                                                             *)

(* What the evaluations of a slate have in common with its report.         *)
SlateTrue(slate, period, version) ==
    /\ slate \subseteq evaluations
    /\ \A e \in slate : /\ e.version = version /\ e.at <= period
                        /\ \A f \in slate : CandidateOf[e.item] = CandidateOf[f.item]
                                                => e = f

(* The facts a running stage builds on are there.                          *)
FactsFollow(h) ==
    /\ h.key[1] \in {"enrich", "match"} => facts[h.key[2]] # "none"
    /\ h.key[1] = "normalize" /\ (h.phase = "written" \/ ~h.read.new)
          => facts[h.key[2]] # "none"

(* What a stage is about to write is true of what it read, whatever other  *)
(* workers wrote since.                                                    *)
OutputFollows(h) ==
    LET output == h.read.output
    IN  h.read.new =>
          /\ h.key[1] = "normalize" => output \in {"page", "alert"}
          /\ h.key[1] = "match" =>
                output.item = h.key[2] /\ output.from = facts[h.key[2]]
          /\ h.key[1] = "report" =>
                /\ output.period = h.key[2]
                /\ SlateTrue(output.slate, output.period, output.version)

HeldTrue(h) ==
    /\ h.key \in StageKey
    /\ h = [key |-> h.key, at |-> h.at, phase |-> h.phase, read |-> h.read]
    /\ FactsFollow(h) /\ OutputFollows(h)

StagesTrue ==
    /\ stage = [w \in Stager |-> stage[w]]
    /\ \A w \in Stager : Resting(w) \/ HeldTrue(stage[w])

(* Enriching and matching are asked for only of items with facts.          *)
JobsFollowFacts ==
    \A k \in StageKey :
        k[1] \in {"enrich", "match"} /\ job[k] # "none" => facts[k[2]] # "none"

EvaluationsTrue ==
    \A e \in evaluations : e.item \in Item /\ e.from = facts[e.item] /\ e.from # "none"

DraftsTrue ==
    /\ \A d \in drafts : SlateTrue(d.slate, d.period, d.version)
    /\ \A d, e \in drafts : d.period = e.period /\ d.version = e.version => d = e

HandedOver ==
    /\ handed = [p \in ReportPeriod |-> handed[p]]
    /\ \A p \in ReportPeriod : \/ handed[p] = NotHanded
                               \/ handed[p] \in drafts /\ handed[p].period = p

StageRowsTyped ==
    /\ stageClock \in 0..StageHorizon
    /\ items \subseteq Item /\ IsFiniteSet(items)
    /\ approved \subseteq Version
    /\ job \in [StageKey -> {"none", "open", "done", "review", "dead"}]
    /\ scrape \in [Item -> {"none", "pending", "failed", "outcome"}]
    /\ facts \in [Item -> {"none", "page", "alert"}]
    /\ stops \in 0..MaxEvents

StageInductive ==
    /\ StageRowsTyped /\ EvaluationsTrue /\ DraftsTrue
    /\ JobsFollowFacts /\ StagesTrue /\ HandedOver

FactsKept == \A s \in Item : facts[s] # "none" => facts'[s] = facts[s]
Later == {"enrich", "match"}

LEMMA KeyKinds ==
    ASSUME NEW k \in StageKey
    PROVE  /\ k[1] \in {"normalize", "enrich", "match", "report"}
           /\ k[1] \in {"normalize", "enrich"} => k[2] \in Item /\ k = <<k[1], k[2]>>
           /\ k[1] = "match" => /\ k[2] \in Item /\ k[3] \in Version
                                /\ k = <<"match", k[2], k[3]>>
           /\ k[1] = "report" => k[2] \in ReportPeriod /\ k = <<"report", k[2]>>
  <1>1. CASE k \in {"normalize", "enrich"} \X Item
    BY <1>1
  <1>2. CASE k \in {"match"} \X Item \X Version
    BY <1>2
  <1>3. CASE k \in {"report"} \X ReportPeriod
    BY <1>3
  <1>4. QED
    BY <1>1, <1>2, <1>3 DEF StageKey

LEMMA KeysBuilt ==
    /\ \A s \in Item : <<"normalize", s>> \in StageKey /\ <<"enrich", s>> \in StageKey
    /\ \A s \in Item, v \in Version : <<"match", s, v>> \in StageKey
    /\ \A p \in ReportPeriod : <<"report", p>> \in StageKey
  BY DEF StageKey

LEMMA StageInitInductive == StageInit => StageInductive
  <1> SUFFICES ASSUME StageInit PROVE StageInductive
    OBVIOUS
  <1>1. StageRowsTyped
    BY StageAssumption, FS_EmptySet DEF StageInit, StageRowsTyped
  <1>2. EvaluationsTrue /\ DraftsTrue /\ JobsFollowFacts
    BY DEF StageInit, EvaluationsTrue, DraftsTrue, JobsFollowFacts
  <1>3. StagesTrue /\ HandedOver
    BY DEF StageInit, StagesTrue, HandedOver, Resting
  <1>4. QED
    BY <1>1, <1>2, <1>3 DEF StageInductive

(* What a worker holds stays true while others write.                      *)
LEMMA HeldStays ==
    ASSUME NEW v \in Stager, HeldTrue(stage[v]), stage'[v] = stage[v],
           FactsKept, evaluations \subseteq evaluations'
    PROVE  HeldTrue(stage[v])'
  <1> DEFINE h == stage[v]
  <1>1. /\ h.key \in StageKey /\ FactsFollow(h) /\ OutputFollows(h)
        /\ h = [key |-> h.key, at |-> h.at, phase |-> h.phase, read |-> h.read]
    BY DEF HeldTrue
  <1>2. h.key[1] \in {"normalize", "enrich", "match"} => h.key[2] \in Item
    BY <1>1, KeyKinds
  <1>3. stage'[v] = h
    OBVIOUS
  <1> HIDE DEF h
  <1>4. FactsFollow(stage[v])'
    BY <1>1, <1>2, <1>3 DEF FactsFollow, FactsKept
  <1>5. OutputFollows(stage[v])'
    BY <1>1, <1>2, <1>3 DEF FactsFollow, OutputFollows, SlateTrue, FactsKept
  <1>6. QED
    BY <1>1, <1>3, <1>4, <1>5 DEF HeldTrue, StageKey

LEMMA StagesUntouched ==
    ASSUME StagesTrue, UNCHANGED stage, FactsKept, evaluations \subseteq evaluations'
    PROVE  StagesTrue'
  BY HeldStays DEF StagesTrue, Resting, NoStage

(* A worker begins, goes on or ends.                                       *)
LEMMA StageMoves ==
    ASSUME StagesTrue, NEW w \in Stager, FactsKept, evaluations \subseteq evaluations',
           \A v \in Stager \ {w} : stage'[v] = stage[v],
           stage' = [v \in Stager |-> stage'[v]],
           stage'[w] = NoStage \/ HeldTrue(stage[w])'
    PROVE  StagesTrue'
  <1> SUFFICES ASSUME NEW v \in Stager
               PROVE  Resting(v)' \/ HeldTrue(stage[v])'
    BY DEF StagesTrue
  <1>1. CASE v = w
    BY <1>1 DEF Resting, NoStage
  <1>2. CASE v # w
    BY <1>2, HeldStays DEF StagesTrue, Resting, NoStage
  <1>3. QED
    BY <1>1, <1>2

LEMMA JobsMove ==
    ASSUME JobsFollowFacts, FactsKept,
           \A k \in StageKey : job'[k] # "none" =>
               job[k] # "none" \/ (k[1] \in Later => facts[k[2]] # "none")
    PROVE  JobsFollowFacts'
  BY KeyKinds DEF JobsFollowFacts, FactsKept, Later, StageKey

LEMMA OutputsUntouched ==
    ASSUME EvaluationsTrue, DraftsTrue, UNCHANGED <<facts, evaluations, drafts>>
    PROVE  EvaluationsTrue' /\ DraftsTrue'
  BY DEF EvaluationsTrue, DraftsTrue, SlateTrue

LEMMA HandedUntouched ==
    ASSUME HandedOver, UNCHANGED handed, drafts \subseteq drafts'
    PROVE  HandedOver'
  BY DEF HandedOver, NotHanded

(* Everything but the jobs stays.                                          *)
LEMMA JobsOnly ==
    ASSUME StageInductive, job' \in [StageKey -> {"none", "open", "done", "review", "dead"}],
           \A k \in StageKey : job'[k] # "none" =>
               job[k] # "none" \/ (k[1] \in Later => facts[k[2]] # "none"),
           UNCHANGED <<facts, evaluations, drafts>>
    PROVE  EvaluationsTrue' /\ DraftsTrue' /\ JobsFollowFacts' /\ FactsKept
  <1>1. EvaluationsTrue /\ DraftsTrue /\ JobsFollowFacts /\ FactsKept
    BY DEF StageInductive, FactsKept
  <1>2. QED
    BY <1>1, OutputsUntouched, JobsMove

LEMMA EnqueuedFacts ==
    ASSUME StageRowsTyped, NEW keys
    PROVE  /\ Enqueued(keys) \in [StageKey -> {"none", "open", "done", "review", "dead"}]
           /\ \A k \in StageKey : /\ Enqueued(keys)[k] # "none" => job[k] # "none" \/ k \in keys
                                  /\ job[k] # "none" => Enqueued(keys)[k] = job[k]
  BY DEF Enqueued, StageRowsTyped

LEMMA MissingFollowFacts ==
    \A k \in MissingStages : k[1] \in Later => facts[k[2]] # "none"
  <1> SUFFICES ASSUME NEW s \in items, MissingStage(s)[1] \in Later
               PROVE  facts[MissingStage(s)[2]] # "none"
    BY DEF MissingStages
  <1>1. CASE facts[s] = "none"
    <2>1. MissingStage(s) = <<"normalize", s>>
      BY <1>1 DEF MissingStage
    <2>2. QED
      BY <2>1 DEF Later
  <1>2. CASE facts[s] # "none" /\ ActiveVersion = 0
    <2>1. MissingStage(s) = <<"enrich", s>>
      BY <1>2 DEF MissingStage
    <2>2. QED
      BY <1>2, <2>1
  <1>3. CASE facts[s] # "none" /\ ActiveVersion # 0
    <2>1. MissingStage(s) = <<"match", s, ActiveVersion>>
      BY <1>3 DEF MissingStage, MatchKey
    <2>2. QED
      BY <1>3, <2>1
  <1>4. QED
    BY <1>1, <1>2, <1>3

LEMMA ReconcileKeeps ==
    ASSUME StageInductive, Reconcile
    PROVE  StageInductive'
  <1>1. /\ job' = Enqueued(MissingStages)
        /\ UNCHANGED <<stageClock, items, approved, scrape, facts, evaluations,
                       drafts, handed, stage, stops>>
        /\ StageRowsTyped /\ StagesTrue /\ HandedOver
    BY DEF Reconcile, StageInductive
  <1>2. /\ job' \in [StageKey -> {"none", "open", "done", "review", "dead"}]
        /\ \A k \in StageKey : job'[k] # "none" =>
               job[k] # "none" \/ (k[1] \in Later => facts[k[2]] # "none")
    BY <1>1, EnqueuedFacts, MissingFollowFacts
  <1>3. StageRowsTyped'
    BY <1>1, <1>2 DEF StageRowsTyped, StageKey
  <1>4. EvaluationsTrue' /\ DraftsTrue' /\ JobsFollowFacts' /\ FactsKept
    BY <1>1, <1>2, JobsOnly
  <1>5. StagesTrue' /\ HandedOver'
    BY <1>1, <1>4, StagesUntouched, HandedUntouched
  <1>6. QED
    BY <1>3, <1>4, <1>5 DEF StageInductive

LEMMA ScheduleKeeps ==
    ASSUME StageInductive, Schedule
    PROVE  StageInductive'
  <1>1. /\ UNCHANGED <<stageClock, items, approved, scrape, facts, evaluations,
                       drafts, stage, stops>>
        /\ StageRowsTyped /\ StagesTrue /\ HandedOver
    BY DEF Schedule, StageInductive
  <1>2. PICK keys : /\ keys \subseteq MissingStages \cup {<<"report", LatestDue>>}
                    /\ job' = Enqueued(keys)
    BY DEF Schedule
  <1>3. \A k \in keys : k[1] \in Later => facts[k[2]] # "none"
    BY <1>2, MissingFollowFacts DEF Later
  <1>4. /\ job' \in [StageKey -> {"none", "open", "done", "review", "dead"}]
        /\ \A k \in StageKey : job'[k] # "none" =>
               job[k] # "none" \/ (k[1] \in Later => facts[k[2]] # "none")
    BY <1>1, <1>2, <1>3, EnqueuedFacts
  <1>5. StageRowsTyped'
    BY <1>1, <1>4 DEF StageRowsTyped, StageKey
  <1>6. EvaluationsTrue' /\ DraftsTrue' /\ JobsFollowFacts' /\ FactsKept
    BY <1>1, <1>4, JobsOnly
  <1>7. HandedOver'
    <2>1. \/ UNCHANGED handed
          \/ \E d \in drafts : /\ d.period = LatestDue
                               /\ handed' = [handed EXCEPT ![LatestDue] = d]
      BY DEF Schedule, ReadyFor
    <2>2. CASE UNCHANGED handed
      BY <1>1, <2>2, HandedUntouched
    <2>3. CASE \E d \in drafts : /\ d.period = LatestDue
                                 /\ handed' = [handed EXCEPT ![LatestDue] = d]
      BY <1>1, <2>3 DEF HandedOver, NotHanded
    <2>4. QED
      BY <2>1, <2>2, <2>3
  <1>8. StagesTrue'
    BY <1>1, <1>6, StagesUntouched
  <1>9. QED
    BY <1>5, <1>6, <1>7, <1>8 DEF StageInductive

LEMMA StopsBounded ==
    ASSUME StageRowsTyped, EventsLeft
    PROVE  stops + 1 \in 0..MaxEvents
  <1>1. IsFiniteSet(items) /\ IsFiniteSet(approved)
    <2>1. MaxVersion \in Nat /\ approved \in SUBSET (1..MaxVersion)
      BY StageAssumption DEF StageRowsTyped, Version
    <2>2. IsFiniteSet(1..MaxVersion)
      BY <2>1, FS_Interval
    <2>3. QED
      BY <2>1, <2>2, FS_Subset DEF StageRowsTyped
  <1>2. Cardinality(items) \in Nat /\ Cardinality(approved) \in Nat
    BY <1>1, FS_CardinalityType
  <1>3. QED
    BY <1>2, StageAssumption DEF EventsLeft, StageRowsTyped

LEMMA BeginKeeps ==
    ASSUME StageInductive, NEW w \in Stager, NEW k \in StageKey, NEW read,
           BeginStage(w, k, read),
           FactsFollow([key |-> k, at |-> stageClock, phase |-> "read", read |-> read]),
           OutputFollows([key |-> k, at |-> stageClock, phase |-> "read", read |-> read])
    PROVE  StageInductive'
  <1> DEFINE h == [key |-> k, at |-> stageClock, phase |-> "read", read |-> read]
  <1>1. /\ stage' = [stage EXCEPT ![w] = h] /\ Claims(w, k)
        /\ UNCHANGED <<stageClock, items, approved, job, scrape, facts, evaluations,
                       drafts, handed>>
        /\ StageRowsTyped /\ StagesTrue /\ HandedOver
        /\ EvaluationsTrue /\ DraftsTrue /\ JobsFollowFacts
    BY DEF BeginStage, StageInductive
  <1>2. HeldTrue(h)
    BY DEF HeldTrue
  <1> HIDE DEF h
  <1>3. StageRowsTyped'
    <2>1. stops' \in 0..MaxEvents
      BY <1>1, StopsBounded DEF Claims, StageRowsTyped
    <2>2. QED
      BY <1>1, <2>1 DEF StageRowsTyped, StageKey
  <1>4. /\ stage'[w] = h /\ \A v \in Stager \ {w} : stage'[v] = stage[v]
        /\ stage' = [v \in Stager |-> stage'[v]]
    BY <1>1 DEF StagesTrue
  <1>5. HeldTrue(stage[w])'
    BY <1>1, <1>2, <1>4 DEF HeldTrue, FactsFollow, OutputFollows, SlateTrue, StageKey
  <1>6. FactsKept
    BY <1>1 DEF FactsKept
  <1>7. StagesTrue'
    BY <1>1, <1>4, <1>5, <1>6, StageMoves
  <1>8. EvaluationsTrue' /\ DraftsTrue' /\ HandedOver'
    BY <1>1, OutputsUntouched, HandedUntouched
  <1>9. JobsFollowFacts'
    BY <1>1, <1>6, JobsMove
  <1>10. QED
    BY <1>3, <1>7, <1>8, <1>9 DEF StageInductive

LEMMA BeginNormalizeKeeps ==
    ASSUME StageInductive, NEW w \in Stager, NEW s \in Item, BeginNormalize(w, s)
    PROVE  StageInductive'
  <1> DEFINE k == <<"normalize", s>>
             read == [new |-> facts[s] = "none", output |-> PageOf(s)]
             h == [key |-> k, at |-> stageClock, phase |-> "read", read |-> read]
  <1>1. BeginStage(w, k, read) /\ k \in StageKey
    BY KeysBuilt DEF BeginNormalize
  <1>2. read.new = (facts[s] = "none") /\ read.output = PageOf(s)
    BY Zenon
  <1>3. PageOf(s) \in {"page", "alert"}
    BY DEF PageOf
  <1>4. h.key = k /\ h.read = read /\ h.phase = "read" /\ k[1] = "normalize" /\ k[2] = s
    OBVIOUS
  <1> HIDE DEF read
  <1>5. FactsFollow(h)
    BY <1>2, <1>4 DEF FactsFollow
  <1>6. OutputFollows(h)
    BY <1>2, <1>3, <1>4 DEF OutputFollows
  <1>7. QED
    BY <1>1, <1>5, <1>6, BeginKeeps

LEMMA OpenFollowsFacts ==
    ASSUME StageInductive, NEW k \in StageKey, job[k] = "open", k[1] \in Later
    PROVE  facts[k[2]] # "none"
  BY DEF StageInductive, JobsFollowFacts, Later

LEMMA BeginEnrichKeeps ==
    ASSUME StageInductive, NEW w \in Stager, NEW s \in Item, BeginEnrich(w, s)
    PROVE  StageInductive'
  <1> DEFINE k == <<"enrich", s>>
             read == [new |-> FALSE, output |-> ActiveVersion]
             h == [key |-> k, at |-> stageClock, phase |-> "read", read |-> read]
  <1>1. BeginStage(w, k, read) /\ k \in StageKey /\ job[k] = "open"
    BY KeysBuilt DEF BeginEnrich, Accepts
  <1>2. facts[s] # "none"
    BY <1>1, OpenFollowsFacts DEF Later
  <1>3. ~h.read.new /\ h.key = k
    OBVIOUS
  <1>4. FactsFollow(h) /\ OutputFollows(h)
    BY <1>2, <1>3 DEF FactsFollow, OutputFollows
  <1> HIDE DEF read
  <1>5. QED
    BY <1>1, <1>4, BeginKeeps

LEMMA BeginMatchKeeps ==
    ASSUME StageInductive, NEW w \in Stager, NEW s \in Item, NEW v \in Version,
           BeginMatch(w, s, v)
    PROVE  StageInductive'
  <1> DEFINE k == <<"match", s, v>>
             output == [item |-> s, version |-> v, at |-> stageClock, from |-> facts[s]]
             read == [new |-> ~\E e \in evaluations : e.item = s /\ e.version = v,
                      output |-> output]
             h == [key |-> k, at |-> stageClock, phase |-> "read", read |-> read]
  <1>1. BeginStage(w, k, read) /\ k \in StageKey /\ job[k] = "open"
    BY KeysBuilt DEF BeginMatch, Accepts
  <1>2. facts[s] # "none"
    BY <1>1, OpenFollowsFacts DEF Later
  <1>3. read.output = output /\ output.item = s /\ output.from = facts[s]
    OBVIOUS
  <1> HIDE DEF read
  <1>4. h.read = read /\ h.key = k /\ k[1] = "match" /\ k[2] = s
    OBVIOUS
  <1>5. FactsFollow(h) /\ OutputFollows(h)
    BY <1>2, <1>3, <1>4 DEF FactsFollow, OutputFollows
  <1>6. QED
    BY <1>1, <1>5, BeginKeeps

LEMMA BeginReportKeeps ==
    ASSUME StageInductive, NEW w \in Stager, NEW p \in ReportPeriod, BeginReport(w, p)
    PROVE  StageInductive'
  <1> DEFINE Reports(slate) ==
               BeginStage(w, <<"report", p>>,
                 [new |-> ~\E d \in drafts : d.period = p /\ d.version = ActiveVersion,
                  output |-> [period |-> p, version |-> ActiveVersion, slate |-> slate,
                              prepared |-> stageClock]])
             Left(rated) == {e \in Usable(p) : e.item \notin rated}
             Slates(newest) == {chosen \in SUBSET newest : Cardinality(chosen) <= SlateLimit}
  <1>1. PICK rated \in SUBSET Item :
            \E newest \in NewestEach(Left(rated)) : \E slate \in Slates(newest) : Reports(slate)
    BY DEF BeginReport
  <1>2. PICK newest \in NewestEach(Left(rated)) : \E slate \in Slates(newest) : Reports(slate)
    BY <1>1
  <1>3. PICK slate \in Slates(newest) : Reports(slate)
    BY <1>2
  <1> DEFINE k == <<"report", p>>
             output == [period |-> p, version |-> ActiveVersion, slate |-> slate,
                        prepared |-> stageClock]
             read == [new |-> ~\E d \in drafts : d.period = p /\ d.version = ActiveVersion,
                      output |-> output]
             h == [key |-> k, at |-> stageClock, phase |-> "read", read |-> read]
  <1>4. BeginStage(w, k, read) /\ k \in StageKey
    BY <1>3, KeysBuilt
  <1>5. SlateTrue(slate, p, ActiveVersion)
    <2>1. slate \subseteq newest /\ newest \subseteq Usable(p)
      BY <1>3 DEF NewestEach
    <2>2. \A e, f \in newest : CandidateOf[e.item] = CandidateOf[f.item] => e = f
      BY <1>3 DEF NewestEach
    <2>3. \A e \in Usable(p) : e \in evaluations /\ e.version = ActiveVersion /\ e.at <= p
      BY DEF Usable, InTime
    <2>4. QED
      BY <2>1, <2>2, <2>3 DEF SlateTrue
  <1>6. /\ output.period = p /\ output.version = ActiveVersion /\ output.slate = slate
        /\ read.output = output
    OBVIOUS
  <1> HIDE DEF read, output
  <1>7. h.read = read /\ h.key = k /\ k[1] = "report" /\ k[2] = p
    OBVIOUS
  <1>8. FactsFollow(h) /\ OutputFollows(h)
    BY <1>5, <1>6, <1>7 DEF FactsFollow, OutputFollows
  <1>9. QED
    BY <1>4, <1>8, BeginKeeps

LEMMA AwaitScrapeKeeps ==
    ASSUME StageInductive, NEW s \in Item,
           AwaitScrape(s) \/ \E state \in {"failed", "outcome"} : ScrapeEnds(s, state)
    PROVE  StageInductive'
  <1>1. /\ \E state \in {"pending", "failed", "outcome"} :
              scrape' = [scrape EXCEPT ![s] = state]
        /\ UNCHANGED <<stageClock, items, approved, job, facts, evaluations, drafts,
                       handed, stage, stops>>
    BY DEF AwaitScrape, ScrapeEnds
  <1>2. StageRowsTyped'
    BY <1>1 DEF StageInductive, StageRowsTyped, StageKey
  <1>3. FactsKept
    BY <1>1 DEF FactsKept
  <1>4. QED
    BY <1>1, <1>2, <1>3, OutputsUntouched, JobsMove, StagesUntouched, HandedUntouched
    DEF StageInductive

(* A job settles, and a worker lets go of it or had not begun it.          *)
LEMMA SettleKeeps ==
    ASSUME StageInductive, NEW w \in Stager, NEW k \in StageKey, job[k] = "open",
           NEW state \in {"review", "dead"}, SettleJob(k, state)
    PROVE  /\ job' \in [StageKey -> {"none", "open", "done", "review", "dead"}]
           /\ \A n \in StageKey : job'[n] # "none" => job[n] # "none"
  BY DEF SettleJob, StageInductive, StageRowsTyped

LEMMA LetGoKeeps ==
    ASSUME StageInductive, NEW w \in Stager,
           UNCHANGED <<stageClock, items, approved, scrape, facts, evaluations,
                       drafts, handed>>,
           UNCHANGED stage \/ stage' = [stage EXCEPT ![w] = NoStage],
           stops' \in 0..MaxEvents,
           job' \in [StageKey -> {"none", "open", "done", "review", "dead"}],
           \A k \in StageKey : job'[k] # "none" =>
               job[k] # "none" \/ (k[1] \in Later => facts[k[2]] # "none")
    PROVE  StageInductive'
  <1>1. StageRowsTyped /\ StagesTrue /\ HandedOver
    BY DEF StageInductive
  <1>2. StageRowsTyped'
    BY <1>1 DEF StageRowsTyped, StageKey
  <1>3. EvaluationsTrue' /\ DraftsTrue' /\ JobsFollowFacts' /\ FactsKept
    BY JobsOnly
  <1>4. StagesTrue'
    <2>1. CASE UNCHANGED stage
      BY <1>1, <1>3, <2>1, StagesUntouched
    <2>2. CASE stage' = [stage EXCEPT ![w] = NoStage]
      <3>1. /\ stage'[w] = NoStage /\ \A v \in Stager \ {w} : stage'[v] = stage[v]
            /\ stage' = [v \in Stager |-> stage'[v]]
        BY <1>1, <2>2 DEF StagesTrue
      <3>2. QED
        BY <1>1, <1>3, <3>1, StageMoves
    <2>3. QED
      BY <2>1, <2>2
  <1>5. HandedOver'
    BY <1>1, HandedUntouched
  <1>6. QED
    BY <1>2, <1>3, <1>4, <1>5 DEF StageInductive

LEMMA RefusalKinds == \A k \in StageKey : Refusal(k) \in {"none", "review", "dead"}
  <1> SUFFICES ASSUME NEW k \in StageKey
               PROVE  Refusal(k) \in {"none", "review", "dead"}
    OBVIOUS
  <1>1. CASE k[1] = "normalize"
    BY <1>1 DEF Refusal
  <1>2. CASE k[1] # "normalize" /\ ActiveVersion = 0
    BY <1>2 DEF Refusal
  <1>3. CASE k[1] = "match" /\ ActiveVersion \notin {0, k[Len(k)]}
    BY <1>3 DEF Refusal
  <1>4. CASE ~ \/ k[1] = "normalize"
               \/ k[1] # "normalize" /\ ActiveVersion = 0
               \/ k[1] = "match" /\ ActiveVersion \notin {0, k[Len(k)]}
    BY <1>4 DEF Refusal
  <1>5. QED
    BY <1>1, <1>2, <1>3, <1>4

LEMMA RefuseKeeps ==
    ASSUME StageInductive, NEW w \in Stager, NEW k \in StageKey, Refuse(w, k)
    PROVE  StageInductive'
  <1>1. /\ job[k] = "open" /\ Refusal(k) \in {"review", "dead"}
        /\ SettleJob(k, Refusal(k)) /\ Claims(w, k)
        /\ UNCHANGED <<stageClock, items, approved, scrape, facts, evaluations,
                       drafts, handed, stage>>
    BY RefusalKinds DEF Refuse, Claims
  <1>2. stops' \in 0..MaxEvents
    BY <1>1, StopsBounded DEF Claims, StageInductive, StageRowsTyped
  <1>3. QED
    BY <1>1, <1>2, SettleKeeps, LetGoKeeps

LEMMA RetriedKeeps ==
    ASSUME StageInductive, NEW w \in Stager, ~Resting(w), Retried(w),
           stops' \in 0..MaxEvents
    PROVE  StageInductive'
  <1>1. RunningKey(w) \in StageKey
    BY DEF StageInductive, StagesTrue, HeldTrue, RunningKey
  <1>2. /\ stage' = [stage EXCEPT ![w] = NoStage]
        /\ UNCHANGED <<stageClock, items, approved, scrape, facts, evaluations,
                       drafts, handed>>
    BY DEF Retried
  <1>3. /\ job' \in [StageKey -> {"none", "open", "done", "review", "dead"}]
        /\ \A k \in StageKey : job'[k] # "none" => job[k] # "none"
    <2>1. CASE UNCHANGED job
      BY <2>1 DEF StageInductive, StageRowsTyped
    <2>2. CASE job[RunningKey(w)] = "open" /\ SettleJob(RunningKey(w), "dead")
      BY <1>1, <2>2, SettleKeeps
    <2>3. QED
      BY <2>1, <2>2 DEF Retried
  <1>4. QED
    BY <1>2, <1>3, LetGoKeeps

LEMMA FinishStageKeeps ==
    ASSUME StageInductive, NEW w \in Stager, FinishStage(w)
    PROVE  StageInductive'
  <1> DEFINE k == RunningKey(w)
             asked == Enqueued(Successor(w))
  <1>1. /\ ~Resting(w) /\ stage[w].phase = "written"
        /\ job' = [asked EXCEPT ![k] = IF asked[k] = "open" THEN "done" ELSE asked[k]]
        /\ stage' = [stage EXCEPT ![w] = NoStage]
        /\ UNCHANGED <<stageClock, items, approved, scrape, facts, evaluations,
                       drafts, handed, stops>>
    BY DEF FinishStage, InPhase
  <1>2. /\ StageRowsTyped /\ StagesTrue
        /\ k \in StageKey /\ FactsFollow(stage[w]) /\ k = stage[w].key
    BY <1>1 DEF StageInductive, StagesTrue, HeldTrue, RunningKey
  <1>3. \A n \in Successor(w) : facts[n[2]] # "none"
    <2>1. CASE k[1] = "normalize"
      <3>1. Successor(w) = {<<"enrich", k[2]>>} /\ facts[k[2]] # "none"
        BY <1>1, <1>2, <2>1 DEF Successor, FactsFollow
      <3>2. QED
        BY <3>1
    <2>2. CASE k[1] = "enrich"
      <3>1. Successor(w) = {<<"match", k[2], stage[w].read.output>>}
            /\ facts[k[2]] # "none"
        BY <1>1, <1>2, <2>2 DEF Successor, FactsFollow
      <3>2. QED
        BY <3>1
    <2>3. CASE k[1] \notin {"normalize", "enrich"}
      <3>1. Successor(w) = {}
        BY <1>2, <2>3 DEF Successor
      <3>2. QED
        BY <3>1
    <2>4. QED
      BY <2>1, <2>2, <2>3
  <1>4. /\ asked \in [StageKey -> {"none", "open", "done", "review", "dead"}]
        /\ \A n \in StageKey : asked[n] # "none" => job[n] # "none" \/ n \in Successor(w)
    BY <1>2, EnqueuedFacts
  <1> HIDE DEF asked, k
  <1>5. /\ job' \in [StageKey -> {"none", "open", "done", "review", "dead"}]
        /\ \A n \in StageKey : job'[n] # "none" => asked[n] # "none"
    BY <1>1, <1>2, <1>4
  <1>6. QED
    BY <1>1, <1>2, <1>3, <1>4, <1>5, LetGoKeeps DEF StageRowsTyped

(* What another worker wrote makes the insert fail, so nothing is written  *)
(* twice.                                                                  *)
LEMMA WriteChanges ==
    ASSUME StageInductive, NEW w \in Stager, Write(w)
    PROVE  LET h == stage[w]
               k == h.key
           IN  \/ UNCHANGED <<facts, evaluations, drafts>> /\ (h.read.new => k[1] = "enrich")
               \/ /\ k[1] = "normalize" /\ facts[k[2]] = "none" /\ h.read.new
                  /\ facts' = [facts EXCEPT ![k[2]] = h.read.output]
                  /\ UNCHANGED <<evaluations, drafts>>
               \/ /\ k[1] = "match" /\ h.read.new
                  /\ evaluations' = evaluations \cup {h.read.output}
                  /\ UNCHANGED <<facts, drafts>>
               \/ /\ k[1] = "report" /\ h.read.new
                  /\ \A d \in drafts : d.period = k[2] => d.version # h.read.output.version
                  /\ drafts' = drafts \cup {h.read.output}
                  /\ UNCHANGED <<facts, evaluations>>
  <1> DEFINE h == stage[w]
             k == h.key
  <1>1. ~Resting(w) /\ h.phase = "read" /\ ~Overtaken(w) /\ k \in StageKey
    BY DEF Write, InPhase, StageInductive, StagesTrue, HeldTrue
  <1>2. k[1] \in {"normalize", "enrich", "match", "report"}
    BY <1>1, KeyKinds
  <1>3. /\ facts' = IF h.read.new /\ k[1] = "normalize"
                      THEN [facts EXCEPT ![k[2]] = h.read.output] ELSE facts
        /\ evaluations' = IF h.read.new /\ k[1] = "match"
                            THEN evaluations \cup {h.read.output} ELSE evaluations
        /\ drafts' = IF h.read.new /\ k[1] = "report"
                       THEN drafts \cup {h.read.output} ELSE drafts
    BY DEF Write, RunningKey
  <1>4. CASE ~h.read.new \/ k[1] = "enrich"
    BY <1>2, <1>3, <1>4
  <1>5. CASE h.read.new /\ k[1] = "normalize"
    BY <1>1, <1>3, <1>5 DEF Overtaken, RunningKey
  <1>6. CASE h.read.new /\ k[1] = "match"
    BY <1>3, <1>6
  <1>7. CASE h.read.new /\ k[1] = "report"
    BY <1>1, <1>3, <1>7 DEF Overtaken, RunningKey
  <1>8. QED
    BY <1>2, <1>4, <1>5, <1>6, <1>7

LEMMA WriteKeepsFacts ==
    ASSUME StageInductive, NEW w \in Stager, Write(w)
    PROVE  FactsKept
  <1>1. facts \in [Item -> {"none", "page", "alert"}]
    BY DEF StageInductive, StageRowsTyped
  <1>2. \/ UNCHANGED facts
        \/ /\ facts[stage[w].key[2]] = "none"
           /\ facts' = [facts EXCEPT ![stage[w].key[2]] = stage[w].read.output]
    BY WriteChanges
  <1>3. QED
    BY <1>1, <1>2 DEF FactsKept

LEMMA WriteKeeps ==
    ASSUME StageInductive, NEW w \in Stager, Write(w)
    PROVE  StageInductive'
  <1> DEFINE h == stage[w]
             k == h.key
             output == h.read.output
  <1>1. /\ StageRowsTyped /\ EvaluationsTrue /\ DraftsTrue /\ JobsFollowFacts
        /\ StagesTrue /\ HandedOver /\ FactsKept
    BY WriteKeepsFacts DEF StageInductive
  <1>2. /\ ~Resting(w) /\ h.phase = "read"
        /\ stage' = [stage EXCEPT ![w].phase = "written"]
        /\ UNCHANGED <<stageClock, items, approved, job, scrape, handed, stops>>
    BY DEF Write, InPhase, ToPhase
  <1>3. HeldTrue(h) /\ k \in StageKey /\ FactsFollow(h) /\ OutputFollows(h)
        /\ h = [key |-> k, at |-> h.at, phase |-> h.phase, read |-> h.read]
    BY <1>1, <1>2 DEF StagesTrue, HeldTrue
  <1>4. k[1] \in {"normalize", "enrich", "match"} => k[2] \in Item
    BY <1>3, KeyKinds
  <1>5. \/ UNCHANGED <<facts, evaluations, drafts>> /\ (h.read.new => k[1] = "enrich")
        \/ /\ k[1] = "normalize" /\ facts[k[2]] = "none" /\ h.read.new
           /\ facts' = [facts EXCEPT ![k[2]] = output]
           /\ UNCHANGED <<evaluations, drafts>>
        \/ /\ k[1] = "match" /\ h.read.new
           /\ evaluations' = evaluations \cup {output}
           /\ UNCHANGED <<facts, drafts>>
        \/ /\ k[1] = "report" /\ h.read.new
           /\ \A d \in drafts : d.period = k[2] => d.version # output.version
           /\ drafts' = drafts \cup {output}
           /\ UNCHANGED <<facts, evaluations>>
    BY WriteChanges
  <1>6. /\ stage'[w] = [key |-> k, at |-> h.at, phase |-> "written", read |-> h.read]
        /\ \A v \in Stager \ {w} : stage'[v] = stage[v]
        /\ stage' = [v \in Stager |-> stage'[v]]
    BY <1>1, <1>2, <1>3 DEF StagesTrue
  <1>7. evaluations \subseteq evaluations' /\ drafts \subseteq drafts'
    BY <1>5
  <1> DEFINE written == [key |-> k, at |-> h.at, phase |-> "written", read |-> h.read]
  <1>8. /\ written.key = k /\ written.at = h.at /\ written.phase = "written"
        /\ written.read = h.read
        /\ written = [key |-> written.key, at |-> written.at, phase |-> written.phase,
                      read |-> written.read]
    OBVIOUS
  <1>9. /\ k[1] = "normalize" /\ h.read.new => output \in {"page", "alert"}
        /\ k[1] = "match" /\ h.read.new =>
              output.item = k[2] /\ output.from = facts[k[2]]
        /\ k[1] = "report" /\ h.read.new =>
              output.period = k[2] /\ SlateTrue(output.slate, output.period, output.version)
        /\ k[1] \in {"enrich", "match"} => facts[k[2]] # "none"
        /\ k[1] = "normalize" /\ ~h.read.new => facts[k[2]] # "none"
    BY <1>3 DEF OutputFollows, FactsFollow
  <1>10. k[1] = "normalize" => facts'[k[2]] # "none"
    BY <1>1, <1>4, <1>5, <1>9 DEF StageRowsTyped, FactsKept
  <1>11. StageRowsTyped'
    BY <1>1, <1>2, <1>4, <1>5, <1>9 DEF StageRowsTyped, StageKey
  <1> HIDE DEF written, output, k, h
  <1>12. StagesTrue'
    <2>1. stage'[w] = written
      BY <1>6 DEF written
    <2>2. FactsFollow(stage[w])'
      BY <1>1, <1>4, <1>8, <1>9, <1>10, <2>1 DEF FactsFollow, FactsKept
    <2>3. OutputFollows(stage[w])'
      BY <1>1, <1>4, <1>7, <1>8, <1>9, <2>1
      DEF OutputFollows, SlateTrue, FactsKept, output
    <2>4. HeldTrue(stage[w])'
      BY <1>3, <1>8, <2>1, <2>2, <2>3 DEF HeldTrue, StageKey
    <2>5. QED
      BY <1>1, <1>6, <1>7, <2>4, StageMoves
  <1>13. EvaluationsTrue'
    BY <1>1, <1>4, <1>5, <1>9 DEF EvaluationsTrue, FactsKept
  <1>14. DraftsTrue'
    <2>1. \A d \in drafts : SlateTrue(d.slate, d.period, d.version)'
      BY <1>1, <1>7 DEF DraftsTrue, SlateTrue
    <2>2. CASE drafts' = drafts
      BY <1>1, <2>1, <2>2 DEF DraftsTrue
    <2>3. CASE k[1] = "report" /\ h.read.new /\ drafts' = drafts \cup {output}
               /\ \A d \in drafts : d.period = k[2] => d.version # output.version
      <3>1. SlateTrue(output.slate, output.period, output.version)
        BY <1>9, <2>3
      <3>2. \A d \in drafts' : SlateTrue(d.slate, d.period, d.version)'
        <4>1. /\ output.slate \subseteq evaluations'
              /\ \A e \in output.slate :
                    /\ e.version = output.version /\ e.at <= output.period
                    /\ \A f \in output.slate :
                          CandidateOf[e.item] = CandidateOf[f.item] => e = f
          BY <1>7, <3>1 DEF SlateTrue
        <4>2. QED
          BY <2>1, <2>3, <4>1 DEF SlateTrue
      <3>3. \A d, e \in drafts' : d.period = e.period /\ d.version = e.version => d = e
        BY <1>1, <1>9, <2>3 DEF DraftsTrue
      <3>4. QED
        BY <3>2, <3>3 DEF DraftsTrue
    <2>4. QED
      BY <1>5, <2>2, <2>3
  <1>15. JobsFollowFacts' /\ HandedOver'
    BY <1>1, <1>2, <1>7, JobsMove, HandedUntouched
  <1>16. QED
    BY <1>11, <1>12, <1>13, <1>14, <1>15 DEF StageInductive

(* The version after the active one.                                       *)
LEMMA NextIsVersion ==
    ASSUME StageRowsTyped, ActiveVersion < MaxVersion
    PROVE  ActiveVersion + 1 \in Version
  <1> DEFINE below == {MaxVersion - v : v \in approved}
  <1>1. MaxVersion \in Nat /\ \A v \in approved : v \in Nat /\ v <= MaxVersion
    BY StageAssumption DEF StageRowsTyped, Version
  <1>2. CASE approved = {}
    BY <1>1, <1>2 DEF ActiveVersion, Version
  <1>3. CASE approved # {}
    <2>1. below \in SUBSET Nat /\ below # {}
      BY <1>1, <1>3
    <2>2. PICK m \in below : \A n \in below : m <= n
      <3> HIDE DEF below
      <3>1. PICK m \in below : \A n \in below : <<n, m>> \notin OpToRel(<, Nat)
        BY <2>1, WFMin, NatLessThanWellFounded, Zenon
      <3>2. \A n \in below : ~(n < m)
        BY <2>1, <3>1, Zenon DEF OpToRel
      <3>3. \A n \in below : m <= n
        BY <2>1, <3>2
      <3>4. QED
        BY <3>3
    <2>3. PICK top \in approved : m = MaxVersion - top
      BY <2>2
    <2>4. \A v \in approved : top >= v
      <3>1. \A v \in approved : m <= MaxVersion - v
        BY <2>2
      <3>2. QED
        BY <1>1, <2>3, <3>1
    <2>5. Max(approved) \in approved
      BY <2>4 DEF Max
    <2>6. ActiveVersion \in Nat
      BY <1>1, <1>3, <2>5 DEF ActiveVersion
    <2>7. QED
      BY <1>1, <2>6 DEF Version
  <1>4. QED
    BY <1>2, <1>3

LEMMA ArrivalKeeps ==
    ASSUME StageInductive, (\E s \in Item : ItemArrives(s)) \/ AddApproved \/ StageTick
    PROVE  StageInductive'
  <1>1. UNCHANGED <<job, scrape, facts, evaluations, drafts, handed, stage, stops>>
    BY DEF ItemArrives, AddApproved, StageTick
  <1>2. StageRowsTyped'
    <2>1. StageRowsTyped
      BY DEF StageInductive
    <2>2. CASE \E s \in Item : ItemArrives(s)
      BY <2>1, <2>2, FS_AddElement DEF ItemArrives, StageRowsTyped, StageKey
    <2>3. CASE AddApproved
      BY <2>1, <2>3, NextIsVersion DEF AddApproved, StageRowsTyped, StageKey
    <2>4. CASE StageTick
      BY <2>1, <2>4, StageAssumption DEF StageTick, StageRowsTyped, StageKey
    <2>5. QED
      BY <2>2, <2>3, <2>4
  <1>3. FactsKept
    BY <1>1 DEF FactsKept
  <1>4. QED
    BY <1>1, <1>2, <1>3, OutputsUntouched, JobsMove, StagesUntouched, HandedUntouched
    DEF StageInductive

LEMMA StageStepInductive ==
    StageInductive /\ [StageNext]_stageVars => StageInductive'
  <1> SUFFICES ASSUME StageInductive, [StageNext]_stageVars
               PROVE  StageInductive'
    OBVIOUS
  <1>1. CASE Reconcile \/ Schedule
    BY <1>1, ReconcileKeeps, ScheduleKeeps
  <1>2. CASE AwaitAny \/ ScrapeEndsAny
    BY <1>2, AwaitScrapeKeeps DEF AwaitAny, ScrapeEndsAny
  <1>3. ASSUME NEW w \in Stager, BeginAny(w)
        PROVE  StageInductive'
    BY <1>3, RefuseKeeps, BeginNormalizeKeeps, BeginEnrichKeeps, BeginMatchKeeps,
       BeginReportKeeps DEF BeginAny
  <1>4. ASSUME NEW w \in Stager, Write(w) \/ FinishStage(w)
        PROVE  StageInductive'
    BY <1>4, WriteKeeps, FinishStageKeeps
  <1>5. ASSUME NEW w \in Stager, Collide(w)
        PROVE  StageInductive'
    <2>1. stops' \in 0..MaxEvents
      BY <1>5 DEF Collide, StageInductive, StageRowsTyped
    <2>2. QED
      BY <1>5, <2>1, RetriedKeeps DEF Collide, InPhase
  <1>6. ASSUME NEW w \in Stager, Interrupt(w)
        PROVE  StageInductive'
    <2>1. stops' \in 0..MaxEvents
      BY <1>6, StopsBounded DEF Interrupt, StageInductive
    <2>2. QED
      BY <1>6, <2>1, RetriedKeeps DEF Interrupt
  <1>7. CASE (\E s \in Item : ItemArrives(s)) \/ AddApproved \/ StageTick
    BY <1>7, ArrivalKeeps
  <1>8. CASE UNCHANGED stageVars
    <2>1. /\ UNCHANGED <<stageClock, items, approved, job, scrape, facts, evaluations,
                         drafts, handed, stage, stops>>
          /\ StageRowsTyped /\ FactsKept
      BY <1>8 DEF stageVars, StageInductive, FactsKept
    <2>2. StageRowsTyped'
      BY <2>1 DEF StageRowsTyped, StageKey
    <2>3. QED
      BY <2>1, <2>2, OutputsUntouched, JobsMove, StagesUntouched, HandedUntouched
      DEF StageInductive
  <1>9. QED
    BY <1>1, <1>2, <1>3, <1>4, <1>5, <1>6, <1>7, <1>8 DEF StageNext, StageStep

LEMMA StepKeepsFacts ==
    StageInductive /\ [StageNext]_stageVars
      => [\A s \in Item : facts[s] # "none" => facts'[s] = facts[s]]_stageVars
  <1> SUFFICES ASSUME StageInductive, StageNext
               PROVE  \A s \in Item : facts[s] # "none" => facts'[s] = facts[s]
    BY DEF stageVars
  <1>1. UNCHANGED facts \/ \E w \in Stager : Write(w)
    BY DEF StageNext, Reconcile, Schedule, AwaitAny, AwaitScrape, ScrapeEndsAny, ScrapeEnds,
           StageStep, BeginAny, Refuse, BeginNormalize, BeginEnrich, BeginMatch,
           BeginReport, BeginStage, FinishStage, Collide, Interrupt, Retried,
           ItemArrives, AddApproved, StageTick
  <1>2. QED
    BY <1>1, WriteKeepsFacts DEF FactsKept

LEMMA StagesRight == StageInductive => StageTypeOK /\ DraftStaysTrue
  <1> SUFFICES ASSUME StageInductive PROVE StageTypeOK /\ DraftStaysTrue
    OBVIOUS
  <1>1. /\ StageRowsTyped /\ EvaluationsTrue /\ DraftsTrue
        /\ StagesTrue /\ HandedOver
    BY DEF StageInductive
  <1>2. StageTypeOK
    BY <1>1 DEF StageTypeOK, StageRowsTyped, StagesTrue, HeldTrue, RunningKey,
                HandedOver, DraftsTrue, SlateTrue
  <1>3. DraftStaysTrue
    BY <1>1 DEF DraftStaysTrue, DraftsTrue, SlateTrue, EvaluationsTrue
  <1>4. QED
    BY <1>2, <1>3

(* For any items, portals, periods, profile versions and workers, however  *)
(* they overtake each other: facts are written once, evaluations and       *)
(* drafts agree with them, and the outbox holds the draft of its period.   *)
THEOREM OutputsStandAlways == StageSpec => OutputsStand
  <1>1. StageSpec => []StageInductive
    BY StageInitInductive, StageStepInductive, PTL DEF StageSpec
  <1>2. QED
    BY <1>1, StagesRight, StepKeepsFacts, PTL
    DEF StageSpec, OutputsStand, FactsImmutable

=============================================================================
