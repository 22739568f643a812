---------------------------- MODULE WorkflowJobs ----------------------------
(***************************************************************************)
(* The persistent workflow: jobs with leases, retries and deferrals, and   *)
(* the workers that run stages which enqueue their successor stage.        *)
(*                                                                         *)
(* Code: src/homefinder/workflow/repository.py and the loop of             *)
(* WorkflowService.run_once.  A job stands for an idempotency key.         *)
(*                                                                         *)
(* Times are kept as what is left of them, so that behaviours need no      *)
(* horizon.  A worker runs one job at a time and forgets its claim in a    *)
(* crash, so its identity stands for the lease token of the claim it       *)
(* holds: a token differs from the stored one exactly when another claim,  *)
(* or none, holds the job.                                                 *)
(***************************************************************************)
EXTENDS Naturals

CONSTANTS
    Job,            \* idempotency keys
    Child,          \* the stage a job's handler enqueues, NoJob for the last
    Root,           \* jobs enqueued by the scheduler or by reconciliation
    NoJob,
    Worker,
    NoWorker,
    MaxAttempts,    \* max_attempts of a job
    LeaseTime,      \* lease_for
    RetryDelay,     \* retry_delay by attempt number (its jitter is fixed by job id)
    DeferDelay,     \* delay of a deferral (30 seconds for a pending scrape)
    MaxLag,         \* bound: age of the time a worker's batch works with
    Reaping,        \* whether some process calls reap_expired
    MaxCrashes,     \* bound: worker crashes
    MaxDefers,      \* bound: deferrals of all jobs together
    MaxSlips        \* bound: leases that run out under a working worker

Smaller(a, b) == IF a < b THEN a ELSE b
Less(a, b) == IF a > b THEN a - b ELSE 0

ASSUME JobsAssumption ==
    /\ NoJob \notin Job /\ NoWorker \notin Worker
    /\ Root \subseteq Job
    /\ Child \in [Job -> Job \cup {NoJob}]
    /\ MaxAttempts \in Nat \ {0}
    /\ LeaseTime \in Nat /\ DeferDelay \in Nat
    /\ RetryDelay \in [1..MaxAttempts -> Nat]
    /\ {MaxLag, MaxCrashes, MaxDefers, MaxSlips} \subseteq Nat
    /\ MaxLag < LeaseTime
    /\ Reaping \in BOOLEAN

VARIABLES
    jobState,       \* WorkflowJobRecord.state, "none" before enqueue
    wait,           \* time left until available_at
    attemptCount,   \* attempt_count; all values from max_attempts on are alike
    owner,          \* holder of the current lease token
    leaseLeft,      \* time left until lease_expires_at is in the past
    held,           \* the claim each worker process works on
    phase,          \* where in run_once that worker is
    crashes, defers, slips \* counted for the bounds

jobVars == <<jobState, wait, attemptCount, owner, leaseLeft>>
vars == <<jobVars, held, phase, crashes, defers, slips>>

JobState == {"none", "pending", "running", "retry_wait", "succeeded",
             "dead_letter", "manual_review"}
Settled == {"succeeded", "dead_letter", "manual_review"}

-----------------------------------------------------------------------------
(* enqueue; a known key is returned unchanged.                             *)
Enqueue(j) ==
    /\ jobState[j] = "none"
    /\ j \in Root
    /\ jobState' = [jobState EXCEPT ![j] = "pending"]
    /\ UNCHANGED <<wait, attemptCount, owner, leaseLeft, held, phase,
                   crashes, defers, slips>>

ClaimablePending(j) == jobState[j] = "pending" /\ wait[j] = 0

(* The WHERE clause of claim.                                              *)
Claimable(j) == jobState[j] \in {"pending", "retry_wait"} /\ wait[j] = 0

(* claim, by a worker whose batch started lag ago: the lease is counted    *)
(* from the start of the batch.                                            *)
Claim(w, j, lag) ==
    /\ held[w] = NoJob
    /\ Claimable(j)
    /\ jobState' = [jobState EXCEPT ![j] = "running"]
    /\ attemptCount' = [attemptCount EXCEPT ![j] = Smaller(@ + 1, MaxAttempts)]
    /\ owner' = [owner EXCEPT ![j] = w]
    /\ leaseLeft' = [leaseLeft EXCEPT ![j] = Less(LeaseTime, lag)]
    /\ held' = [held EXCEPT ![w] = j]
    /\ phase' = [phase EXCEPT ![w] = "working"]
    /\ UNCHANGED <<wait, crashes, defers, slips>>

AckWithoutChild(w) ==
    /\ phase[w] = "working"
    /\ phase' = [phase EXCEPT ![w] = "done"]
    /\ UNCHANGED <<jobVars, held, crashes, defers, slips>>

(* A handler that succeeds stores its output and enqueues the next stage   *)
(* (if the key is new) before the job itself is acknowledged.              *)
RunStage(w) ==
    /\ phase[w] = "working"
    /\ phase' = [phase EXCEPT ![w] = "done"]
    /\ jobState' = [j \in Job |-> IF j = Child[held[w]] /\ jobState[j] = "none"
                                    THEN "pending" ELSE jobState[j]]
    /\ UNCHANGED <<wait, attemptCount, owner, leaseLeft, held,
                   crashes, defers, slips>>

AnyHolder(w, j) == held[w] = j

(* _leased.                                                                *)
Leased(w, j) ==
    /\ held[w] = j
    /\ jobState[j] = "running"
    /\ owner[j] = w

(* The worker's claim is over.                                             *)
Release(w) ==
    /\ held' = [held EXCEPT ![w] = NoJob]
    /\ phase' = [phase EXCEPT ![w] = "idle"]

(* The end of an attempt: new state, lease cleared, worker free again.     *)
Finish(w, j, state) ==
    /\ Leased(w, j)
    /\ jobState' = [jobState EXCEPT ![j] = state]
    /\ owner' = [owner EXCEPT ![j] = NoWorker]
    /\ leaseLeft' = [leaseLeft EXCEPT ![j] = 0]
    /\ Release(w)
    /\ UNCHANGED <<attemptCount, crashes, slips>>

Succeed(w, j) ==
    /\ phase[w] = "done"
    /\ Finish(w, j, "succeeded")
    /\ UNCHANGED <<wait, defers>>

(* fail of a stage that raised something transient: another attempt after  *)
(* the backoff, or dead letter when the budget is used up.                 *)
FailRetry(w, j, lag) ==
    /\ phase[w] = "working"
    /\ attemptCount[j] < MaxAttempts
    /\ Finish(w, j, "retry_wait")
    /\ wait' = [wait EXCEPT ![j] = Less(RetryDelay[attemptCount[j]], lag)]
    /\ UNCHANGED defers

FailDead(w, j) ==
    /\ phase[w] = "working"
    /\ attemptCount[j] >= MaxAttempts
    /\ Finish(w, j, "dead_letter")
    /\ UNCHANGED <<wait, defers>>

(* fail(retryable=False), with or without manual_review.                   *)
FailPermanent(w, j, state) ==
    /\ phase[w] = "working"
    /\ Finish(w, j, state)
    /\ UNCHANGED <<wait, defers>>

(* defer: no check of the retry budget.                                    *)
Defer(w, j, lag) ==
    /\ phase[w] = "working"
    /\ defers < MaxDefers
    /\ Finish(w, j, "retry_wait")
    /\ wait' = [wait EXCEPT ![j] = Less(DeferDelay, lag)]
    /\ defers' = defers + 1

(* Any acknowledgement of a lost lease raises LostLease.                   *)
LoseLease(w) ==
    /\ held[w] # NoJob
    /\ ~Leased(w, held[w])
    /\ Release(w)
    /\ UNCHANGED <<jobVars, crashes, defers, slips>>

(* The process stops between two transactions and is started again.        *)
Crash(w) ==
    /\ held[w] # NoJob
    /\ crashes < MaxCrashes
    /\ crashes' = crashes + 1
    /\ Release(w)
    /\ UNCHANGED <<jobVars, defers, slips>>

(* Jobs reap_expired selects.                                              *)
ExpiredJobs == {j \in Job : jobState[j] = "running" /\ leaseLeft[j] = 0}

(* reap_expired, where a process calls it.                                 *)
ReapExpired ==
    /\ Reaping
    /\ ExpiredJobs # {}
    /\ jobState' = [j \in Job |-> IF j \in ExpiredJobs THEN "retry_wait" ELSE jobState[j]]
    /\ owner' = [j \in Job |-> IF j \in ExpiredJobs THEN NoWorker ELSE owner[j]]
    /\ wait' = [j \in Job |-> IF j \in ExpiredJobs THEN 0 ELSE wait[j]]
    /\ UNCHANGED <<attemptCount, leaseLeft, held, phase, crashes, defers,
                   slips>>

(* Leases that the next tick ends although their worker still works.       *)
Slipping == {j \in Job : leaseLeft[j] = 1 /\ \E w \in Worker : Leased(w, j)}

(* Time passes.  A stage that outlasts its lease is run again, without end *)
(* if it always does; at most MaxSlips do.                                 *)
Tick ==
    /\ slips < MaxSlips \/ Slipping = {}
    /\ slips' = IF Slipping = {} THEN slips ELSE slips + 1
    /\ \E j \in Job : wait[j] > 0 \/ leaseLeft[j] > 0
    /\ wait' = [j \in Job |-> Less(wait[j], 1)]
    /\ leaseLeft' = [j \in Job |-> Less(leaseLeft[j], 1)]
    /\ UNCHANGED <<jobState, attemptCount, owner, held, phase,
                   crashes, defers>>

-----------------------------------------------------------------------------
Init ==
    /\ jobState = [j \in Job |-> "none"]
    /\ wait = [j \in Job |-> 0]
    /\ attemptCount = [j \in Job |-> 0]
    /\ owner = [j \in Job |-> NoWorker]
    /\ leaseLeft = [j \in Job |-> 0]
    /\ held = [w \in Worker |-> NoJob]
    /\ phase = [w \in Worker |-> "idle"]
    /\ crashes = 0
    /\ defers = 0
    /\ slips = 0

ClaimSome(j) == \E w \in Worker, lag \in 0..MaxLag : Claim(w, j, lag)

(* What a worker that holds a claim does next.                             *)
Continue(w) ==
    \/ RunStage(w)
    \/ LoseLease(w)
    \/ \E j \in Job :
          \/ Succeed(w, j)
          \/ FailDead(w, j)
          \/ \E lag \in 0..MaxLag : FailRetry(w, j, lag) \/ Defer(w, j, lag)
          \/ \E state \in {"dead_letter", "manual_review"} : FailPermanent(w, j, state)

Next ==
    \/ \E j \in Job : Enqueue(j) \/ ClaimSome(j)
    \/ \E w \in Worker : Continue(w) \/ Crash(w)
    \/ ReapExpired
    \/ Tick

(* Time passes, worker processes are restarted by their supervisor and run *)
(* what they claimed to its end (every remote call has a timeout), claims  *)
(* go by available_at so that no waiting job is passed over for ever, and  *)
(* the reaper, if there is one, runs periodically.                         *)
Fairness ==
    /\ WF_vars(Tick)
    /\ WF_vars(ReapExpired)
    /\ \A w \in Worker : WF_vars(Continue(w))
    /\ \A j \in Job : SF_vars(ClaimSome(j))

Spec == Init /\ [][Next]_vars /\ Fairness

-----------------------------------------------------------------------------
(* Types; a job has a lease owner exactly while it runs, and a worker that *)
(* still owns a running job it works on is the only one entitled to it.    *)
TypeOK ==
    /\ jobState \in [Job -> JobState]
    /\ wait \in [Job -> Nat]
    /\ attemptCount \in [Job -> 0..MaxAttempts]
    /\ owner \in [Job -> Worker \cup {NoWorker}]
    /\ leaseLeft \in [Job -> Nat]
    /\ held \in [Worker -> Job \cup {NoJob}]
    /\ phase \in [Worker -> {"idle", "working", "done"}]
    /\ \A j \in Job : jobState[j] = "running" <=> owner[j] # NoWorker

(* No stage is lost between two jobs: a job that was acknowledged has its  *)
(* successor enqueued, whatever crashes, expired leases and second runs of *)
(* the stage came in between.                                              *)
ChainUnbroken ==
    \A j \in Job : (jobState[j] = "succeeded" /\ Child[j] # NoJob)
                        => jobState[Child[j]] # "none"

(* A settled job stays settled: the late acknowledgement of a worker whose *)
(* lease was reaped neither revives nor re-labels what its replacement     *)
(* finished.                                                               *)
SettledIsFinal ==
    [][\A j \in Job : jobState[j] \in Settled => jobState'[j] = jobState[j]]_vars

(* A job as a piece of leased work.                                        *)
WorkStatus == [j \in Job |->
    CASE jobState[j] = "none" -> "absent"
      [] jobState[j] \in {"pending", "retry_wait"} -> "waiting"
      [] jobState[j] = "running" -> "held"
      [] OTHER -> "done"]

Work == INSTANCE LeasedWork WITH
    Item <- Job, Holder <- Worker, Free <- NoWorker, Nothing <- NoJob,
    TakeOver <- FALSE, status <- WorkStatus, holder <- owner, belief <- held

(* The job queue implements leased work: through crashes, reaping, late    *)
(* acknowledgements and stages that offer their successor, a job is        *)
(* offered once, taken only while it waits, and finished or given back     *)
(* only by the worker that holds it at that moment.                        *)
JobsAreLeasedWork == Work!WorkSpec

(* Every job is eventually settled, although workers crash, lose leases    *)
(* and defer.                                                              *)
EveryJobSettles ==
    \A j \in Job : jobState[j] # "none" ~> jobState[j] \in Settled

=============================================================================
