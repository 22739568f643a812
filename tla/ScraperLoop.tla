---------------------------- MODULE ScraperLoop ----------------------------
(***************************************************************************)
(* The two processes that consume scrape leases, with the thread that      *)
(* renews the lease beside them and a connection that loses requests and   *)
(* replies: does every task come to an end?                                *)
(*                                                                         *)
(* Code: ScrapeWorker (src/homefinder/scraper/worker.py) and               *)
(* ArtifactRecoveryWorker (artifact_recovery_worker.py), their client      *)
(* (scraper/coordinator.py) and the routes they call                       *)
(* (scrape_queue/api.py).                                                  *)
(*                                                                         *)
(* What the coordinator does with a lease is the module ScrapeQueue; here  *)
(* it is cut down to what the loops can observe, with times counted from   *)
(* the present, so that behaviours are infinite and the states finite.  A  *)
(* worker that is busy never claims, so a task that runs for worker w is   *)
(* held by w's current run, or left over from a run of w that ended.       *)
(***************************************************************************)
EXTENDS Naturals

CONSTANTS
    Crew,           \* worker processes
    Job,            \* scrape tasks
    Replays,        \* the tasks of class artifact_recovery
    Readers,        \* the artifact recovery workers of the crew
    Packs,          \* releases each worker's build contains
    Needs,          \* release each task is bound to
    NoOne,
    LeaseLen,       \* lease_seconds
    LeaseCap,       \* max_lease_seconds
    TryLimit,       \* max_attempts
    WaitLen         \* longest deferral told apart

ASSUME LoopAssumption ==
    /\ Replays \subseteq Job /\ Readers \subseteq Crew /\ NoOne \notin Crew
    /\ LeaseLen \in Nat \ {0} /\ LeaseCap \in Nat /\ LeaseLen <= LeaseCap
    /\ TryLimit \in Nat \ {0} /\ WaitLen \in Nat \ {0}

VARIABLES
    tasks,          \* the task rows
    loop,           \* where each worker's run_once is
    requests        \* history: pages requested from the portal for each task

loopVars == <<tasks, loop, requests>>

Lesser(a, b) == IF a < b THEN a ELSE b
NotQueued == [state |-> "none", tries |-> 0, by |-> NoOne, left |-> 0,
              life |-> 0, wait |-> 0]
Waiting == [state |-> "waiting", tries |-> 0, by |-> NoOne, left |-> 0,
            life |-> 0, wait |-> 0]
AtRest == [at |-> "idle", job |-> NoOne, lost |-> FALSE, sends |-> 0]
Settled(t) == tasks[t].state \in {"succeeded", "failed"}

Put(t, row) == tasks' = [tasks EXCEPT ![t] = row]
Ended(t, state) == [tasks[t] EXCEPT !.state = state, !.by = NoOne,
                                  !.left = 0, !.life = 0]
StepTo(w, at) == loop' = [loop EXCEPT ![w].at = at]
EndRun(w) == loop' = [loop EXCEPT ![w] = AtRest]

(* enqueue, by the workflow or a recovery plan.                            *)
QueueTask(t) ==
    /\ tasks[t].state = "none"
    /\ Put(t, Waiting)
    /\ UNCHANGED <<loop, requests>>

-----------------------------------------------------------------------------
(* claim *)

OutOfTries(t) == FALSE

(* A reaped task without attempts left has failed.                         *)
Exhausted(t) == tasks[t].tries >= TryLimit

Lapsed(t) == tasks[t].state = "running" /\ tasks[t].left = 0

(* reap_expired, which every claim starts with.                            *)
Reaped == [t \in Job |->
    IF ~Lapsed(t) THEN tasks[t]
    ELSE Ended(t, IF Exhausted(t) THEN "failed" ELSE "waiting")]

Class(w) == IF w \in Readers THEN Replays ELSE Job \ Replays

Claimable(w) == {t \in Class(w) : /\ Reaped[t].state = "waiting"
                                 /\ Reaped[t].wait = 0
                                 /\ Reaped[t].tries < TryLimit}

(* claim: the first task in the queue's order (one of those that are       *)
(* available), for a worker that has its release; a first task of another  *)
(* release makes the claim come back empty-handed.                         *)
Claim(w, t) ==
    /\ loop[w].at = "idle"
    /\ t \in Claimable(w)
    /\ IF Needs[t] \in Packs[w]
         THEN /\ tasks' = [Reaped EXCEPT ![t].state = "running", ![t].by = w,
                            ![t].tries = @ + 1, ![t].left = LeaseLen,
                            ![t].life = LeaseCap]
              /\ \/ loop' = [loop EXCEPT ![w] =
                       [at |-> IF t \in Replays THEN "replay" ELSE "reserve",
                        job |-> t, lost |-> FALSE, sends |-> 0]]
                 \/ UNCHANGED loop
         ELSE /\ tasks' = Reaped
              /\ UNCHANGED loop
    /\ UNCHANGED requests

(* claim with nothing available: the reaping is all it does.  (A lease     *)
(* whose reply was lost, or that the worker finds too short or of another  *)
(* kind, is dropped: the second alternative above.)                        *)
ClaimNone(w) ==
    /\ loop[w].at = "idle"
    /\ Claimable(w) = {}
    /\ \E t \in Job : Lapsed(t)
    /\ tasks' = Reaped
    /\ UNCHANGED <<loop, requests>>

(* What the coordinator checks of every later request (_leased).           *)
Holds(w) ==
    LET t == loop[w].job
    IN  tasks[t].state = "running" /\ tasks[t].by = w /\ tasks[t].left > 0

-----------------------------------------------------------------------------
(* The renewing thread *)

(* renew: heartbeat and advertise; any exception, a refusal included, sets *)
(* `lost' and ends the thread.                                             *)
RenewLease(w) ==
    /\ loop[w].at # "idle"
    /\ ~loop[w].lost
    /\ \/ /\ Holds(w)
          /\ tasks[loop[w].job].life > 0
          /\ Put(loop[w].job, [tasks[loop[w].job] EXCEPT
                                  !.left = Lesser(LeaseLen, tasks[loop[w].job].life)])
          /\ UNCHANGED loop
       \/ /\ loop' = [loop EXCEPT ![w].lost = TRUE]
          /\ UNCHANGED tasks
    /\ UNCHANGED requests

-----------------------------------------------------------------------------
(* ScrapeWorker.run_once after the claim *)

(* reserve_start: a permit, a refusal with the time to come back, or an    *)
(* exception, after which the lease is left to expire.                     *)
Reserve(w) ==
    /\ loop[w].at = "reserve"
    /\ \/ /\ Holds(w)
          /\ StepTo(w, "fetching")
          /\ requests' = [requests EXCEPT ![loop[w].job] = @ + 1]
       \/ /\ Holds(w)
          /\ StepTo(w, "refused")
          /\ UNCHANGED requests
       \/ EndRun(w) /\ UNCHANGED requests
    /\ UNCHANGED tasks

Postponed(t, tries) ==
    {[Ended(t, "waiting") EXCEPT !.tries = tries, !.wait = n] : n \in 1..WaitLen}

RefundedCooldown(t) == Postponed(t, tasks[t].tries - 1)

(* defer(source-cooldown) counts the attempt, the last one fails the task. *)
CooledDown(t) ==
    IF tasks[t].tries < TryLimit THEN Postponed(t, tasks[t].tries)
                               ELSE {Ended(t, "failed")}

(* The last call of a run, its exceptions suppressed: applied by the       *)
(* coordinator while the lease is held, or lost on the way.                *)
LastCall(w, rows) ==
    /\ EndRun(w)
    /\ \/ Holds(w) /\ \E row \in rows : Put(loop[w].job, row)
       \/ UNCHANGED tasks
    /\ UNCHANGED requests

(* defer(budget-exhausted): no request was made, the attempt is given back.*)
DeferRefused(w) ==
    /\ loop[w].at = "refused"
    /\ LastCall(w, Postponed(loop[w].job, tasks[loop[w].job].tries - 1))

(* fetch returns a page or raises; then "if lost: return".                 *)
FetchEnds(w) ==
    /\ loop[w].at = "fetching"
    /\ IF loop[w].lost THEN EndRun(w)
                       ELSE \E at \in {"page", "denied"} : StepTo(w, at)
    /\ UNCHANGED <<tasks, requests>>

(* record_network_outcome after a failed fetch: the answer is a direct     *)
(* retry or unreadable (the lease is left to expire), a cooldown of the    *)
(* source, or neither.                                                     *)
RecordFailure(w) ==
    /\ loop[w].at = "denied"
    /\ \/ EndRun(w)
       \/ \E at \in {"cooldown", "failing"} : StepTo(w, at)
    /\ UNCHANGED <<tasks, requests>>

DeferCooldown(w) ==
    /\ loop[w].at = "cooldown"
    /\ LastCall(w, CooledDown(loop[w].job))

(* fail(transport-error): retried after a backoff while attempts are left. *)
FailTransport(w) ==
    /\ loop[w].at = "failing"
    /\ LastCall(w, CooledDown(loop[w].job))

(* record_network_outcome of a page, parse (a miss is a result too) and    *)
(* the upload of the artifact; a discovery without its artifact fails.     *)
ParsePage(w) ==
    /\ loop[w].at = "page"
    /\ \/ EndRun(w) /\ UNCHANGED tasks
       \/ LastCall(w, {Ended(loop[w].job, "failed")})
       \/ /\ loop' = [loop EXCEPT ![w].at = "complete", ![w].sends = 3]
          /\ UNCHANGED tasks
    /\ UNCHANGED requests

(* complete, sent up to three times with the same outcome: "if lost:       *)
(* break"; stored now or already; refused as lost; or the request or its   *)
(* reply is lost, after which it is sent again.                            *)
SendComplete(w) ==
    LET t == loop[w].job
        again == IF loop[w].sends = 1 THEN AtRest
                                      ELSE [loop[w] EXCEPT !.sends = @ - 1]
    IN  /\ loop[w].at = "complete"
        /\ \/ loop[w].lost /\ EndRun(w) /\ UNCHANGED tasks
           \/ /\ ~loop[w].lost
              /\ Holds(w)
              /\ Put(t, Ended(t, "succeeded"))
              /\ loop' \in {[loop EXCEPT ![w] = AtRest], [loop EXCEPT ![w] = again]}
           \/ /\ ~loop[w].lost
              /\ ~Holds(w)
              /\ EndRun(w)
              /\ UNCHANGED tasks
           \/ /\ ~loop[w].lost
              /\ loop' = [loop EXCEPT ![w] = again]
              /\ UNCHANGED tasks
        /\ UNCHANGED requests

(* ArtifactRecoveryWorker.run_once after the claim: heartbeat, input,      *)
(* read, parse, completion; any exception that is not a lost lease fails   *)
(* the task for good, a lease that is too short included.                  *)
Replay(w) ==
    /\ loop[w].at = "replay"
    /\ IF loop[w].lost
         THEN EndRun(w) /\ UNCHANGED <<tasks, requests>>
         ELSE LastCall(w, {Ended(loop[w].job, s) : s \in {"succeeded", "failed"}})

-----------------------------------------------------------------------------
(* The process is killed at any point of a run and started again.          *)
WorkerDies(w) ==
    /\ loop[w].at # "idle"
    /\ EndRun(w)
    /\ UNCHANGED <<tasks, requests>>

Less(n) == IF n = 0 THEN 0 ELSE n - 1

TimePasses ==
    /\ \E t \in Job : tasks[t].left + tasks[t].wait > 0
    /\ tasks' = [t \in Job |-> [tasks[t] EXCEPT !.left = Less(@), !.life = Less(@),
                                            !.wait = Less(@)]]
    /\ UNCHANGED <<loop, requests>>

LoopInit ==
    /\ tasks = [t \in Job |-> NotQueued]
    /\ loop = [w \in Crew |-> AtRest]
    /\ requests = [t \in Job |-> 0]

ClaimWork(w) == ClaimNone(w) \/ \E t \in Job : Claim(w, t)

RunWork(w) ==
    \/ Reserve(w) \/ DeferRefused(w) \/ FetchEnds(w) \/ RecordFailure(w)
    \/ DeferCooldown(w) \/ FailTransport(w) \/ ParsePage(w) \/ SendComplete(w)
    \/ Replay(w)

LoopNext ==
    \/ TimePasses
    \/ \E t \in Job : QueueTask(t)
    \/ \E w \in Crew : ClaimWork(w) \/ RunWork(w)
    \/ \E w \in Crew : RenewLease(w) \/ WorkerDies(w)

(* A worker process goes on with its run and claims again after it (run),  *)
(* and is restarted when it dies; time passes.                             *)
LoopFairness ==
    /\ WF_loopVars(TimePasses)
    /\ \A w \in Crew : WF_loopVars(RunWork(w)) /\ SF_loopVars(ClaimWork(w))

LoopSpec == LoopInit /\ [][LoopNext]_loopVars /\ LoopFairness

-----------------------------------------------------------------------------
(* The portal sees at most max_attempts requests for one page, however     *)
(* leases are lost, workers die and refused starts give attempts back:     *)
(* an attempt is returned only if it made no request.                      *)
RequestsBounded == \A t \in Job : requests[t] <= TryLimit

Refusing == \E w \in Crew : loop[w].at = "refused"

(* Every queued task ends, whatever is lost on the way and however often   *)
(* workers die, unless the budget keeps refusing for ever: no task stays   *)
(* with a worker that is gone, behind a task of another release, or        *)
(* waiting with no attempt left.                                           *)
EveryTaskSettles ==
    \A t \in Job : (tasks[t].state = "waiting" ~> Settled(t)) \/ []<>Refusing

=============================================================================
